----------------------------- MODULE RequestLatency -----------------------------
(* RequestLatency.cpp, switched on, with the calls that TcpConnection and    *)
(* request_handler make: each request is stamped by its I/O thread and by a  *)
(* worker in turn, and the I/O threads add the elapsed times to shared       *)
(* atomic counters.  Every atomic operation is one step.                     *)
EXTENDS Integers, FiniteSets, FiniteSetsExt

CONSTANTS
    Request,        \* requests, each on a connection of its own
    MaxTime         \* bound of the clock

ASSUME LatencyAssumption == IsFiniteSet(Request) /\ MaxTime \in Nat

VARIABLES
    now,
    io,         \* where the I/O thread of each request is
    work,       \* where its worker is
    at,         \* time of each mark of its RequestTiming
    adding,     \* the counter that complete() adds to next
    current,    \* what updateMax has read
    sums,       \* the five counters of microseconds
    completed_requests_,
    max_total_us_

vars == <<now, io, work, at, adding, current, sums, completed_requests_, max_total_us_>>

Mark == {"request_ready", "queued", "worker_started", "worker_finished", "returned_to_io",
         "completed"}
Sum == {"worker_queue", "worker_compute", "result_return", "response_write", "total"}

Init ==
    /\ now = 0
    /\ io = [r \in Request |-> "idle"]
    /\ work = [r \in Request |-> "none"]
    /\ at = [r \in Request |-> [m \in Mark |-> 0]]
    /\ adding = [r \in Request |-> Sum]
    /\ current = [r \in Request |-> 0]
    /\ sums = [s \in Sum |-> 0]
    /\ completed_requests_ = 0
    /\ max_total_us_ = 0

Stamp(r, mark) == at' = [at EXCEPT ![r][mark] = now]
GoesTo(r, place) == io' = [io EXCEPT ![r] = place]
counters == <<adding, current, sums, completed_requests_, max_total_us_>>

--------------------------------------------------------------------------------
(* The life of a request.                                                    *)

BeginRequest(r) ==
    /\ io[r] = "idle"
    /\ Stamp(r, "request_ready")
    /\ GoesTo(r, "begun")
    /\ UNCHANGED <<now, work, counters>>

MarkQueued(r) ==
    /\ io[r] = "begun"
    /\ Stamp(r, "queued")
    /\ GoesTo(r, "queued")
    /\ UNCHANGED <<now, work, counters>>

\* Fault: the request may be submitted before it is marked as queued.
Faulty_Submit(r) ==
    /\ io[r] \in {"begun", "queued"} /\ work[r] = "none"
    /\ work' = [work EXCEPT ![r] = "submitted"]
    /\ UNCHANGED <<now, io, at, counters>>

Submit(r) ==
    /\ io[r] = "queued" /\ work[r] = "none"
    /\ work' = [work EXCEPT ![r] = "submitted"]
    /\ UNCHANGED <<now, io, at, counters>>

MarkWorkerStarted(r) ==
    /\ work[r] = "submitted"
    /\ Stamp(r, "worker_started")
    /\ work' = [work EXCEPT ![r] = "started"]
    /\ UNCHANGED <<now, io, counters>>

MarkWorkerFinished(r) ==
    /\ work[r] = "started"
    /\ Stamp(r, "worker_finished")
    /\ work' = [work EXCEPT ![r] = "finished"]
    /\ UNCHANGED <<now, io, counters>>

\* finishRequest, from the task that complete() has queued.
MarkReturnedToIo(r) ==
    /\ io[r] = "queued" /\ work[r] = "finished"
    /\ Stamp(r, "returned_to_io")
    /\ GoesTo(r, "returned")
    /\ UNCHANGED <<now, work, counters>>

MarkWriteStarted(r) ==
    /\ io[r] = "returned"
    /\ GoesTo(r, "writing")
    /\ UNCHANGED <<now, work, at, counters>>

\* The connection is closed before the response is written, or the response was
\* empty: complete() is not called, or returns at once.
Abandon(r) ==
    /\ io[r] \in {"queued", "returned", "writing"}
    /\ GoesTo(r, "abandoned")
    /\ UNCHANGED <<now, work, at, counters>>

--------------------------------------------------------------------------------
(* complete().                                                               *)

BeginComplete(r) ==
    /\ io[r] = "writing"
    /\ Stamp(r, "completed")
    /\ GoesTo(r, "adding")
    /\ UNCHANGED <<now, work, counters>>

\* elapsedMicros: negative spans would wrap around.
Elapsed(r, s) ==
    at[r][CASE s = "worker_queue"    -> "worker_started"
            [] s = "worker_compute"  -> "worker_finished"
            [] s = "result_return"   -> "returned_to_io"
            [] OTHER                 -> "completed"]
    - at[r][CASE s = "worker_queue"   -> "queued"
              [] s = "worker_compute" -> "worker_started"
              [] s = "result_return"  -> "worker_finished"
              [] s = "response_write" -> "returned_to_io"
              [] s = "total"          -> "request_ready"]

\* The additions are relaxed: other threads may see them in any order.
Add(r, s) ==
    /\ io[r] = "adding" /\ s \in adding[r]
    /\ sums' = [sums EXCEPT ![s] = @ + Elapsed(r, s)]
    /\ adding' = [adding EXCEPT ![r] = @ \ {s}]
    /\ UNCHANGED <<now, io, work, at, current, completed_requests_, max_total_us_>>

Count(r) ==
    /\ io[r] = "adding" /\ adding[r] = {}
    /\ completed_requests_' = completed_requests_ + 1
    /\ GoesTo(r, "loading")
    /\ UNCHANGED <<now, work, at, adding, current, sums, max_total_us_>>

LoadMax(r) ==
    /\ io[r] = "loading"
    /\ current' = [current EXCEPT ![r] = max_total_us_]
    /\ GoesTo(r, IF max_total_us_ < Elapsed(r, "total") THEN "exchanging" ELSE "done")
    /\ UNCHANGED <<now, work, at, adding, sums, completed_requests_, max_total_us_>>

\* Fault: the maximum is stored without looking again.
Faulty_ExchangeMax(r) ==
    /\ io[r] = "exchanging"
    /\ max_total_us_' = Elapsed(r, "total")
    /\ GoesTo(r, "done")
    /\ UNCHANGED <<now, work, at, adding, current, sums, completed_requests_>>

\* compare_exchange_weak: it may fail although the value has not changed.
ExchangeMax(r) ==
    /\ io[r] = "exchanging"
    /\ \/ /\ max_total_us_ = current[r]
          /\ max_total_us_' = Elapsed(r, "total")
          /\ GoesTo(r, "done")
          /\ UNCHANGED current
       \/ /\ current' = [current EXCEPT ![r] = max_total_us_]
          /\ GoesTo(r, IF max_total_us_ < Elapsed(r, "total") THEN "exchanging" ELSE "done")
          /\ UNCHANGED max_total_us_
    /\ UNCHANGED <<now, work, at, adding, sums, completed_requests_>>

Tick ==
    /\ now < MaxTime
    /\ now' = now + 1
    /\ UNCHANGED <<io, work, at, counters>>

Next ==
    \/ \E r \in Request :
          \/ BeginRequest(r) \/ MarkQueued(r) \/ Submit(r)
          \/ MarkWorkerStarted(r) \/ MarkWorkerFinished(r)
          \/ MarkReturnedToIo(r) \/ MarkWriteStarted(r) \/ Abandon(r)
          \/ BeginComplete(r) \/ Count(r) \/ LoadMax(r) \/ ExchangeMax(r)
          \/ \E s \in Sum : Add(r, s)
    \/ Tick

Spec == Init /\ [][Next]_vars

--------------------------------------------------------------------------------
(* Properties.                                                               *)

\* No span that complete() adds is negative, which would wrap to 2^64 (TcpConnection
\* marks a request as queued before the handler submits it).
SpansArePositive ==
    \A r \in Request : io[r] = "adding" => \A s \in Sum : Elapsed(r, s) >= 0

Counted == {r \in Request : io[r] = "done"}

\* When no thread is inside complete(), the counters are those of the requests
\* completed, the largest total included, however the additions and the exchanges
\* of the threads have interleaved (complete, updateMax).
TotalsAtRest ==
    (\A r \in Request : io[r] \notin {"adding", "loading", "exchanging"}) =>
        /\ completed_requests_ = Cardinality(Counted)
        /\ \A s \in Sum : sums[s] = SumFunctionOnSet([r \in Request |-> Elapsed(r, s)], Counted)
        /\ max_total_us_ = Max({Elapsed(r, "total") : r \in Counted} \cup {0})
================================================================================
