# Specifications of CppSearchServer

TLA+ models of the server in `src/src`, the configurations with which TLC checks them on small
instances, and theorems that TLAPS proves for every value of the constants. Paths below are
relative to `src/` of the repository unless they begin with `tla/`; `EventLoop.cpp:93` stands for
`src/net/EventLoop.cpp`, line 93. `PROJECT.json` gives the source lines behind every definition.

1. [The system](#1-the-system)
2. [Modules](#2-modules)
3. [Runs](#3-runs)
4. [Fairness](#4-fairness)
5. [Proofs](#5-proofs)
6. [Where code and documents disagree](#6-where-code-and-documents-disagree)
7. [Not modelled](#7-not-modelled)
8. [Plan](#8-plan)

## 1. The system

One process answers `GET /search` over HTTP with passages of Markdown documents. It reads and
indexes the documents once, when it starts; from then on nothing that is searched changes. The
main thread accepts connections on an `EventLoop` of its own and hands each to one of several I/O
loops, every one in a thread of its own; a connection lives on its I/O loop, hands each request to
a `WorkerPool`, and gets the response back through the task queue of the loop. Results are cached
per worker thread (L1) and in Redis (L2).

| part | state | operations | talks to | makes it correct |
|---|---|---|---|---|
| `EventLoop`, `Epoller` | `quit_`, `pending_tasks_` under a mutex, the eventfd, the registered channels, the batch being dispatched | `loop`, `queueInLoop`, `quit`, `addChannel`, `removeChannel`, `runAt`; inside: `dispatch`, `handleWakeup` | calls channels, tasks, timers back; is called by any thread through `queueInLoop`, `quit` | no wakeup is lost; tasks run once and in order; `quit` ends the loop; events of removed channels are skipped |
| `TimerQueue` | a heap of (time, callback) | `addTimer`, `millisecondsUntilNextTimer`, `runExpiredTimers` | used by its loop alone | a timeout that is rounded and counted late still wakes the loop in time for the next timer, and not before it; every timer runs |
| `Channel` | interest, the last events, callbacks | `enableWriting`, `disableWriting`, `remove`, `handleEvent` | between loop and connection | a callback may close the connection whose next callback is still due |
| `TcpConnection`, `Buffer` | the descriptor, both buffers, `processing_request_`, `response_ready_`, `close_after_response_`, `peer_closed_`, three generation and time stamps | `establish`, `handleRead`, `handleWrite`, `finishRequest`, `closeIfIdle`, `close` | the request handler, whose result comes back from another thread | responses in request order, each whole and once; EPOLLOUT asked for exactly while output is left; a half-closed peer is answered; idle ones are closed, busy ones never |
| `WorkerPool` | the queue, `stopping_`, the threads | `submit`, `workerLoop`, the destructor | runs what connections submit | every accepted task is taken, in order; the destructor returns, and only when the queue is empty |
| `EventLoopThread`, `EventLoopGroup` | the published `loop_`, `next_index_` | `startLoop`, `threadMain`, the destructor, `start`, `nextLoop` | main thread and I/O threads, over a mutex and a condition variable | the published address is that of a live loop |
| `main.cpp` | the locals of `serveWithEventLoop`, whose order is the order of destruction | accept callback, error callback, leaving the scope | all of the above | no result for a dead loop; no event for the wrong connection; leaving the scope ends |
| `LruCache` | a list of keys and a map with iterators into it | `get`, `put` | L1 of one worker thread | list and map agree; the right key is evicted |
| `SearchCache`, `RedisClient` | the L1 and a hiredis context per thread; the Redis server | `get`, `put`, `setEx`, connect and disconnect | several processes may share a Redis | age of an answer is bounded from when it was stored; a failed Redis never fails a request |
| `DocumentLoader`, `MarkdownChunker` | the next chunk's id; the heading stack and the text not yet flushed | `loadDocuments`, `chunkMarkdown` | feed the index, before the server listens | no character of the text is lost or moved; every chunk has the path of its headings; ids are unique over all documents |
| `Tokenizer`, `InvertedIndex`, `SearchService` | the postings, read-only after the start | `analyzeTerms`, `addChunk`, `findTerm`, `search` | read by all workers | postings say what the chunks say; a search gives what a scan of the chunks would, in the right order |
| `HttpRequest`, `HttpResponse`, `SearchApplication`, the request handler of `main.cpp` | none: functions of the request | `parseRequest`, `handleRequest`, the responses | called by workers with what the connection cut from its input | requests are cut at their blank lines; the answer is about the query that was written; the Connection header tells what the connection does |
| `RequestLatency` | a time stamp record per request, atomic counters | six marks, `complete`, `snapshotJson` | stamped by I/O threads and workers | spans are not negative; totals are right under any interleaving |
| `Socket` | none | thin wrappers of socket calls | | see section 7 |

**What is hard.** Almost everything that can go wrong is between threads or between callbacks:

* The eventfd protocol: push and write in one thread, read and swap in another, `epoll_wait` in
  between, with a counter that saturates and a write that is then refused.
* Callbacks that run inside the loop and change what the loop is iterating over: channels removed
  in the middle of a batch, descriptors closed and given out again before the batch is done, the
  write callback after a read callback that has closed the connection.
* Results that come late, twice, or for a connection that has gone; pipelined requests; a FIN
  among them; partial writes; resets.
* A lazy idle timer that is not moved by activity but looks at a generation when it fires.
* The destructors: a pool that must drain, a join that must not meet a sleeper, and an order of
  destruction that depends on the order of declaration.
* Ids, frequencies and scores that are computed in passes over documents, chunks and hash maps,
  where an error in one pass shows as a wrong order or a missing result in another.
* A request language read byte by byte from a stream that is divided anywhere.
* Two caches with lifetimes of their own, and a Redis that forgets, fails, or does late what a
  client gave up on.

`PROJECT.json`, `hazards`, lists these at their lines with the properties that cover them, and
says for the others why no property does.

## 2. Modules

```
TaskQueue <──implements─── EventLoop                        EventLoopProofs
RequestResponse <──implements── TcpConnection               TcpConnectionProofs
                           WorkerPool                       WorkerPoolProofs
                           Server ─────── MCServer          ServerProofs   (composes loops, pool,
             LruCache ──── SearchCache ── MCSearchCache     SearchCacheProofs      connections)
MarkdownChunker, Tokenizer ── SearchIndex ── MCSearchIndex  SearchIndexProofs
             HttpRequest ── HttpExchange ── MCHttpExchange  HttpExchangeProofs
                           RequestLatency                   RequestLatencyProofs
```

The `MC` modules add the symmetry sets of the runs that check safety only, and the texts and byte
streams of the runs on documents and on HTTP; the other runs are on
the component's module itself, whose constants the configuration gives. A definition whose name
begins with `Faulty_` is a variant with a mistake that one could make in the code, with which the
checks are tried: each property is violated by one of them (`mutants` in `PROJECT.json`).

### TaskQueue, EventLoop

`TaskQueue` is what a user of a loop sees: `Submit` appends a task, `Run` starts the oldest, and a
task that was submitted is run unless the loop stops. `EventLoop` is the code. `queueInLoop` is
two steps, `PushTask` under the mutex and `Wakeup`, the eventfd write that comes after the unlock;
`quit` is `StoreQuit` and `Wakeup`. The loop thread goes through `pc`:

| `pc` | code | actions |
|---|---|---|
| `check` | `while (!quit_)`, the clock read and the timeout computed from the timers | `Exit`, `ComputeTimeout` |
| `enter` | the timeout handed to `epoll_wait`, which counts it from when it is entered | `StartWait` |
| `wait` | `epoll_wait` | `WaitReturns`, `WaitInterrupted` |
| `dispatch` | the `for` over the events | `SkipStaleEvent`, `CallChannel`, `ReadWakeup`, `EndDispatch` |
| `swap`, `run` | `handleWakeup` after the eventfd read | `SwapTasks`, `RunTask`, `EndTasks` |
| `timers` | `runExpiredTimers(now)` | `RunTimer`, `EndTimers` |

While `calling` is true the thread is inside a callback, which may use every operation of the
loop, in any number, before it returns (`Return`). That is more than the callbacks of this program
do, so what holds here holds for them. `epoll_wait` gives any batch of reported descriptors, in
any order, as many as fit into `MaxEvents`. `MaxCounter` is 2^64-2 in Linux; a small value makes
the saturated eventfd a normal case.

The clock counts ticks, `TicksPerMs` of which are a millisecond. `millisecondsUntilNextTimer` rounds
the distance of the next timer up to milliseconds and cuts it to `MaxTimeout` (`INT_MAX` in the
code), from the time read in `ComputeTimeout`; up to `MaxDelay` ticks later `epoll_wait` begins to
count. So a wait may end after the timer it was meant for, and with a cut timeout before it.

### RequestResponse, TcpConnection

`RequestResponse` is the protocol a client sees: requests are taken one at a time, and the next
one only after the response to the last has been sent. `TcpConnection` is a connection together
with the iteration of the loop that drives it, the socket, the client and the workers.

* Input is an amount (`ReqLen` units make a request, as `\r\n\r\n` ends one in the code). Output
  is a sequence of numbered units, so that a missing, repeated or misplaced piece is visible in
  `Wire`, what was sent and what is still buffered.
* `handleWrite` has four ways out: everything was sent, a part was (`EAGAIN`), `send` failed, or
  there was nothing to send on a dead channel. Each is a disjunct with the whole effect of the
  function, the pipelined request it starts and the close it may end in included.
* `Channel::handleEvent` is `handling`, the callbacks still to be made: on `EPOLLERR` only the
  error callback, else read, then write, even if the connection was closed by the first.
* The idle timer: `markActivity` only sets a time and increments `idle_gen`; the one check in
  `timers` compares the generation it was made with when it fires.
* A handler completes once, or once more when its first answer threw after it was queued
  (`main.cpp:125`). A connection that has gone may swallow the result (`weak_ptr`).
* `fate` records outcomes that end the process: an exception out of a callback (`terminated`), and
  `SIGPIPE`, since `send` is called without `MSG_NOSIGNAL` and nothing ignores the signal.

The pending tasks of the loop are the FIFO that `EventLoop` is proved to implement.

### WorkerPool

One step for each critical section of the mutex: `submit` is the push and then `notify_one` after
the unlock; a worker tests the predicate, sleeps, is woken by a notification or for no reason, and
tests again; the destructor sets `stopping_`, notifies all, and joins the workers in turn. Several
submitters, several workers.

### Server

The composition in `serveWithEventLoop`: threads are started and publish their loops, the main
thread accepts and hands descriptors round robin to the loops, connections submit to the pool,
workers post results to the loops, and on an error of the listening socket the scope is left:
`~WorkerPool` (stop, drain, join), then `~EventLoopThread` for each loop (`quit`, join). Loops and
connections are coarser than in their own modules: a wakeup is a member of the batch, a connection
has a count of requests instead of bytes, and sockets are always writable. Events carry the
connection for which they were reported, so that one delivered to another connection on a reused
descriptor shows. Leaving the scope while connections are open may end in an exception on an I/O
thread that submits to the stopping pool, or in a call to the destroyed pool: `fate` records it
(`Submit`).

### LruCache, SearchCache

`LruCache` has `get` and `put` as operators on the value of a cache, since each holds the mutex
from start to end. `SearchCache` is `handleRequest` around them on the worker threads of several
processes that share one Redis: L1, then L2, then the search, then L1 and L2. A GET is two steps:
Redis answers (`RedisGet`), and the worker has the reply and puts it in its L1 with the time it is
then (`RedisReply`); the entry may have expired in between. `RoundTrip` bounds that time. In the
code `redis_timeout` does, for a reply that comes in one piece: hiredis takes the timeout for each
read of the socket. A Redis command
succeeds, fails, or is given up while it is still on its way (`late`). Redis may lose all it has;
a process may be restarted in any mode, and on other documents than before. A result is the query,
the version of the documents and the time it was written, which is when Redis stored it or, if it
never was in Redis, when it was computed. `put` of the L1 here only follows a miss, so that
the branch that overwrites a key that is present never runs; the operator has it nonetheless, and
the lemmas of `SearchCacheProofs` are about any cache.

### MarkdownChunker, Tokenizer, SearchIndex

`SearchIndex` is the constructor of `SearchApplication` and the search it makes possible. `stage`
says where the constructor is: `OpenDocument`, `ReadLine` and `KeepChunks` are `loadDocuments`,
`IndexChunk` is one call of `addChunk`. The next document is any document, since a directory
gives its entries in any order.

`MarkdownChunker` is `chunkMarkdown` line by line: a line is text, or a heading of a level with or
without a name, which the number of the line stands for; the state is the heading stack, the
characters collected and the chunks flushed. `content` is what the document's lines of text say, each
with its newline, and a body or a chunk consists of places in `content`: which characters are lost,
moved or brought together can be read off the places. One character, a blank, stands for all white
space. `Trim` takes it from both ends of a body, and `FlushCurrent` does so before it looks whether
there is a heading, as the code does, so that the text before the first heading loses its last
newline and the text after the heading goes on where it ends (section 6). `Tokenizer` folds over the characters of a text
as the loop of `tokenize` does, with a few characters for each class: letters of both cases, `+`, the
blank, and `-` for every other separator.

`Search` is `SearchService::search`. A score is a fixed-point number and sums are exact, so that
what depends on the rounding of `double` is not in the model. The logarithms are a constant,
`LnTable`, of which the module assumes only that it increases; the run gives it three decimals.
`Sorted` is the result of `std::sort`, of which `partial_sort` gives the beginning: results in the
order of `ranksHigher`, of which there is only one, since no two results have the same id.
Properties compare the search with a definition that uses neither tokens nor index: the words of a
text are its longest runs of token characters, and the text of every chunk is scanned for them. What
the chunks' text is, compared with the document's, is `NothingLost`.

### HttpRequest, HttpExchange

`HttpRequest` has `parseRequest`, `parseQueryString`, `urlDecode` and the questions asked of their
result as operators on sequences of bytes; one letter stands for each name the code compares (`G`
for `GET`). `HttpExchange` is the connection seen from its client: the bytes of a stream arrive in
portions of any size (`HandleRead`), the parts up to a blank line are handed to the request
handler one at a time, and `Answer` is `finishRequest` with a socket that takes everything. An
answer is its status, what its Connection header says, the flag `close_after_response` and the
beginning of the body that repeats the query. Writing in pieces and results that come late are
`TcpConnection`'s subject, where in turn a request is only an amount.

### RequestLatency

Every mark and every atomic operation of `complete()` is a step. The additions are relaxed and may
take effect in any order; `updateMax` is a load and a `compare_exchange_weak`, which may fail
although nothing has changed.

## 3. Runs

`tlc -config <run>.cfg <module>` in `tla/`. Deadlock is not checked anywhere: a loop that quit, a
closed connection, a destroyed pool and a clock at its bound really stop. What must not stop is
stated as a liveness property instead.

| run | module, bounds | properties | shows |
|---|---|---|---|
| `loop` | EventLoop: 2 threads, the loop thread one of them, 2 tasks, a channel, a timer up to 3, 2 ticks in a millisecond, timeouts up to 1 ms, delay up to 1 tick, eventfd up to 1, clock to 5 | `NoLostWakeup` `QuitInterruptsWait` `TimeoutServesTimers` `TaskQueueSpec` `QuitEnds` `TimersRun` | push, write, read and swap against callbacks, events and timers: nothing stays behind, the loop implements `TaskQueue` with its liveness, `quit` ends it, every timer runs, and no timeout makes the loop spin or sleep on |
| `connection` | TcpConnection: requests and responses of 2 units, 5 units of input, no clock | `ResponsesInOrder` `WriteInterest` `NeverTerminated` `HalfCloseAnswered` `OneRequestAtATime` `RequestsAnswered` | pipelining, partial writes, late and repeated results, FIN and RST at any time |
| `idle` | TcpConnection: idle timeout 2, clock to 6, 2 units of input (one request), responses of 1 | `OneIdleCheck` `IdleCloseIsDue` `IdleCloseMissesNothing` `IdleCloses` | the idle check against reads, writes and slow workers, over three timeouts |
| `pool` | WorkerPool: 2 workers, 2 submitters, 3 tasks | `EnoughAwake` `TakenInOrder` `DrainedAtDestruction` `TasksRun` `DestructionEnds` | submitters and the destructor against sleeping, woken and spuriously woken workers |
| `server` | MCServer: 2 loops, 1 worker, 2 connections, 2 descriptors, 1 request each | `PublishedIsAlive` `ResultsReachLiveLoops` | start, service and every way out of the scope |
| `reuse` | MCServer: 1 loop, 2 connections, 1 descriptor | `EventsReachTheirConnection` `AcceptedIsEstablished` `ShutdownEnds` | two connections in turn on one descriptor, within one batch as well |
| `cache` | MCSearchCache: 1 process, 1 worker, 3 queries, an L1 of 2, both lifetimes 2, round trip up to 1, clock to 5, all modes, 1 late command | `ListMatchesMap` `StaleBound` `EvictsLeastRecent` | hits, expiry, eviction, a Redis that answers, fails, forgets or stores late, restarts |
| `stale_key` | MCSearchCache: 1 process, 1 worker, 1 query, 2 versions of the documents, all lifetimes 1, clock to 3 | `AnswersAreCurrent` is **violated** | section 6 |
| `index` | MCSearchIndex: 2 documents with 5 lines in all, 4 texts, one of them blank, 3 levels of heading, 6 queries, results up to 2 | `NothingLost` `PathsAreAncestors` `IdsArePlaces` `PostingsAreExact` `SearchMatchesScan` `RankIsMonotone` | every such set of documents, read, numbered, indexed and searched |
| `http` | MCHttpExchange: searches with up to 4 tokens of query, requests with up to 3 of header, pairs of requests with the beginning of a third | `RequestsAreFramed` `CloseIsAnnounced` `AnswersNameTheQuery` | streams divided anywhere and ended by a FIN at any byte |
| `headings` | MCSearchIndex: 1 document of 3 lines, 3 levels of heading | `NewHeadingDiscardsOld` is **violated** | section 6 |
| `latency` | RequestLatency: 2 requests, clock to 2 | `SpansArePositive` `TotalsAtRest` | two requests in every interleaving of their four threads |

**Why the bounds are enough.** Two tasks are one taken by the loop and one pushed meanwhile, by the
other thread or by a callback; an eventfd limit of 1 saturates with the second writer. A second
posting thread and a third task add interleavings of the same pushes and double the states; the
safety of the hand-off is proved for any number of either. Five units of input are two pipelined
requests and half of a third; two units of response allow a write that stops in the middle. Between
an activity right after a check and the last check that may find it lie two idle timeouts; a third
lets a connection be busy or active first, so that the close which `IdleCloses` asks for comes from
a check that was re-armed, from an idle or from a busy connection. With 2 ticks in a millisecond,
timeouts up to one and a timer up to 3, rounding, the cut and a timer that is due at once all occur,
and a delay of one tick moves a wait past its timer. Two workers and two submitters suffice for a notification that goes to a worker whose
task another has taken. An L1 of two with three queries is the smallest that evicts and has an
order to get wrong. With lifetimes of two and a clock to 5 a value is read from Redis in the last
tick of its life there, arrives after it, and is answered from the L1 in the last tick of its life
there. A heading stack of three levels and five lines lets a level be left, skipped
and entered again. Two requests are enough for one exchange to fail because of another. What a bound could hide is
covered, for the properties of section 5, by proofs that have no bounds.

Five lines in two documents let both have chunks, one of them a document without headings, or text
before its first heading and after it, and let
a term be in some chunks, in all, and twice in one; texts begin and end with characters of which the
joined text makes another word; six queries repeat a term, join terms with
separators, ask for a word that only two joined texts make, and consist of stop words or of nothing; with two results at most, lists are cut,
filled exactly and not filled. The tokens of `http` include an escape that ends early and may be
completed by the next, an escaped name, a backslash and a line feed as values, parameters that
are empty, repeated or without a value, and headers that are repeated, have blanks or have no colon.

`loop` sets `PastTimers` to `FALSE`: a callback that always set a timer already due would keep
`runExpiredTimers` busy for ever. No callback of the program does; `scheduleIdleCheck` is always
given a future time. In `connection` the clock stands still, because requests and idling are
independent apart from what `idle` checks.

**What the properties mean.** Each is stated in words above its definition. Those that took the
most care to get right: `IdleCloseIsDue` relates the close to the last time the connection was
busy, not to the time stamp the code keeps; `IdleCloseMissesNothing` says that the loop's order,
events before timers, protects data that arrived in time; `RequestsAnswered` covers the requests
that come with, before or after a FIN; `EnoughAwake` counts notifications, sleepers and tasks;
`EventsReachTheirConnection` holds because a connection is registered by a task: while an event of
the old connection is still due, the descriptor can only have been freed by a task of this batch,
and a task posted after that runs in a later one; `StaleBound` adds the two lifetimes and the round trip, since a value that Redis drops while it is
on its way gets a full life in the L1; `TimeoutServesTimers` is about the instant at which a wait
ends, which is neither the one it was computed for nor computed from; `NothingLost` lets a character
follow another in a chunk only if it does in the document, newlines included, and names the one
place where that fails;
`AnswersNameTheQuery` says what an escape and a parameter are by places in the string, and reads
the JSON back, so that an error in decoding, in splitting or in escaping shows; `RankIsMonotone`
says of the two logarithms only what a user may rely on, that more of every term is never less.

## 4. Fairness

* `EventLoop`: weak fairness of the loop's own steps and of an eventfd write that was begun (the
  threads are scheduled), of the clock, and strong fairness of `Return`: a callback returns
  however often it used the loop before. `WaitInterrupted` is not fair: nothing relies on signals.
* `TcpConnection`: weak fairness of the loop, of the workers (a search ends), of the clock and of
  the client's reading. The client need not send, shut down or reset. Without a reading client
  `RequestsAnswered` is false, and the code has no write timeout, so this is an assumption about
  clients that the property depends on.
* `WorkerPool`: weak fairness of each worker, of notifications that are due and of the destructor;
  submitters need not submit. Wakeups for no reason are not fair.
* `Server`: weak fairness of the main thread's steps, of each I/O thread and of each worker. The
  clients, the error of the listening socket, the idle close and accepting are not fair.
* The other modules state only safety. `SearchIndex` and `HttpExchange` are what a constructor and
  one client do; whether they are scheduled is the other modules' question.

## 5. Proofs

`tlapm <module>` in `tla/`. All theorems hold for any constants that satisfy the assumption in the
component's module, which states no more than the code guarantees (positive sizes, a finite set
where the code has a finite one).

**EventLoopProofs.** `IInv` is `TypeOK`, `BatchScope`, `NoLostWakeup`, `QuitInterruptsWait`,
`TimerInv` and `FifoOnce`; each is proved to be kept with the help of those before it.
`BatchScope` is the strengthening: a batch and taken tasks exist only in the phases that consume
them, without which `FifoOnce` would not survive `SwapTasks`. From it: `TypeCorrect` (no run spends
a property on types: they are proved, for the connection, the pool, the caches, the server and the
exchange as well),
`WakeupsAreNotLost`, `QuitWakesTheLoop`, `HandoffIsFifo`, `TimeoutsServeTimers`, and
`ImplementsTaskQueue`: the initial state maps to that of `TaskQueue` and every step to a step or a
stutter, the queue being the taken and the pending tasks together. `HandoffIsFifo` states
`FifoOnce`, which no run lists because `TaskQueueSpec` has it in it. `TimerInv` follows the timeout
from the clock read, where it is right for the timers and the time seen, over `StartWait`, where the
deadline is computed from it and a later time (`EnterStep`), to the end of the batch, whose callbacks
can only add timers; `TimeoutServesTimers` is what is left of it. The theorem has no bound on
the delay but `MaxDelay`, by which a wait may be longer, and holds for any rounding unit and cut.

**WorkerPoolProofs.** The invariant adds to the properties `OwnerStops` (where the destructor is
decides `stopping_`), `ExitedLeavesNothing` (a worker leaves only a stopping pool with an empty
queue), `NoneAsleepAtJoin` and `RunningIsStarted`. `JoinFindsNoSleeper` is the reason that `join`
cannot block for ever: after `notify_all` no worker sleeps, and the predicate is true for good, so
that none goes to sleep again.

**TcpConnectionProofs.** `ConnInv` adds `LoopScope` (handlers do not nest), `OutPending` (a
reported EPOLLOUT still finds output when its callback comes, which is what keeps `disableWriting`
off a removed channel: `NeverTerminated`) and `Bookkeeping` (how `open`, `peer_closed` and
`processing` relate). `ResponsesStayInOrder` adds that results accepted belong to the request
being processed, and that every write moves units from the front of the output to the end of what
was sent. `IdleCloseIsJustified` is an action property; `IdleInv` supports it: an idle connection
was last busy no later than `last_activity`, and a check with the present generation is due no
earlier than `last_activity` plus the timeout. `IdleCloseReadsFirst` rests on `InputReported`: in an
iteration the input of an open connection came after `epoll_wait` returned, or its event is still to
be handled, and no event is when the timers run. `ImplementsRequestResponse` shows every step of the
connection to be one of `RequestResponse` or a stutter. What answers is the write that empties the
buffer, and for that to be the end of one response `OneResponseBuffered` is needed: the buffer is a
rest of the response accepted last. With `ResponsesInOrder` it gives the number of the last response
completed from the two buffers (`LastInIs`).

**SearchCacheProofs.** Lemmas about the operators of `LruCache`: erasing, splicing and popping
keep a list without repetition and change its set of keys by exactly one; `get` and `put` keep
list and map in agreement, and change no entry but that of their key. The invariant is that every
L1 is `Good`: of its type, consistent, and with no entry that outlives its result by more than
both lifetimes and a round trip. For that Redis may have nothing that has expired, and a reply on
its way was live when Redis gave it, no longer ago than a round trip (`RepliesTimely`).
`StalenessIsBounded` holds for any number of processes, any lifetimes and any round trip; age is
counted from when Redis stored a value, so a SET that comes late starts it anew. `EvictionIsLeastRecent` adds that every list follows the order of use
(`ListsFollowUse`): splice and push_front move a key to the front of both, erase and pop_back take
one out of the list only, so that the last of the list is the first to have been used.

**ServerProofs.** The invariants of the composition, for any number of loops, workers, connections
and descriptors. `IInv` is `TypeOK` and, in this order, `Bounds` (no more loops or requests than
the constants allow), `LoopInv` (a loop is published exactly while its thread is between
construction and the end of `loop()`), `PhaseInv` (what the main thread's progress implies for
every thread: loops run until they are told to quit, and that happens only when all workers have
left), `HomeInv` (jobs, tasks and connections belong to the loop chosen at accept), `FdInv` (no
two connections have one descriptor), `TaskInv` (at most one establish task for a connection, and
only before it is open), `WakeupInv` and `BatchInv`. `LoopInv` gives `PublishedLoops`. `PhaseInv`
and `HomeInv` give `WorkersEndFirst`: a worker with a result is one that has not left, so the pool
is not destroyed and no loop has been told to quit; this is where the order of the locals in
`serveWithEventLoop` matters. `BatchInv` gives `EventsFindTheirConnection`, and is the argument of
section 3 made inductive: the connection for which an event was reported is open, or it was closed
by a task of this very batch (`Stale`), and then none of the tasks that may still run in the batch
gives the descriptor to another one, because those were taken before it was free.

**SearchIndexProofs.** `IdsAreUnique` and `IndexIsExact`, for documents of any number, length and
text, in any order: these proofs never look into `AnalyzeTerms`. `IInv` is the two properties with
what sequences need to be sequences, and that a document's own chunks exist only while it is read
and the index is filled only after the last document.

`NoTextIsLost` (`TextInv`) says that the pieces in hand are *told* in order (`Told`): they have only
places of the document's text, all that are not blank, each once, increasing from piece to piece, and
without gaps but those with the first heading between the two sides. That the body goes on where it
ends (`BodyGoesOn`) is what a further line of text needs: either its last place is the last of the
text, or the first heading stands behind it and the next line will be after it. `Trim` takes
away only blanks at the ends (`ToldTrimmed`), and a flush moves the body to the chunks or leaves it
(`ToldFlushed`). `TextIsCitedRight`, for well nested documents, (`PathInv`) needs what is between the chunks as well: the heading stack is increasing, is as deep
as its last level says, and holds the ancestors of the next line, and every piece already collected
is cited right whatever comes after it, because what stands above a line is decided by the lines
before it (`Extends`). `joinHeadings` is a fold, and what a fold gives is proved for every length
(`FoldsExist`, `JoinsTo`).

`SearchIsAFullScan` and `MoreMatchesRankHigher` are about the answer to any query over any
documents. `CharInv` adds to the invariants that the chunks' text consists of characters, and that
the server serves only with all chunks indexed. The argument has four parts.

* *Tokens.* After each character the tokens are the longest runs of token characters that have
  ended (`LexedTo`), numbered without repetition, and the current token is what follows the last
  separator. So the terms of a text are its runs that are no stop words (`TermsAre`), and a term is
  among them as often as it has places in the text (`CountIs`).
* *Postings.* A term has one posting for each chunk it is in, with that count, so the length of
  its list is the document frequency (`PostingsAre`, from `IndexIsExact` and the order of the ids).
* *Scores.* The postings with one chunk's id correspond to the query's terms in the chunk
  (`MatchesAre`, `ResultIs`), and a sum moved along a bijection keeps its value (`SumMoved`).
* *Order.* `ranksHigher` is a strict total order of results whose ids differ (`RanksOrder`), so a
  sorted list exists and what is at place `n` has `n - 1` above it (`SortedExists`,
  `SortedPlace`). More occurrences have a larger weight because a document frequency is at most the
  number of chunks, so that idf is positive (`WeightIs`), and a sum of more and larger positive
  weights is larger (`SumGrows`).

**HttpExchangeProofs.** `HeadersAreKept`, for any bytes in any portions, without a look into the
parser: `AnnouncedIsDone` says that on every way through the handler header and flag are the
same, and `IInv` that an open connection has announced nothing yet and has at most one request
without an answer. `RequestsAreCutRight` is `RequestsAreFramed`, whose parts are
theorems of their own. `FrameInv` gives the types, `RequestsEndAtBlankLines` and
`NoRequestIsForgotten`. These do look into the search for the blank line: what is cut off ends at
the first one of the buffer, and that is the first one of the request as well, because a blank line
begins at a place of the one exactly if it does in the other (`CutIs`). That nothing is skipped is
an equation between the requests, flattened, and the stream: a request moves from the front of the
buffer to the end of the requests (`ProcessSkipsNothing`), and flattening a longer list is
flattening and appending (`FlattenAppend`).

`QueriesAreNamed` is `AnswersNameTheQuery`, for any bytes: what the parser does by cursors and
tables is compared with what its input means, in five parts.

* *Decoding.* `EscapesAreDecoded`: `urlDecode` gives the `Meaning` of every text whose escapes are
  complete, and nothing for any other. From the last place to the first, the table of decoded ends
  holds the meaning of the rest (`DecodedFrom`); the n-th byte of the meaning is at the place of
  rank n among those that are in no escape (`RanksFit`).
* *JSON.* `JsonIsReadBack`: a reader gets back whatever `escapeJson` was given. The pieces written
  for the bytes have their places in the string (`FlattenLaid`), and from the last to the first
  each is read as its byte.
* *Splitting.* `SplitIs`: the pieces are what lies between the separators (`Cut`), proved from the
  last cursor to the first, so that the items of a query are exactly its parameters, and those
  without a name (`ItemParamsAre`).
* *Parsing.* A search with well-formed headers is parsed, and its query string is the one that
  `QueryString` reads off the request (`SearchIsParsed`). Of every name the first value is kept,
  and one malformed escape refuses the whole query (`QueryIsParsed`): the loop over the items
  is a fold, whose table says after each item what the map holds (`Holds`).
* *Answers.* `AnswerInv`: the requests end with a line end, without which the last line would be
  none, and the n-th answer is one the handler can give to the n-th request. With
  `AnswerNames`, the property for one request and one answer, that is the theorem.

**RequestLatencyProofs.** The marks of a request are in order as far as its two threads have come,
because a worker has it only after it was marked as queued (`SpansNeverWrap`). `TotalsAreExact`: a
total is the sum of the spans that have been added to it, in any order, and a maximum is at least
every span whose update has ended, since a `compare_exchange` that fails loads again and one that
succeeds has seen the value it replaces; when no request is being completed that is every span.

**Induction.** What a sum, a fold, a flattened sequence or a recursive function is for data of any
size is proved by the least counterexample: the numbers for which the claim fails are a set,
`MinIs` (from `WellFoundedInduction`) gives its least element, and the step contradicts it. The
library's induction rules, which take the claim as an operator, are not used.

**Only model-checked.** Everything under fairness (`TaskQueue`'s liveness, `QuitEnds`,
`TimersRun`, `RequestsAnswered`, `IdleCloses`, `TasksRun`, `DestructionEnds`,
`AcceptedIsEstablished`, `ShutdownEnds`) is out of the prover's reach. Of the safety and action
properties every one that a run checks has a proof.

## 6. Where code and documents disagree

* **The cache key does not know the documents** (`stale_key`). `makeSearchCacheKey`
  (`SearchApplication.cpp:17`) always writes `v1`; day 29 of the learning log says that this is
  enough to identify the version of the index, because it is built only at start. It is built anew
  at the next start, while Redis keeps what the process before has put there: a restarted server
  answers from replaced documents for up to `redis_ttl`, the round trip of a GET and `local_ttl`
  after Redis stored the answer (`StaleBound`). A SET that Redis carries out late, when its client
  has given up on it, starts that time anew with an old answer.
* **Skipped heading levels** (`headings`). The heading stack is cut to `level - 1` *entries*
  (`MarkdownChunker.cpp:101`). That is the level only if no level is missing: after `## B` without
  a `#` above it, `## C` is put on top of `B`, and its text is cited under `B > C`. The test and
  day 6 of the log say that a new heading discards the old one of its level. In documents without
  such gaps the paths are right (`PathsAreAncestors`).

The following were met while modelling and have no run of their own:

* **Text before the first heading is joined to what follows.** `flushCurrent` trims the collected
  text before it returns because there is no heading yet (`MarkdownChunker.cpp:76-78`). The text
  stays, without its last newline, and the next line of text is appended to it (line 95): the document
  `intro`, `# T`, `body` becomes one chunk with the text `introbody`, under the heading `T`, and
  neither word finds it. `NothingLost` names this place, and `SearchMatchesScan` compares with a scan of
  the chunks' text, where the words are joined already. No document or test says what becomes of
  such text.
* **A refused request does not close.** A request that is malformed, or whose method is not GET, is
  answered with keep-alive even if it has `Connection: close` (`SearchApplication.cpp:115`), though
  the header is a property of the request whose response, once sent, is followed by the close
  (`docs/02_核心实现/网络与并发实现.md:22`). `CloseIsAnnounced` holds: the answer says that the connection stays open.
* **A body is the next request.** Input is cut at blank lines alone (`TcpConnection.cpp:267`), so
  the body of a POST, which is refused, is read as the beginning of the next request. The documents
  promise only GET.
* **What is decoded.** The log of day 9 describes the decoding of the query parameter; paths are
  never decoded, and a query item without `=` is skipped without being checked
  (`HttpRequest.cpp:62`), so that `?q=a&%zz` is answered while `?q=a&%zz=` is refused.
* **Headers** that differ in case only are both kept, and which one `findHeader` meets first is up
  to the hash map (`HttpRequest.cpp:169`); blanks after `close` are part of the value, which then
  is not `close`.

## 7. Not modelled

* `Socket`: start-up wrappers. The command line of `main.cpp`, and the older blocking server
  (`extractPath`, `route`, `writeAll`, `handleClient`, `serveForever`), which `main` no longer calls.
* The JSON of the results: fields, `makeSnippet` (which may cut a UTF-8 character in two), and
  the text of statuses and headers in a response.
* System calls that fail for lack of resources at start, where the process ends with an exception.
* Within modelled parts: the rounding of scores, the hit and miss counters of the caches, and `snapshotJson`, which reads
  counters one by one and promises no consistency.
* Busy waiting: an accept loop without descriptors, and a half-closed peer whose request is still
  computed, make level-triggered loops spin. Neither changes any state.

## 8. Plan

In this order:

1. *Done*: `EventLoop` with `TaskQueue`, `TcpConnection` with `RequestResponse`, `WorkerPool`,
   then `Server`, which composes them; `SearchCache` over `LruCache`; `RequestLatency`;
   `SearchIndex` over `MarkdownChunker` and `Tokenizer`; `HttpExchange` over `HttpRequest`; their
   runs and the proofs of section 5.
2. Two processes with documents read in different orders over one Redis, which would join
   `SearchIndex` and `SearchCache`.
