-------------------------- MODULE TcpConnectionProofs --------------------------
(* Proofs about TcpConnection.tla, for any sizes of requests and responses,  *)
(* any idle timeout and any amount of input: the safety invariants of a      *)
(* connection, the order of its responses, the idle close, and that it       *)
(* implements RequestResponse.tla.                                           *)
EXTENDS TcpConnection, SequenceTheorems, TLAPS

\* The phases of an iteration leave nothing behind, and handlers do not nest.
LoopScope ==
    /\ pc # "dispatch" => batch = {} /\ handling = {} /\ tasks = <<>>
    /\ handling # {} => tasks = <<>> /\ "conn" \notin batch
    /\ "IN" \in handling => open

\* An EPOLLOUT reported in this iteration still has output to write when its
\* callback comes: nothing that runs in between drains the buffer.
OutPending ==
    /\ "OUT" \in handling => output # <<>>
    /\ open /\ "conn" \in batch /\ "OUT" \in revents => output # <<>>

\* How open, peer_closed and processing relate to the history.
Bookkeeping ==
    /\ open <=> reason = "none"
    /\ peer_closed => fin /\ recvq = 0
    /\ processing => generation > 0

ConnInv ==
    /\ TypeOK
    /\ LoopScope
    /\ OutPending
    /\ WriteInterest
    /\ Bookkeeping
    /\ HalfCloseAnswered
    /\ NeverTerminated
    /\ OneIdleCheck

--------------------------------------------------------------------------------
(* Types.                                                                    *)

\* A function on 1..n is a sequence.
LEMMA FunctionIsSeq ==
    ASSUME NEW S, NEW n \in Nat, NEW f \in [1..n -> S]
    PROVE  f \in Seq(S)
BY SeqDef

\* A response is a sequence of units, and not an empty one.
LEMMA ResponseType ==
    ASSUME NEW id \in Nat
    PROVE  Response(id) \in Seq(Unit) /\ Len(Response(id)) = RespLen /\ Response(id) # <<>>
<1>1. RespLen \in Nat /\ RespLen > 0
  BY TcpAssumption DEF TcpAssumption
<1>2. \A n \in 1..RespLen : [req |-> id, at |-> n] \in Unit
  BY DEF Unit
<1>3. Response(id) \in [1..RespLen -> Unit]
  BY <1>2 DEF Response
<1>4. Response(id) \in Seq(Unit)
  BY <1>1, <1>3, FunctionIsSeq
<1>5. Len(Response(id)) = RespLen
  <2>1. DOMAIN Response(id) = 1..RespLen
    BY DEF Response
  <2>2. DOMAIN Response(id) = 1..Len(Response(id)) /\ Len(Response(id)) \in Nat
    BY <1>4, LenProperties
  <2>3. QED
    BY <1>1, <2>1, <2>2
<1>6. QED
  BY <1>1, <1>4, <1>5

\* What each helper assigns has the type of its variables.
LEMMA CloseType ==
    ASSUME NEW why \in {"idle", "peer", "response", "error"}, Close(why)
    PROVE  open' \in BOOLEAN /\ interest' \subseteq {"IN", "OUT"}
           /\ reason' \in {"none", "idle", "peer", "response", "error"}
BY DEF Close

LEMMA ActivityType ==
    ASSUME TypeOK, NEW some \in BOOLEAN, MarkActivityIf(some)
    PROVE  last_activity' \in 0..MaxTime /\ idle_gen' \in Nat /\ timers' = timers
BY DEF MarkActivityIf, TypeOK

LEMMA ProcessType ==
    ASSUME TypeOK, NEW in \in Nat, hasCompleteRequest(in), ProcessRequest(in)
    PROVE  input' \in Nat /\ processing' = TRUE /\ generation' \in Nat
           /\ handlers' \subseteq Handler /\ posted' \in Seq(Result)
<1>1. input' \in Nat
  BY TcpAssumption DEF ProcessRequest, hasCompleteRequest, TcpAssumption
<1>2. generation \in Nat /\ generation + 1 \in Nat
  BY DEF TypeOK
<1>3. [id |-> generation + 1, again |-> FALSE] \in Handler
  BY <1>2 DEF Handler
<1>4. QED
  BY <1>1, <1>2, <1>3 DEF ProcessRequest, TypeOK

LEMMA NoRequestType ==
    ASSUME TypeOK, NEW in \in Nat, NEW proc \in BOOLEAN, NoRequest(in, proc)
    PROVE  input' \in Nat /\ processing' \in BOOLEAN /\ generation' \in Nat
           /\ handlers' \subseteq Handler /\ posted' \in Seq(Result)
BY DEF NoRequest, TypeOK

\* The variables that handleWrite assigns.
WriteVarsOK ==
    /\ open \in BOOLEAN /\ interest \subseteq {"IN", "OUT"}
    /\ input \in Nat /\ output \in Seq(Unit)
    /\ response_ready \in BOOLEAN /\ close_after \in BOOLEAN /\ peer_closed \in BOOLEAN
    /\ processing \in BOOLEAN /\ generation \in Nat
    /\ last_activity \in 0..MaxTime /\ idle_gen \in Nat
    /\ timers \in Seq([at : Nat, gen : Nat])
    /\ handlers \subseteq Handler /\ posted \in Seq(Result)
    /\ writable \in BOOLEAN /\ sent \in Seq(Unit)
    /\ reason \in {"none", "idle", "peer", "response", "error"}
    /\ fate \in {"running", "terminated", "sigpipe"}

\* The end of a drained handleWrite keeps the types.
LEMMA AfterResponseType ==
    ASSUME TypeOK, NEW closing \in BOOLEAN, NEW proc \in BOOLEAN, NEW some \in BOOLEAN,
           AfterResponse(closing, proc, some)
    PROVE  /\ open' \in BOOLEAN /\ interest' \subseteq {"IN", "OUT"}
           /\ reason' \in {"none", "idle", "peer", "response", "error"}
           /\ input' \in Nat /\ processing' \in BOOLEAN /\ generation' \in Nat
           /\ handlers' \subseteq Handler /\ posted' \in Seq(Result)
           /\ last_activity' \in 0..MaxTime /\ idle_gen' \in Nat /\ timers' = timers
<1> USE DEF AfterResponse, StayOpen
<1>0. input \in Nat /\ open \in BOOLEAN /\ interest \subseteq {"IN", "OUT"}
      /\ reason \in {"none", "idle", "peer", "response", "error"}
  BY DEF TypeOK
<1>1. last_activity' \in 0..MaxTime /\ idle_gen' \in Nat /\ timers' = timers
  BY ActivityType
<1>2. /\ open' \in BOOLEAN /\ interest' \subseteq {"IN", "OUT"}
      /\ reason' \in {"none", "idle", "peer", "response", "error"}
  BY <1>0, CloseType
<1>3. /\ input' \in Nat /\ processing' \in BOOLEAN /\ generation' \in Nat
      /\ handlers' \subseteq Handler /\ posted' \in Seq(Result)
  <2>1. CASE NoRequest(input, proc)
    BY <1>0, <2>1, NoRequestType
  <2>2. CASE NextPipelined(proc) /\ ProcessRequest(input)
    BY <1>0, <2>2, ProcessType DEF NextPipelined
  <2>3. QED
    BY <2>1, <2>2
<1>4. QED
  BY <1>1, <1>2, <1>3

\* A prefix and a suffix of output are output.
LEMMA SplitOutput ==
    ASSUME NEW out \in Seq(Unit), NEW n \in 0..Len(out) - 1
    PROVE  /\ SubSeq(out, 1, n) \in Seq(Unit)
           /\ SubSeq(out, n + 1, Len(out)) \in Seq(Unit)
           /\ SubSeq(out, n + 1, Len(out)) # <<>>
           /\ SubSeq(out, 1, n) \o SubSeq(out, n + 1, Len(out)) = out
<1>1. Len(out) \in Nat /\ n \in Nat /\ n < Len(out)
  BY LenProperties
<1>2. \A i \in 1..Len(out) : out[i] \in Unit
  BY ElementOfSeq
<1>3. SubSeq(out, 1, n) \in Seq(Unit)
  <2>1. \A i \in 1..n : out[i] \in Unit
    BY <1>1, <1>2
  <2>2. QED
    BY <1>1, <2>1, SubSeqProperties
<1>4. /\ SubSeq(out, n + 1, Len(out)) \in Seq(Unit)
      /\ Len(SubSeq(out, n + 1, Len(out))) = Len(out) - n
  <2>1. \A i \in n + 1..Len(out) : out[i] \in Unit
    BY <1>1, <1>2
  <2>2. n + 1 \in Int /\ Len(out) \in Int /\ n + 1 <= Len(out)
        /\ Len(out) - (n + 1) + 1 = Len(out) - n
    BY <1>1
  <2>3. QED
    BY <2>1, <2>2, SubSeqProperties
<1>5. SubSeq(out, 1, n) \o SubSeq(out, n + 1, Len(out)) = SubSeq(out, 1, Len(out))
  <2>1. 1 \in 1..Len(out) + 1 /\ n \in 1 - 1..Len(out) /\ Len(out) \in n..Len(out)
    BY <1>1
  <2>2. QED
    BY <2>1, ConcatAdjacentSubSeq
<1>6. SubSeq(out, 1, Len(out)) = out
  BY SubSeqFull
<1>7. SubSeq(out, n + 1, Len(out)) # <<>>
  <2>1. Len(<<>>) = 0 /\ Len(out) - n # 0
    BY <1>1
  <2>2. QED
    BY <1>4, <2>1
<1>8. QED
  BY <1>3, <1>4, <1>5, <1>6, <1>7

\* handleWrite keeps the types, for any buffer and flags it is entered with.
LEMMA WriteType ==
    ASSUME TypeOK, NEW out \in Seq(Unit), NEW closing \in BOOLEAN,
           NEW ready \in BOOLEAN, NEW proc \in BOOLEAN,
           handleWrite(out, closing, ready, proc)
    PROVE  WriteVarsOK'
<1> USE DEF WriteVarsOK
<1>0. /\ open \in BOOLEAN /\ interest \subseteq {"IN", "OUT"} /\ input \in Nat
      /\ reason \in {"none", "idle", "peer", "response", "error"}
      /\ fate \in {"running", "terminated", "sigpipe"}
      /\ timers \in Seq([at : Nat, gen : Nat])
      /\ sent \in Seq(Unit) /\ writable \in BOOLEAN /\ peer_closed \in BOOLEAN
  BY DEF TypeOK
<1>1. peer_closed' \in BOOLEAN
  BY <1>0 DEF handleWrite
<1>2. CASE WriteAll(out, closing, proc)
  <2>1. (out # <<>>) \in BOOLEAN /\ AfterResponse(closing, proc, out # <<>>)
    BY <1>2 DEF WriteAll
  <2>2. /\ open' \in BOOLEAN /\ interest' \subseteq {"IN", "OUT"}
        /\ reason' \in {"none", "idle", "peer", "response", "error"}
        /\ input' \in Nat /\ processing' \in BOOLEAN /\ generation' \in Nat
        /\ handlers' \subseteq Handler /\ posted' \in Seq(Result)
        /\ last_activity' \in 0..MaxTime /\ idle_gen' \in Nat /\ timers' = timers
    BY <2>1, AfterResponseType
  <2>3. sent' \in Seq(Unit) /\ output' \in Seq(Unit)
    BY <1>0, <1>2, ConcatProperties, EmptySeq DEF WriteAll
  <2>4. /\ response_ready' \in BOOLEAN /\ close_after' \in BOOLEAN
        /\ writable' \in BOOLEAN /\ fate' = fate
    BY <1>0, <1>2 DEF WriteAll
  <2>5. QED
    BY <1>0, <1>1, <2>2, <2>3, <2>4
<1>3. CASE WriteSome(out, closing, ready, proc)
  <2>1. PICK n \in 0..Len(out) - 1 :
           /\ sent' = sent \o SubSeq(out, 1, n)
           /\ output' = SubSeq(out, n + 1, Len(out))
           /\ MarkActivityIf(n > 0)
    BY <1>3 DEF WriteSome
  <2>2. sent' \in Seq(Unit) /\ output' \in Seq(Unit)
    BY <1>0, <2>1, SplitOutput, ConcatProperties
  <2>3. last_activity' \in 0..MaxTime /\ idle_gen' \in Nat /\ timers' = timers
    BY <2>1 DEF MarkActivityIf, TypeOK
  <2>4. /\ input' \in Nat /\ processing' \in BOOLEAN /\ generation' \in Nat
        /\ handlers' \subseteq Handler /\ posted' \in Seq(Result)
    BY <1>0, <1>3, NoRequestType DEF WriteSome
  <2>5. QED
    BY <1>0, <1>1, <1>3, <2>2, <2>3, <2>4 DEF WriteSome, StayOpen
<1>4. CASE WriteFails(out, closing, ready, proc)
  <2>1. last_activity' \in 0..MaxTime /\ idle_gen' \in Nat /\ timers' = timers
    BY <1>4, ActivityType DEF WriteFails
  <2>2. /\ input' \in Nat /\ processing' \in BOOLEAN /\ generation' \in Nat
        /\ handlers' \subseteq Handler /\ posted' \in Seq(Result)
    BY <1>0, <1>4, NoRequestType DEF WriteFails
  <2>3. /\ open' \in BOOLEAN /\ interest' \subseteq {"IN", "OUT"}
        /\ reason' \in {"none", "idle", "peer", "response", "error"}
        /\ fate' \in {"running", "terminated", "sigpipe"}
    BY <1>0, <1>4 DEF WriteFails, Close
  <2>4. QED
    BY <1>0, <1>1, <1>4, <2>1, <2>2, <2>3 DEF WriteFails
<1>5. CASE WriteNothing(out, closing, ready, proc)
  <2>1. CASE open
    BY <1>0, <1>1, <1>5, <2>1, AfterResponseType DEF WriteNothing
  <2>2. CASE ~open
    <3>1. last_activity' \in 0..MaxTime /\ idle_gen' \in Nat /\ timers' = timers
      BY <1>5, <2>2, ActivityType DEF WriteNothing
    <3>2. /\ input' \in Nat /\ processing' \in BOOLEAN /\ generation' \in Nat
          /\ handlers' \subseteq Handler /\ posted' \in Seq(Result)
      BY <1>0, <1>5, <2>2, NoRequestType DEF WriteNothing
    <3>3. QED
      BY <1>0, <1>1, <1>5, <2>2, <3>1, <3>2 DEF WriteNothing
  <2>3. QED
    BY <1>0, <2>1, <2>2
<1>6. QED
  BY <1>2, <1>3, <1>4, <1>5 DEF handleWrite

\* Every action keeps the types.
LEMMA TypeStep == ASSUME TypeOK, [Next]_vars PROVE TypeOK'
<1>0. RecordBusy /\ now' \in 0..MaxTime => last_busy' \in 0..MaxTime
  BY DEF RecordBusy, TypeOK
<1>1. CASE WaitReturns
  <2>1. revents' \subseteq {"IN", "OUT", "ERR"}
    BY <1>1 DEF WaitReturns, Reported, TypeOK
  <2>2. QED
    BY <1>0, <1>1, <2>1 DEF WaitReturns, connVars, idleVars, workVars, histVars, TypeOK
<1>2. CASE DispatchWakeup
  BY <1>0, <1>2 DEF DispatchWakeup, connVars, idleVars, netVars, histVars, TypeOK
<1>3. CASE DispatchConn
  <2>1. /\ open' \in BOOLEAN /\ interest' \subseteq {"IN", "OUT"}
        /\ reason' \in {"none", "idle", "peer", "response", "error"}
        /\ batch' \subseteq {"wakeup", "conn"} /\ handling' \subseteq {"IN", "OUT"}
    BY <1>3 DEF DispatchConn, Close, TypeOK
  <2>2. QED
    BY <1>0, <1>3, <2>1 DEF DispatchConn, idleVars, workVars, netVars, TypeOK
<1>4. CASE EndDispatch
  BY <1>0, <1>4 DEF EndDispatch, connVars, idleVars, workVars, netVars, histVars, TypeOK
<1>5. CASE EndTimers
  BY <1>0, <1>5 DEF EndTimers, connVars, idleVars, workVars, netVars, histVars, TypeOK
<1>6. CASE HandleRead
  <2> DEFINE in == input + recvq
  <2>1. in \in Nat /\ (recvq > 0) \in BOOLEAN
    BY DEF TypeOK
  <2>2. last_activity' \in 0..MaxTime /\ idle_gen' \in Nat /\ timers' = timers
    BY <1>6, <2>1, ActivityType DEF HandleRead
  <2>3. /\ input' \in Nat /\ processing' \in BOOLEAN /\ generation' \in Nat
        /\ handlers' \subseteq Handler /\ posted' \in Seq(Result)
    <3>1. CASE hasCompleteRequest(in) /\ ProcessRequest(in)
      BY <2>1, <3>1, ProcessType
    <3>2. CASE NoRequest(in, processing)
      BY <2>1, <3>2, NoRequestType DEF TypeOK
    <3>3. QED
      BY <1>6, <3>1, <3>2 DEF HandleRead
  <2>4. /\ open' \in BOOLEAN /\ interest' \subseteq {"IN", "OUT"}
        /\ reason' \in {"none", "idle", "peer", "response", "error"}
    BY <1>6 DEF HandleRead, Close, TypeOK
  <2>5. handling' \subseteq {"IN", "OUT"} /\ peer_closed' \in BOOLEAN
        /\ recvq' \in Nat /\ late' \in Nat
    BY <1>6 DEF HandleRead, Reading, TypeOK
  <2>6. QED
    BY <1>0, <1>6, <2>2, <2>3, <2>4, <2>5 DEF HandleRead, TypeOK
<1>7. CASE HandleReadError
  BY <1>0, <1>7 DEF HandleReadError, Reading, Close, idleVars, workVars, netVars, TypeOK
<1>8. CASE HandleWrite
  <2>1. WriteVarsOK'
    BY <1>8, WriteType DEF HandleWrite, TypeOK
  <2>2. QED
    BY <1>0, <1>8, <2>1 DEF HandleWrite, handleWrite, WriteVarsOK, TypeOK
<1>9. CASE FinishRequest
  <2>1. tasks' \in Seq(Result) /\ Head(tasks) \in Result
    BY <1>9 DEF FinishRequest, TypeOK
  <2>2. CASE Accepts(Head(tasks))
    <3> DEFINE out == output \o Response(Head(tasks).id)
    <3>1. Head(tasks).id \in Nat /\ Head(tasks).close \in BOOLEAN
      BY <2>1 DEF Result
    <3>2. out \in Seq(Unit)
      BY <3>1, ResponseType, ConcatProperties DEF TypeOK
    <3>3. handleWrite(out, Head(tasks).close, TRUE, FALSE)
      BY <1>9, <2>2 DEF FinishRequest
    <3>4. WriteVarsOK'
      BY <3>1, <3>2, <3>3, WriteType
    <3>5. QED
      BY <1>0, <1>9, <2>1, <3>3, <3>4 DEF FinishRequest, handleWrite, WriteVarsOK, TypeOK
  <2>3. CASE ~Accepts(Head(tasks))
    <3>1. /\ UNCHANGED <<connVars, idleVars, workVars, netVars, histVars>>
          /\ UNCHANGED <<pc, batch, revents, handling, cutoff>>
          /\ RecordBusy
      BY <1>9, <2>3 DEF FinishRequest
    <3>2. QED
      BY <1>0, <2>1, <3>1 DEF connVars, idleVars, workVars, netVars, histVars, TypeOK
  <2>4. QED
    BY <2>2, <2>3
<1>10. ASSUME NEW i \in DOMAIN timers, CloseIfIdle(i) PROVE TypeOK'
  <2>0. /\ timers \in Seq([at : Nat, gen : Nat])
        /\ DOMAIN timers = 1..Len(timers) /\ Len(timers) \in Nat /\ i \in 1..Len(timers)
        /\ last_activity + IdleTimeout \in Nat /\ now + IdleTimeout \in Nat
        /\ idle_gen \in Nat
    BY TcpAssumption, LenProperties DEF TypeOK, TcpAssumption
  <2>1. \A at \in Nat : Schedule(i, at) => timers' \in Seq([at : Nat, gen : Nat])
    <3> SUFFICES ASSUME NEW at \in Nat, Schedule(i, at)
                 PROVE  timers' \in Seq([at : Nat, gen : Nat])
      OBVIOUS
    <3>1. [at |-> at, gen |-> idle_gen] \in [at : Nat, gen : Nat]
      BY <2>0
    <3>2. QED
      BY <2>0, <3>1, ExceptSeq DEF Schedule
  <2>2. Unschedule(i) => timers' \in Seq([at : Nat, gen : Nat])
    <3> SUFFICES ASSUME Unschedule(i) PROVE timers' \in Seq([at : Nat, gen : Nat])
      OBVIOUS
    <3> DEFINE m == Len(timers) - 1
    <3>1. m \in Nat
      BY <2>0
    <3>2. \A j \in 1..Len(timers) - 1 :
             (IF j < i THEN timers[j] ELSE timers[j + 1]) \in [at : Nat, gen : Nat]
      <4>1. \A j \in 1..Len(timers) : timers[j] \in [at : Nat, gen : Nat]
        BY <2>0, ElementOfSeq
      <4>2. \A j \in 1..Len(timers) - 1 : j \in 1..Len(timers) /\ j + 1 \in 1..Len(timers)
        BY <2>0
      <4>3. QED
        BY <4>1, <4>2
    <3>3. timers' \in [1..m -> [at : Nat, gen : Nat]]
      BY <3>2 DEF Unschedule
    <3> HIDE DEF m
    <3>4. QED
      BY <3>1, <3>3, FunctionIsSeq
  <2>3. timers' \in Seq([at : Nat, gen : Nat])
    BY <1>10, <2>0, <2>1, <2>2 DEF CloseIfIdle
  <2>4. /\ open' \in BOOLEAN /\ interest' \subseteq {"IN", "OUT"}
        /\ reason' \in {"none", "idle", "peer", "response", "error"}
    BY <1>10 DEF CloseIfIdle, Close, TypeOK
  <2>5. QED
    BY <1>0, <1>10, <2>3, <2>4
    DEF CloseIfIdle, workVars, loopVars, netVars, TypeOK
<1>11. ASSUME NEW h \in handlers, Complete(h) \/ CompleteAgain(h) PROVE TypeOK'
  <2>1. h \in Handler /\ h.id \in Nat /\ [h EXCEPT !.again = TRUE] \in Handler
    BY DEF TypeOK, Handler
  <2>2. handlers' \subseteq Handler
    BY <1>11, <2>1 DEF Complete, CompleteAgain, TypeOK
  <2>3. PICK close \in BOOLEAN : Post(h, close)
    BY <1>11 DEF Complete, CompleteAgain
  <2>4. [id |-> h.id, close |-> close] \in Result
    BY <2>1 DEF Result
  <2>5. posted' \in Seq(Result)
    <3>1. posted \in Seq(Result)
      BY DEF TypeOK
    <3>2. Append(posted, [id |-> h.id, close |-> close]) \in Seq(Result)
      BY <2>4, <3>1, AppendProperties
    <3>3. QED
      BY <2>3, <3>1, <3>2 DEF Post
  <2>6. CASE Complete(h)
    BY <1>0, <2>2, <2>5, <2>6
    DEF Complete, connVars, idleVars, loopVars, netVars, histVars, TypeOK
  <2>7. CASE CompleteAgain(h)
    BY <1>0, <2>2, <2>5, <2>7
    DEF CompleteAgain, connVars, idleVars, loopVars, netVars, histVars, TypeOK
  <2>8. QED
    BY <1>11, <2>6, <2>7
<1>12. ASSUME NEW n \in 1..MaxInput, ClientSends(n) PROVE TypeOK'
  <2>1. recvq' \in Nat /\ late' \in Nat /\ unsent' \in 0..MaxInput
    BY <1>12, TcpAssumption DEF ClientSends, TypeOK, TcpAssumption
  <2>2. QED
    BY <1>0, <1>12, <2>1
    DEF ClientSends, connVars, idleVars, workVars, loopVars, histVars, TypeOK
<1>13. CASE ClientShutsDown \/ ClientResets \/ ClientReads
  <2>1. CASE ClientShutsDown
    BY <1>0, <2>1
    DEF ClientShutsDown, connVars, idleVars, workVars, loopVars, histVars, TypeOK
  <2>2. CASE ClientResets
    BY <1>0, <2>2
    DEF ClientResets, connVars, idleVars, workVars, loopVars, histVars, TypeOK
  <2>3. CASE ClientReads
    BY <1>0, <2>3
    DEF ClientReads, connVars, idleVars, workVars, loopVars, histVars, TypeOK
  <2>4. QED
    BY <1>13, <2>1, <2>2, <2>3
<1>14. CASE Tick
  <2>1. now' \in 0..MaxTime
    BY <1>14, TcpAssumption DEF Tick, TypeOK, TcpAssumption
  <2>2. QED
    BY <1>0, <1>14, <2>1
    DEF Tick, connVars, idleVars, workVars, loopVars, histVars, TypeOK
<1>15. CASE UNCHANGED vars
  BY <1>15
  DEF vars, connVars, idleVars, workVars, loopVars, netVars, histVars, TypeOK
<1>16. QED
  BY <1>1, <1>2, <1>3, <1>4, <1>5, <1>6, <1>7, <1>8, <1>9, <1>10, <1>11, <1>12, <1>13,
     <1>14, <1>15 DEF Next, LoopStep, WorkerStep, ClientStep

--------------------------------------------------------------------------------
(* The invariants of an open connection.                                     *)

\* What writing a response to an open connection leaves: finished and quiet,
\* finished and at the next request, unfinished and waiting for EPOLLOUT, or
\* closed.
LEMMA WriteOpen ==
    ASSUME TypeOK, Bookkeeping, NeverTerminated, open, "IN" \in interest,
           NEW out \in Seq(Unit), out # <<>>, NEW closing \in BOOLEAN,
           handleWrite(out, closing, TRUE, FALSE)
    PROVE  WriteInterest' /\ Bookkeeping' /\ HalfCloseAnswered' /\ NeverTerminated'
           /\ timers' = timers
<1> USE DEF WriteInterest, Bookkeeping, HalfCloseAnswered, NeverTerminated
<1>0. /\ peer_closed' = peer_closed /\ recvq' = recvq /\ fin' = fin
      /\ reason = "none" /\ generation \in Nat
  BY DEF handleWrite, TypeOK
<1>1. CASE WriteAll(out, closing, FALSE)
  <2>1. /\ output' = <<>> /\ response_ready' = FALSE /\ fate' = fate
        /\ AfterResponse(closing, FALSE, out # <<>>)
    BY <1>1 DEF WriteAll
  <2>2. CASE closing /\ Close("response") /\ NoRequest(input, FALSE) /\ MarkActivityIf(FALSE)
    BY <1>0, <2>1, <2>2 DEF Close, NoRequest, MarkActivityIf
  <2>3. CASE /\ StayOpen /\ interest' = interest \ {"OUT"}
             /\ ProcessRequest(input) /\ MarkActivityIf(FALSE)
    BY <1>0, <2>1, <2>3 DEF StayOpen, ProcessRequest, MarkActivityIf
  <2>4. CASE /\ ~NextPipelined(FALSE) /\ peer_closed
             /\ Close("peer") /\ NoRequest(input, FALSE) /\ MarkActivityIf(FALSE)
    BY <1>0, <2>1, <2>4
    DEF Close, NoRequest, MarkActivityIf, NextPipelined, hasCompleteRequest
  <2>5. CASE /\ StayOpen /\ interest' = interest \ {"OUT"}
             /\ NoRequest(input, FALSE) /\ MarkActivityIf(out # <<>>)
    BY <1>0, <2>1, <2>5 DEF StayOpen, NoRequest, MarkActivityIf
  <2>6. QED
    BY <2>1, <2>2, <2>3, <2>4, <2>5 DEF AfterResponse
<1>2. CASE WriteSome(out, closing, TRUE, FALSE)
  <2>1. PICK n \in 0..Len(out) - 1 :
           output' = SubSeq(out, n + 1, Len(out)) /\ MarkActivityIf(n > 0)
    BY <1>2 DEF WriteSome
  <2>2. output' # <<>>
    BY <2>1, SplitOutput
  <2>3. timers' = timers
    BY <2>1 DEF MarkActivityIf
  <2>4. QED
    BY <1>0, <1>2, <2>2, <2>3 DEF WriteSome, StayOpen, NoRequest
<1>3. CASE WriteFails(out, closing, TRUE, FALSE)
  <2>1. /\ open' = FALSE /\ reason' = "error" /\ fate' \in {fate, "sigpipe"}
        /\ timers' = timers /\ processing' = FALSE
    BY <1>3 DEF WriteFails, Close, MarkActivityIf, NoRequest
  <2>2. QED
    BY <1>0, <2>1
<1>4. QED
  BY <1>1, <1>2, <1>3 DEF handleWrite, WriteNothing

\* A write callback that comes after the close changes nothing that matters: it
\* has output, so send fails and disableWriting is not reached.
LEMMA WriteClosed ==
    ASSUME TypeOK, ~open, output # <<>>,
           handleWrite(output, close_after, response_ready, processing)
    PROVE  UNCHANGED <<open, reason, input, output, peer_closed, processing, generation,
                       timers, recvq, fin, fate, sent>>
<1>1. WriteFails(output, close_after, response_ready, processing)
  BY DEF handleWrite, WriteAll, WriteSome, WriteNothing
<1>2. QED
  BY <1>1 DEF WriteFails, NoRequest, MarkActivityIf, handleWrite

\* Steps that leave the connection and its history alone keep its invariants.
LEMMA ConnUnchanged ==
    ASSUME Bookkeeping, WriteInterest, HalfCloseAnswered, NeverTerminated, OneIdleCheck,
           UNCHANGED <<connVars, timers, histVars, recvq>>, fin => fin'
    PROVE  /\ Bookkeeping' /\ WriteInterest' /\ HalfCloseAnswered'
           /\ NeverTerminated' /\ OneIdleCheck'
BY DEF connVars, histVars, Bookkeeping, WriteInterest, HalfCloseAnswered, NeverTerminated,
   OneIdleCheck, hasCompleteRequest

ConnInvariants ==
    /\ LoopScope
    /\ OutPending
    /\ WriteInterest
    /\ Bookkeeping
    /\ HalfCloseAnswered
    /\ NeverTerminated
    /\ OneIdleCheck

\* Every step of the loop and of the environment keeps them.
LEMMA ConnStep == ASSUME ConnInv, [Next]_vars PROVE ConnInvariants'
<1> USE DEF ConnInv, ConnInvariants
<1> DEFINE Same == /\ UNCHANGED <<connVars, timers, histVars, recvq>>
                   /\ fin => fin'
<1>0. Same => /\ Bookkeeping' /\ WriteInterest' /\ HalfCloseAnswered'
              /\ NeverTerminated' /\ OneIdleCheck'
  BY ConnUnchanged
<1>1. CASE WaitReturns
  <2>1. Same
    BY <1>1 DEF WaitReturns, idleVars
  <2>2. LoopScope'
    BY <1>1 DEF WaitReturns, LoopScope
  <2>3. OutPending'
    BY <1>1 DEF WaitReturns, Reported, OutPending, LoopScope, WriteInterest, connVars
  <2>4. QED
    BY <1>0, <2>1, <2>2, <2>3
<1>2. CASE DispatchWakeup
  <2>1. Same
    BY <1>2 DEF DispatchWakeup, idleVars, netVars
  <2>2. LoopScope' /\ OutPending'
    BY <1>2 DEF DispatchWakeup, Dispatching, LoopScope, OutPending, connVars
  <2>3. QED
    BY <1>0, <2>1, <2>2
<1>3. CASE DispatchConn
  <2>1. LoopScope' /\ OutPending'
    BY <1>3 DEF DispatchConn, Dispatching, LoopScope, OutPending, Close
  <2>2. WriteInterest' /\ Bookkeeping' /\ HalfCloseAnswered' /\ NeverTerminated'
    BY <1>3
    DEF DispatchConn, Close, WriteInterest, Bookkeeping, HalfCloseAnswered,
        NeverTerminated, hasCompleteRequest, netVars
  <2>3. OneIdleCheck'
    BY <1>3 DEF DispatchConn, Close, OneIdleCheck, idleVars
  <2>4. QED
    BY <2>1, <2>2, <2>3
<1>4. CASE EndDispatch
  <2>1. Same
    BY <1>4 DEF EndDispatch, idleVars, netVars
  <2>2. LoopScope' /\ OutPending'
    BY <1>4 DEF EndDispatch, Dispatching, LoopScope, OutPending, connVars
  <2>3. QED
    BY <1>0, <2>1, <2>2
<1>5. CASE EndTimers
  <2>1. Same
    BY <1>5 DEF EndTimers, idleVars, netVars
  <2>2. LoopScope' /\ OutPending'
    BY <1>5 DEF EndTimers, LoopScope, OutPending, connVars
  <2>3. QED
    BY <1>0, <2>1, <2>2
<1>6. CASE HandleRead
  <2> DEFINE in == input + recvq
  <2>0. open /\ "IN" \in handling /\ reason = "none" /\ generation \in Nat
    BY <1>6 DEF HandleRead, Reading, LoopScope, Bookkeeping, TypeOK
  <2>1. timers' = timers /\ sent' = sent /\ fate' = fate /\ output' = output
        /\ response_ready' = response_ready /\ recvq' = 0 /\ fin' = fin
        /\ peer_closed' = (peer_closed \/ fin)
    BY <1>6 DEF HandleRead, MarkActivityIf
  <2>2. LoopScope'
    BY <1>6 DEF HandleRead, Reading, LoopScope, TypeOK
  <2>3. OutPending'
    BY <1>6, <2>1 DEF HandleRead, Reading, LoopScope, OutPending
  <2>4. CASE /\ Quiet /\ ProcessRequest(in) /\ UNCHANGED <<open, interest, reason>>
    <3>1. generation' > 0 /\ UNCHANGED <<open, interest, reason>>
      BY <2>0, <2>4 DEF ProcessRequest
    <3>2. WriteInterest'
      BY <2>0, <2>1, <2>4, <3>1 DEF Quiet, WriteInterest
    <3>3. Bookkeeping'
      BY <2>0, <2>1, <3>1 DEF Bookkeeping
    <3>4. HalfCloseAnswered' /\ NeverTerminated' /\ OneIdleCheck'
      BY <2>0, <2>1, <3>1 DEF HalfCloseAnswered, NeverTerminated, OneIdleCheck
    <3>5. QED
      BY <2>2, <2>3, <3>2, <3>3, <3>4
  <2>5. CASE /\ Quiet /\ ~hasCompleteRequest(in) /\ peer_closed'
             /\ Close("peer") /\ NoRequest(in, processing)
    BY <2>0, <2>1, <2>2, <2>3, <2>5
    DEF Quiet, Close, NoRequest, WriteInterest, Bookkeeping, HalfCloseAnswered,
        NeverTerminated, OneIdleCheck, hasCompleteRequest
  <2>6. CASE NoRequest(in, processing) /\ UNCHANGED <<open, interest, reason>>
    BY <2>0, <2>1, <2>2, <2>3, <2>6
    DEF NoRequest, WriteInterest, Bookkeeping, HalfCloseAnswered, NeverTerminated,
        OneIdleCheck
  <2>7. QED
    BY <1>6, <2>4, <2>5, <2>6 DEF HandleRead
<1>7. CASE HandleReadError
  <2>0. open /\ reason = "none"
    BY <1>7 DEF HandleReadError, Reading, LoopScope, Bookkeeping
  <2>1. LoopScope' /\ OutPending'
    BY <1>7 DEF HandleReadError, Reading, LoopScope, OutPending, Close
  <2>2. WriteInterest' /\ Bookkeeping' /\ HalfCloseAnswered' /\ NeverTerminated'
    BY <1>7, <2>0
    DEF HandleReadError, Close, WriteInterest, Bookkeeping, HalfCloseAnswered,
        NeverTerminated, netVars
  <2>3. OneIdleCheck'
    BY <1>7 DEF HandleReadError, Close, OneIdleCheck
  <2>4. QED
    BY <2>1, <2>2, <2>3
<1>8. CASE HandleWrite
  <2>0. /\ output # <<>> /\ output \in Seq(Unit) /\ close_after \in BOOLEAN
        /\ handleWrite(output, close_after, response_ready, processing)
        /\ UNCHANGED <<pc, batch, revents, tasks>>
        /\ handling' = {} /\ tasks = <<>> /\ "conn" \notin batch /\ pc = "dispatch"
    BY <1>8 DEF HandleWrite, OutPending, LoopScope, TypeOK
  <2>1. LoopScope' /\ OutPending'
    BY <2>0 DEF LoopScope, OutPending
  <2>2. CASE open
    <3>1. response_ready = TRUE /\ processing = FALSE /\ "IN" \in interest
      BY <2>0, <2>2 DEF WriteInterest, TypeOK
    <3>2. handleWrite(output, close_after, TRUE, FALSE)
      BY <2>0, <3>1
    <3>3. /\ WriteInterest' /\ Bookkeeping' /\ HalfCloseAnswered' /\ NeverTerminated'
          /\ timers' = timers
      BY <2>0, <2>2, <3>1, <3>2, WriteOpen
    <3>4. QED
      BY <2>1, <2>2, <3>3 DEF OneIdleCheck
  <2>3. CASE ~open
    <3>1. UNCHANGED <<open, reason, input, output, peer_closed, processing, generation,
                      timers, recvq, fin, fate, sent>>
      BY <2>0, <2>3, WriteClosed
    <3>2. QED
      BY <2>1, <2>3, <3>1
      DEF WriteInterest, Bookkeeping, HalfCloseAnswered, NeverTerminated, OneIdleCheck,
          hasCompleteRequest
  <2>4. QED
    BY <2>2, <2>3
<1>9. CASE FinishRequest
  <2> DEFINE r == Head(tasks)
  <2>1. r \in Result /\ r.id \in Nat /\ r.close \in BOOLEAN
    <3>1. tasks \in Seq(Result) /\ tasks # <<>>
      BY <1>9 DEF FinishRequest, TypeOK
    <3>2. r \in Result
      BY <3>1, HeadTailProperties
    <3>3. QED
      BY <3>2 DEF Result
  <2>2. tasks # <<>> /\ handling = {} /\ pc = "dispatch"
        /\ UNCHANGED <<pc, batch, revents, handling>>
    BY <1>9 DEF FinishRequest, LoopScope
  <2>3. LoopScope'
    BY <2>2 DEF LoopScope
  <2>4. CASE Accepts(r)
    <3> DEFINE out == output \o Response(r.id)
    <3>1. open /\ processing /\ "IN" \in interest /\ output = <<>>
      BY <2>4 DEF Accepts, WriteInterest
    <3>2. ~("conn" \in batch /\ "OUT" \in revents)
      BY <3>1 DEF OutPending
    <3>3. OutPending'
      BY <2>2, <3>2 DEF OutPending
    <3>4. out \in Seq(Unit) /\ out # <<>>
      <4>1. Response(r.id) \in Seq(Unit) /\ Response(r.id) # <<>>
        BY <2>1, ResponseType
      <4>2. out = Response(r.id)
        BY <3>1, <4>1, ConcatEmptySeq
      <4>3. QED
        BY <4>1, <4>2
    <3>5. handleWrite(out, r.close, TRUE, FALSE)
      BY <1>9, <2>4 DEF FinishRequest
    <3> HIDE DEF out
    <3>6. /\ WriteInterest' /\ Bookkeeping' /\ HalfCloseAnswered' /\ NeverTerminated'
          /\ timers' = timers
      BY <2>1, <3>1, <3>4, <3>5, WriteOpen
    <3>7. QED
      BY <2>3, <3>1, <3>3, <3>6 DEF OneIdleCheck
  <2>5. CASE ~Accepts(r)
    <3>1. Same
      BY <1>9, <2>5 DEF FinishRequest, idleVars, netVars
    <3>2. OutPending'
      BY <2>2, <3>1 DEF OutPending, connVars
    <3>3. QED
      BY <1>0, <2>3, <3>1, <3>2
  <2>6. QED
    BY <2>4, <2>5
<1>10. ASSUME NEW i \in DOMAIN timers, CloseIfIdle(i) PROVE ConnInvariants'
  <2>0. UNCHANGED <<loopVars, recvq, fin, fate, sent, input, output, processing,
                    response_ready, peer_closed, generation>>
        /\ pc = "timers"
    BY <1>10 DEF CloseIfIdle, netVars
  <2>1. LoopScope' /\ OutPending'
    BY <2>0 DEF LoopScope, OutPending, loopVars
  <2>2. CASE UNCHANGED <<open, interest, reason>>
    <3>1. WriteInterest' /\ Bookkeeping' /\ HalfCloseAnswered' /\ NeverTerminated'
      BY <2>0, <2>2
      DEF WriteInterest, Bookkeeping, HalfCloseAnswered, NeverTerminated, hasCompleteRequest
    <3>2. CASE ~open
      BY <2>1, <2>2, <3>1, <3>2 DEF OneIdleCheck
    <3>3. ASSUME NEW at \in Nat, Schedule(i, at) PROVE Len(timers') = Len(timers)
      BY <3>3 DEF Schedule, TypeOK
    <3>4. CASE open
      <4>1. \E at \in Nat : Schedule(i, at)
        BY <1>10, <2>2, <3>4, TcpAssumption
        DEF CloseIfIdle, Close, Bookkeeping, TypeOK, TcpAssumption
      <4>2. QED
        BY <2>1, <2>2, <3>1, <3>3, <3>4, <4>1 DEF OneIdleCheck
    <3>5. QED
      BY <3>2, <3>4
  <2>3. CASE Close("idle") /\ open
    BY <2>0, <2>1, <2>3
    DEF Close, WriteInterest, Bookkeeping, HalfCloseAnswered, NeverTerminated, OneIdleCheck
  <2>4. QED
    BY <1>10, <2>2, <2>3 DEF CloseIfIdle
<1>11. ASSUME NEW h \in handlers, Complete(h) \/ CompleteAgain(h) PROVE ConnInvariants'
  <2>1. UNCHANGED <<connVars, idleVars, loopVars, netVars, histVars>>
    BY <1>11 DEF Complete, CompleteAgain
  <2>2. LoopScope' /\ OutPending' /\ Same
    BY <2>1 DEF LoopScope, OutPending, connVars, idleVars, loopVars, netVars
  <2>3. QED
    BY <1>0, <2>2
<1>12. ASSUME NEW n \in 1..MaxInput, ClientSends(n) PROVE ConnInvariants'
  <2>1. open /\ ~fin /\ UNCHANGED <<connVars, idleVars, loopVars, histVars, fin>>
    BY <1>12 DEF ClientSends
  <2>2. QED
    BY <2>1
    DEF connVars, idleVars, loopVars, histVars, LoopScope, OutPending, WriteInterest,
        Bookkeeping, HalfCloseAnswered, NeverTerminated, OneIdleCheck
<1>13. CASE ClientShutsDown \/ ClientResets \/ ClientReads \/ Tick
  <2>1. Same /\ UNCHANGED loopVars
    BY <1>13 DEF ClientShutsDown, ClientResets, ClientReads, Tick, idleVars
  <2>2. LoopScope' /\ OutPending'
    BY <2>1 DEF LoopScope, OutPending, connVars, loopVars
  <2>3. QED
    BY <1>0, <2>1, <2>2
<1>14. CASE UNCHANGED vars
  <2>1. Same /\ UNCHANGED loopVars
    BY <1>14 DEF vars, idleVars, netVars
  <2>2. LoopScope' /\ OutPending'
    BY <2>1 DEF LoopScope, OutPending, connVars, loopVars
  <2>3. QED
    BY <1>0, <2>1, <2>2
<1>15. QED
  BY <1>1, <1>2, <1>3, <1>4, <1>5, <1>6, <1>7, <1>8, <1>9, <1>10, <1>11, <1>12, <1>13,
     <1>14 DEF Next, LoopStep, WorkerStep, ClientStep

--------------------------------------------------------------------------------
(* The order of the responses.                                               *)

\* The units in w are the responses 1 to n, whole and in order.
InOrder(w, n) ==
    /\ \A i \in 1..Len(w) - 1 : w[i + 1] = NextUnit(w[i])
    /\ IF n = 0 THEN w = <<>>
       ELSE /\ w # <<>>
            /\ w[1] = [req |-> 1, at |-> 1]
            /\ w[Len(w)] = [req |-> n, at |-> RespLen]

\* The unit after a unit.
LEMMA NextUnitOf ==
    ASSUME NEW q \in Nat, NEW a \in Nat
    PROVE  /\ a < RespLen => NextUnit([req |-> q, at |-> a]) = [req |-> q, at |-> a + 1]
           /\ NextUnit([req |-> q, at |-> RespLen]) = [req |-> q + 1, at |-> 1]
<1>1. RespLen \in Nat /\ ~(RespLen < RespLen)
  BY TcpAssumption DEF TcpAssumption
<1>2. QED
  BY <1>1 DEF NextUnit

\* The next response can follow a sequence of responses.
LEMMA AppendResponse ==
    ASSUME NEW w \in Seq(Unit), NEW n \in Nat, InOrder(w, n)
    PROVE  InOrder(w \o Response(n + 1), n + 1)
<1> DEFINE r == Response(n + 1)
           k == Len(w)
           v == w \o r
<1>1. RespLen \in Nat /\ RespLen > 0 /\ k \in Nat
  BY TcpAssumption, LenProperties DEF TcpAssumption
<1>2. r \in Seq(Unit) /\ Len(r) = RespLen
  BY ResponseType
<1>3. \A j \in 1..RespLen : r[j] = [req |-> n + 1, at |-> j]
  BY DEF Response
<1>4. /\ v \in Seq(Unit) /\ Len(v) = k + RespLen
      /\ \A i \in 1..k + RespLen : v[i] = IF i <= k THEN w[i] ELSE r[i - k]
  BY <1>2, ConcatProperties
<1>5. \A i \in 1..k : v[i] = w[i]
  BY <1>1, <1>4
<1>6. \A j \in 1..RespLen : v[k + j] = [req |-> n + 1, at |-> j]
  <2>1. ASSUME NEW j \in 1..RespLen PROVE v[k + j] = r[j]
    <3>1. k + j \in 1..k + RespLen /\ ~(k + j <= k) /\ (k + j) - k = j
      BY <1>1
    <3>2. QED
      BY <1>4, <3>1
  <2>2. QED
    BY <1>3, <2>1
<1>7. k > 0 <=> n # 0
  <2>1. n = 0 => k = 0
    BY DEF InOrder
  <2>2. n # 0 => k > 0
    BY EmptySeq DEF InOrder
  <2>3. QED
    BY <1>1, <2>1, <2>2
<1>8. ASSUME NEW i \in 1..k + RespLen - 1 PROVE v[i + 1] = NextUnit(v[i])
  <2>1. CASE i < k
    <3>1. i \in 1..k /\ i + 1 \in 1..k /\ i \in 1..k - 1
      BY <1>1, <2>1
    <3>2. QED
      BY <1>5, <3>1 DEF InOrder
  <2>2. CASE i = k
    <3>1. k \in 1..k /\ n # 0 /\ 1 \in 1..RespLen
      BY <1>1, <1>7, <2>2
    <3>2. v[i] = [req |-> n, at |-> RespLen]
      BY <1>5, <2>2, <3>1 DEF InOrder
    <3>3. v[i + 1] = [req |-> n + 1, at |-> 1]
      BY <1>6, <2>2, <3>1
    <3>4. NextUnit([req |-> n, at |-> RespLen]) = [req |-> n + 1, at |-> 1]
      BY <1>1, NextUnitOf
    <3> HIDE DEF v
    <3>5. QED
      BY <3>2, <3>3, <3>4
  <2>3. CASE i > k
    <3> DEFINE j == i - k
    <3>1. j \in 1..RespLen /\ j + 1 \in 1..RespLen /\ j < RespLen
          /\ i = k + j /\ i + 1 = k + (j + 1)
      BY <1>1, <2>3
    <3>2. v[i] = [req |-> n + 1, at |-> j]
      BY <1>6, <3>1
    <3>3. v[i + 1] = [req |-> n + 1, at |-> j + 1]
      BY <1>6, <3>1
    <3>4. j \in Nat /\ n + 1 \in Nat
      BY <1>1, <3>1
    <3> HIDE DEF j, v
    <3>5. NextUnit(v[i]) = [req |-> n + 1, at |-> j + 1]
      BY <3>1, <3>2, <3>4, NextUnitOf
    <3>6. QED
      BY <3>3, <3>5
  <2>4. i < k \/ i = k \/ i > k
    BY <1>1
  <2>5. QED
    BY <2>1, <2>2, <2>3, <2>4
<1>9. v[1] = [req |-> 1, at |-> 1]
  <2>1. CASE n = 0
    <3>1. k = 0 /\ 1 \in 1..RespLen /\ k + 1 = 1
      BY <1>1, <1>7, <2>1
    <3>2. QED
      BY <1>6, <2>1, <3>1
  <2>2. CASE n # 0
    BY <1>1, <1>5, <1>7, <2>2 DEF InOrder
  <2>3. QED
    BY <2>1, <2>2
<1>10. v[Len(v)] = [req |-> n + 1, at |-> RespLen]
  BY <1>1, <1>4, <1>6
<1>11. v # <<>>
  BY <1>1, <1>4, EmptySeq
<1>13. n + 1 # 0
  OBVIOUS
<1> HIDE DEF v
<1>12. \A i \in 1..Len(v) - 1 : v[i + 1] = NextUnit(v[i])
  <2>1. Len(v) - 1 = k + RespLen - 1
    BY <1>1, <1>4
  <2>2. QED
    BY <1>8, <2>1
<1>14. InOrder(v, n + 1)
  BY <1>9, <1>10, <1>11, <1>12, <1>13 DEF InOrder
<1>15. QED
  BY <1>14 DEF v

\* Writing moves units from the buffer to the kernel, in order and none twice.
LEMMA WriteWire ==
    ASSUME TypeOK, open, NEW out \in Seq(Unit), out # <<>>, NEW closing \in BOOLEAN,
           handleWrite(out, closing, TRUE, FALSE)
    PROVE  Wire' = sent \o out /\ Finished' = generation
<1> USE DEF Wire, Finished
<1>0. sent \in Seq(Unit) /\ generation \in Nat
  BY DEF TypeOK
<1>1. CASE WriteAll(out, closing, FALSE)
  <2>1. sent' = sent \o out /\ output' = <<>> /\ AfterResponse(closing, FALSE, out # <<>>)
    BY <1>1 DEF WriteAll
  <2>2. Wire' = sent \o out
    BY <1>0, <2>1, ConcatProperties, ConcatEmptySeq
  <2>3. CASE NoRequest(input, FALSE)
    BY <2>2, <2>3 DEF NoRequest
  <2>4. CASE ProcessRequest(input)
    BY <1>0, <2>2, <2>4 DEF ProcessRequest
  <2>5. QED
    BY <2>1, <2>3, <2>4 DEF AfterResponse
<1>2. CASE WriteSome(out, closing, TRUE, FALSE)
  <2>1. PICK n \in 0..Len(out) - 1 :
           sent' = sent \o SubSeq(out, 1, n) /\ output' = SubSeq(out, n + 1, Len(out))
    BY <1>2 DEF WriteSome
  <2> DEFINE a == SubSeq(out, 1, n)
             b == SubSeq(out, n + 1, Len(out))
  <2>2. a \in Seq(Unit) /\ b \in Seq(Unit) /\ a \o b = out
    BY SplitOutput
  <2>3. \A p, q, s \in Seq(Unit) : (p \o q) \o s = p \o (q \o s)
    BY ConcatAssociative
  <2> HIDE DEF a, b
  <2>4. (sent \o a) \o b = sent \o out
    BY <1>0, <2>2, <2>3
  <2>5. NoRequest(input, FALSE)
    BY <1>2 DEF WriteSome
  <2>6. QED
    BY <2>1, <2>4, <2>5 DEF NoRequest, a, b
<1>3. CASE WriteFails(out, closing, TRUE, FALSE)
  BY <1>3 DEF WriteFails, NoRequest
<1>4. QED
  BY <1>1, <1>2, <1>3 DEF handleWrite, WriteNothing

\* Every step keeps the responses in order.
LEMMA OrderStep ==
    ASSUME ConnInv, ResponsesInOrder, [Next]_vars
    PROVE  ResponsesInOrder'
<1>0. InOrder(Wire, Finished)
  BY DEF ResponsesInOrder, InOrder
<1>1. SUFFICES InOrder(Wire', Finished')
  BY DEF ResponsesInOrder, InOrder
<1>2. sent \in Seq(Unit) /\ output \in Seq(Unit) /\ generation \in Nat
  BY DEF ConnInv, TypeOK
<1>3. ASSUME UNCHANGED <<sent, output, processing, generation>>
      PROVE  InOrder(Wire', Finished')
  BY <1>0, <1>3 DEF Wire, Finished
<1>4. CASE HandleRead
  <2>1. UNCHANGED <<sent, output>>
    BY <1>4 DEF HandleRead
  <2>2. CASE Quiet /\ ProcessRequest(input + recvq)
    <3>1. Wire' = Wire /\ Finished' = Finished
      BY <1>2, <2>1, <2>2 DEF Wire, Finished, Quiet, ProcessRequest
    <3>2. QED
      BY <1>0, <3>1
  <2>3. CASE NoRequest(input + recvq, processing)
    BY <1>3, <2>1, <2>3 DEF NoRequest
  <2>4. QED
    BY <1>4, <2>2, <2>3 DEF HandleRead
<1>5. CASE HandleWrite
  <2>1. /\ output # <<>> /\ close_after \in BOOLEAN
        /\ handleWrite(output, close_after, response_ready, processing)
    BY <1>5 DEF HandleWrite, ConnInv, OutPending, TypeOK
  <2>2. CASE open
    <3>1. response_ready = TRUE /\ processing = FALSE
      BY <2>1, <2>2 DEF ConnInv, WriteInterest, TypeOK
    <3>2. Wire' = Wire /\ Finished' = generation
      BY <1>2, <2>1, <2>2, <3>1, WriteWire DEF Wire, ConnInv
    <3>3. Finished = generation
      BY <3>1 DEF Finished
    <3>4. QED
      BY <1>0, <3>2, <3>3
  <2>3. CASE ~open
    BY <1>3, <2>1, <2>3, WriteClosed DEF ConnInv
  <2>4. QED
    BY <2>2, <2>3
<1>6. CASE FinishRequest
  <2> DEFINE r == Head(tasks)
             out == output \o Response(r.id)
  <2>1. CASE Accepts(r)
    <3>1. open /\ processing /\ r.id = generation /\ output = <<>> /\ generation > 0
      BY <2>1 DEF Accepts, ConnInv, WriteInterest, Bookkeeping
    <3>2. Response(generation) \in Seq(Unit) /\ Response(generation) # <<>>
      BY <1>2, ResponseType
    <3>3. out = Response(generation)
      BY <3>1, <3>2, ConcatEmptySeq
    <3>4. handleWrite(out, r.close, TRUE, FALSE)
      BY <1>6, <2>1 DEF FinishRequest
    <3>5. r.close \in BOOLEAN
      <4>1. tasks \in Seq(Result) /\ tasks # <<>>
        BY <1>6 DEF FinishRequest, ConnInv, TypeOK
      <4>2. r \in Result
        BY <4>1, HeadTailProperties
      <4>3. QED
        BY <4>2 DEF Result
    <3>6. Wire = sent
      BY <1>2, <3>1, ConcatEmptySeq DEF Wire
    <3>7. Wire' = Wire \o Response(generation) /\ Finished' = generation
      BY <3>1, <3>2, <3>3, <3>4, <3>5, <3>6, WriteWire DEF ConnInv
    <3>8. Finished = generation - 1 /\ Finished \in Nat /\ Finished + 1 = generation
      BY <1>2, <3>1 DEF Finished
    <3>9. InOrder(Wire \o Response(Finished + 1), Finished + 1)
      BY <1>0, <1>2, <3>6, <3>8, AppendResponse
    <3>10. QED
      BY <3>7, <3>8, <3>9
  <2>2. CASE ~Accepts(r)
    BY <1>3, <1>6, <2>2 DEF FinishRequest, connVars, histVars
  <2>3. QED
    BY <2>1, <2>2
<1>7. CASE DispatchConn \/ HandleReadError
  BY <1>3, <1>7 DEF DispatchConn, HandleReadError
<1>8. ASSUME NEW i \in DOMAIN timers, CloseIfIdle(i) PROVE InOrder(Wire', Finished')
  BY <1>3, <1>8 DEF CloseIfIdle
<1>9. ASSUME UNCHANGED <<connVars, histVars>> PROVE InOrder(Wire', Finished')
  BY <1>3, <1>9 DEF connVars, histVars
<1>10. QED
  BY <1>4, <1>5, <1>6, <1>7, <1>8, <1>9
  DEF Next, LoopStep, WorkerStep, ClientStep, WaitReturns, DispatchWakeup, EndDispatch,
      EndTimers, Complete, CompleteAgain, ClientSends, ClientShutsDown, ClientResets,
      ClientReads, Tick, vars

--------------------------------------------------------------------------------
(* The idle close.                                                           *)

\* An idle connection has not been busy since its last activity, and a check of
\* the present generation comes no sooner than a timeout after that.
IdleInv ==
    /\ last_activity <= now /\ last_busy <= now /\ cutoff <= now
    /\ ~isIdle => last_busy = now
    /\ open /\ isIdle => last_busy <= last_activity
    /\ open => \A i \in DOMAIN timers :
                  /\ timers[i].gen <= idle_gen
                  /\ timers[i].gen = idle_gen => timers[i].at >= last_activity + IdleTimeout

\* The types of the numbers in IdleInv.
LEMMA IdleTypes ==
    ASSUME TypeOK
    PROVE  /\ last_activity \in Nat /\ last_busy \in Nat /\ now \in Nat /\ cutoff \in Nat
           /\ idle_gen \in Nat /\ IdleTimeout \in Nat
           /\ timers \in Seq([at : Nat, gen : Nat])
           /\ \A i \in DOMAIN timers : timers[i].at \in Nat /\ timers[i].gen \in Nat
<1>1. /\ last_activity \in Nat /\ last_busy \in Nat /\ now \in Nat /\ cutoff \in Nat
      /\ idle_gen \in Nat /\ IdleTimeout \in Nat
      /\ timers \in Seq([at : Nat, gen : Nat])
  BY TcpAssumption DEF TypeOK, TcpAssumption
<1>2. \A i \in DOMAIN timers : timers[i] \in [at : Nat, gen : Nat]
  BY <1>1, LenProperties, ElementOfSeq
<1>3. QED
  BY <1>1, <1>2

\* A step without activity that leaves the connection as idle as it was, and one
\* that marks activity, which makes every scheduled check stale.
LEMMA ActivityKeeps ==
    ASSUME TypeOK, TypeOK', IdleInv, RecordBusy, open' => open, timers' = timers,
           now' = now, cutoff' <= now,
           \/ /\ last_activity' = last_activity /\ idle_gen' = idle_gen
              /\ open' /\ isIdle' => isIdle
           \/ last_activity' = now /\ idle_gen' = idle_gen + 1
    PROVE  IdleInv'
<1> USE DEF IdleInv
<1>0. /\ last_activity \in Nat /\ last_busy \in Nat /\ now \in Nat /\ cutoff \in Nat
      /\ idle_gen \in Nat /\ IdleTimeout \in Nat
      /\ \A i \in DOMAIN timers : timers[i].at \in Nat /\ timers[i].gen \in Nat
  BY IdleTypes
<1>1. last_busy' <= now' /\ (~isIdle' => last_busy' = now') /\ (isIdle' => last_busy' = last_busy)
  BY <1>0 DEF RecordBusy
<1>2. last_activity' <= now' /\ cutoff' <= now'
  BY <1>0
<1>3. open' /\ isIdle' => last_busy' <= last_activity'
  BY <1>0, <1>1
<1>4. open' => \A i \in DOMAIN timers' :
                  /\ timers'[i].gen <= idle_gen'
                  /\ timers'[i].gen = idle_gen' => timers'[i].at >= last_activity' + IdleTimeout
  BY <1>0
<1>5. QED
  BY <1>1, <1>2, <1>3, <1>4

\* Writing marks activity whenever it leaves an open connection idle.
LEMMA WriteIdle ==
    ASSUME NEW out, out # <<>>, NEW closing, NEW ready, NEW proc,
           handleWrite(out, closing, ready, proc)
    PROVE  /\ timers' = timers /\ now' = now
           /\ open' => open
           /\ \/ last_activity' = last_activity /\ idle_gen' = idle_gen /\ ~(open' /\ isIdle')
              \/ last_activity' = now /\ idle_gen' = idle_gen + 1
<1> USE DEF MarkActivityIf
<1>1. CASE WriteAll(out, closing, proc)
  <2>1. open /\ AfterResponse(closing, proc, out # <<>>)
    BY <1>1 DEF WriteAll
  <2>2. QED
    BY <2>1 DEF AfterResponse, Close, ProcessRequest, isIdle, handleWrite
<1>2. CASE WriteSome(out, closing, ready, proc)
  BY <1>2 DEF WriteSome, StayOpen, isIdle, handleWrite
<1>3. CASE WriteFails(out, closing, ready, proc)
  BY <1>3 DEF WriteFails, Close, handleWrite
<1>4. QED
  BY <1>1, <1>2, <1>3 DEF handleWrite, WriteNothing

\* Every step keeps it.
LEMMA IdleStep == ASSUME ConnInv, IdleInv, [Next]_vars PROVE IdleInv'
<1>0. TypeOK /\ TypeOK' /\ cutoff <= now
  BY TypeStep DEF ConnInv, IdleInv
<1>1. ASSUME UNCHANGED <<input, output, response_ready, processing>>,
             UNCHANGED <<idleVars, now>>, open' => open, cutoff' <= now, RecordBusy
      PROVE  IdleInv'
  BY <1>0, <1>1, ActivityKeeps DEF idleVars, isIdle
<1>2. CASE WaitReturns \/ DispatchWakeup \/ EndTimers
  <2>1. UNCHANGED <<connVars, idleVars, now, cutoff>> /\ RecordBusy
    BY <1>2 DEF WaitReturns, DispatchWakeup, EndTimers, netVars
  <2>2. QED
    BY <1>0, <1>1, <2>1 DEF connVars
<1>3. CASE DispatchConn
  BY <1>0, <1>1, <1>3 DEF DispatchConn, Close, netVars
<1>4. CASE EndDispatch
  <2>1. UNCHANGED <<connVars, idleVars, now>> /\ cutoff' = now /\ RecordBusy
    BY <1>4 DEF EndDispatch, netVars
  <2>2. now <= now
    BY <1>0, IdleTypes
  <2>3. QED
    BY <1>1, <2>1, <2>2 DEF connVars
<1>5. CASE HandleRead
  <2>1. /\ now' = now /\ cutoff' = cutoff /\ RecordBusy /\ timers' = timers
        /\ open /\ MarkActivityIf(recvq > 0) /\ UNCHANGED <<output, response_ready>>
    BY <1>5 DEF HandleRead, Reading, MarkActivityIf, ConnInv, LoopScope
  <2>2. CASE recvq > 0
    BY <1>0, <2>1, <2>2, ActivityKeeps DEF MarkActivityIf
  <2>3. CASE ~(recvq > 0)
    <3>1. recvq = 0 /\ input \in Nat /\ input + recvq = input
      BY <1>0, <2>3 DEF TypeOK
    <3>2. isIdle' => isIdle
      <4>1. CASE ProcessRequest(input + recvq)
        BY <4>1 DEF ProcessRequest, isIdle
      <4>2. CASE NoRequest(input + recvq, processing)
        BY <2>1, <3>1, <4>2 DEF NoRequest, isIdle
      <4>3. QED
        BY <1>5, <4>1, <4>2 DEF HandleRead
    <3>3. QED
      BY <1>0, <2>1, <2>3, <3>2, ActivityKeeps DEF MarkActivityIf
  <2>4. QED
    BY <2>2, <2>3
<1>6. CASE HandleReadError
  BY <1>0, <1>1, <1>6 DEF HandleReadError, Close, netVars
<1>7. CASE HandleWrite
  <2>1. /\ output # <<>> /\ cutoff' = cutoff /\ RecordBusy
        /\ handleWrite(output, close_after, response_ready, processing)
    BY <1>7 DEF HandleWrite, ConnInv, OutPending
  <2>2. QED
    BY <1>0, <2>1, WriteIdle, ActivityKeeps
<1>8. CASE FinishRequest
  <2> DEFINE r == Head(tasks)
             out == output \o Response(r.id)
  <2>1. cutoff' = cutoff /\ RecordBusy
    BY <1>8 DEF FinishRequest
  <2>2. CASE Accepts(r)
    <3>1. handleWrite(out, r.close, TRUE, FALSE)
      BY <1>8, <2>2 DEF FinishRequest
    <3>2. out # <<>>
      <4>1. tasks \in Seq(Result) /\ tasks # <<>>
        BY <1>8 DEF FinishRequest, ConnInv, TypeOK
      <4>2. r \in Result
        BY <4>1, HeadTailProperties
      <4>3. Response(r.id) \in Seq(Unit) /\ Response(r.id) # <<>>
        BY <4>2, ResponseType DEF Result
      <4>4. output \in Seq(Unit)
        BY DEF ConnInv, TypeOK
      <4>5. QED
        BY <4>3, <4>4, ConcatEqualIffEmpty
    <3> HIDE DEF out
    <3>3. QED
      BY <1>0, <2>1, <3>1, <3>2, WriteIdle, ActivityKeeps
  <2>3. CASE ~Accepts(r)
    <3>1. UNCHANGED <<connVars, idleVars, netVars>>
      BY <1>8, <2>3 DEF FinishRequest
    <3>2. QED
      BY <1>0, <1>1, <2>1, <3>1 DEF connVars, netVars
  <2>4. QED
    BY <2>2, <2>3
<1>9. ASSUME NEW i \in DOMAIN timers, CloseIfIdle(i) PROVE IdleInv'
  <2>0. /\ UNCHANGED <<input, output, response_ready, processing, last_activity, idle_gen,
                       now, cutoff>>
        /\ RecordBusy /\ isIdle' = isIdle
    BY <1>9 DEF CloseIfIdle, loopVars, netVars, isIdle
  <2>1. /\ last_activity \in Nat /\ last_busy \in Nat /\ now \in Nat /\ cutoff \in Nat
        /\ idle_gen \in Nat /\ IdleTimeout \in Nat
        /\ timers \in Seq([at : Nat, gen : Nat])
        /\ \A j \in DOMAIN timers : timers[j].at \in Nat /\ timers[j].gen \in Nat
    BY <1>0, IdleTypes
  <2>2. last_busy' <= now' /\ (~isIdle' => last_busy' = now')
        /\ (isIdle' => last_busy' = last_busy)
    BY <2>0, <2>1 DEF RecordBusy, IdleInv
  <2>3. CASE ~open'
    BY <2>0, <2>2, <2>3 DEF IdleInv
  <2>4. CASE open'
    <3>1. PICK at \in Nat : Schedule(i, at) /\ at >= last_activity + IdleTimeout /\ open
      <4>1. now + IdleTimeout \in Nat /\ now + IdleTimeout >= last_activity + IdleTimeout
            /\ last_activity + IdleTimeout \in Nat
            /\ last_activity + IdleTimeout >= last_activity + IdleTimeout
        BY <2>1 DEF IdleInv
      <4>2. QED
        BY <1>9, <2>4, <4>1 DEF CloseIfIdle, Close
    <3>2. /\ DOMAIN timers' = DOMAIN timers
          /\ timers'[i] = [at |-> at, gen |-> idle_gen]
          /\ \A j \in DOMAIN timers : j # i => timers'[j] = timers[j]
      BY <2>1, <3>1 DEF Schedule
    <3>3. \A j \in DOMAIN timers' :
             /\ timers'[j].gen <= idle_gen'
             /\ timers'[j].gen = idle_gen' => timers'[j].at >= last_activity' + IdleTimeout
      <4>1. \A j \in DOMAIN timers : /\ timers[j].gen <= idle_gen
                                     /\ timers[j].gen = idle_gen =>
                                          timers[j].at >= last_activity + IdleTimeout
        BY <3>1 DEF IdleInv
      <4>2. timers'[i].gen = idle_gen /\ timers'[i].at = at /\ idle_gen <= idle_gen
        BY <2>1, <3>2
      <4>3. idle_gen' = idle_gen /\ last_activity' = last_activity
        BY <2>0
      <4>4. ASSUME NEW j \in DOMAIN timers'
            PROVE  /\ timers'[j].gen <= idle_gen'
                   /\ timers'[j].gen = idle_gen' => timers'[j].at >= last_activity' + IdleTimeout
        <5>1. CASE j = i
          BY <3>1, <4>2, <4>3, <5>1
        <5>2. CASE j # i
          BY <3>2, <4>1, <4>3, <5>2
        <5>3. QED
          BY <5>1, <5>2
      <4>5. QED
        BY <4>4
    <3>4. last_activity' <= now' /\ cutoff' <= now'
      <4>1. last_activity <= now /\ cutoff <= now
        BY DEF IdleInv
      <4>2. QED
        BY <2>0, <4>1
    <3>5. open' /\ isIdle' => last_busy' <= last_activity'
      BY <2>0, <2>2, <3>1 DEF IdleInv
    <3>6. QED
      BY <2>2, <3>3, <3>4, <3>5 DEF IdleInv
  <2>5. QED
    BY <2>3, <2>4
<1>10. ASSUME NEW h \in handlers, Complete(h) \/ CompleteAgain(h) PROVE IdleInv'
  <2>1. UNCHANGED <<connVars, idleVars, netVars, loopVars>> /\ RecordBusy
    BY <1>10 DEF Complete, CompleteAgain
  <2>2. QED
    BY <1>0, <1>1, <2>1 DEF connVars, netVars, loopVars
<1>11. CASE ClientStep \/ ClientReads
  <2>1. UNCHANGED <<connVars, idleVars, loopVars, now>> /\ RecordBusy
    BY <1>11 DEF ClientStep, ClientSends, ClientShutsDown, ClientResets, ClientReads
  <2>2. QED
    BY <1>0, <1>1, <2>1 DEF connVars, loopVars
<1>12. CASE Tick
  <2>1. UNCHANGED <<connVars, idleVars, loopVars>> /\ now' = now + 1 /\ RecordBusy
    BY <1>12 DEF Tick
  <2>2. isIdle' = isIdle /\ UNCHANGED <<open, last_activity, idle_gen, timers, cutoff>>
    BY <2>1 DEF connVars, idleVars, loopVars, isIdle
  <2>3. last_busy' = IF isIdle THEN last_busy ELSE now + 1
    BY <2>1, <2>2 DEF RecordBusy
  <2>4. QED
    BY <1>0, <2>1, <2>2, <2>3, IdleTypes DEF IdleInv
<1>13. CASE UNCHANGED vars
  BY <1>13 DEF vars, connVars, idleVars, loopVars, netVars, IdleInv, isIdle
<1>14. QED
  BY <1>2, <1>3, <1>4, <1>5, <1>6, <1>7, <1>8, <1>9, <1>10, <1>11, <1>12, <1>13
  DEF Next, LoopStep, WorkerStep

\* Only the idle check closes for idleness.
LEMMA IdleCloser ==
    ASSUME [Next]_vars, reason # "idle", reason' = "idle"
    PROVE  \E i \in DOMAIN timers : CloseIfIdle(i)
<1>1. ~HandleRead /\ ~HandleReadError /\ ~DispatchConn
  BY DEF HandleRead, HandleReadError, DispatchConn, Close
<1>2. ASSUME NEW out, NEW closing, NEW ready, NEW proc,
             handleWrite(out, closing, ready, proc)
      PROVE  FALSE
  <2>1. \A some : ~AfterResponse(closing, proc, some)
    BY DEF AfterResponse, StayOpen, Close
  <2>2. ~WriteAll(out, closing, proc) /\ ~WriteNothing(out, closing, ready, proc)
    BY <2>1 DEF WriteAll, WriteNothing
  <2>3. ~WriteSome(out, closing, ready, proc) /\ ~WriteFails(out, closing, ready, proc)
    BY DEF WriteSome, WriteFails, StayOpen, Close
  <2>4. QED
    BY <1>2, <2>2, <2>3 DEF handleWrite
<1>3. ~HandleWrite
  BY <1>2 DEF HandleWrite
<1>4. ~FinishRequest
  BY <1>2 DEF FinishRequest, histVars
<1>5. ~UNCHANGED histVars
  BY DEF histVars
<1>6. QED
  BY <1>1, <1>3, <1>4, <1>5
  DEF Next, LoopStep, WorkerStep, ClientStep, WaitReturns, DispatchWakeup, EndDispatch,
      EndTimers, Complete, CompleteAgain, ClientSends, ClientShutsDown, ClientResets,
      ClientReads, Tick, vars

\* It closes only when the check is due.
LEMMA IdleCloseStep ==
    ASSUME ConnInv, IdleInv, [Next]_vars, reason # "idle", reason' = "idle"
    PROVE  isIdle /\ now >= last_busy + IdleTimeout
<1>1. \E i \in DOMAIN timers : CloseIfIdle(i)
  BY IdleCloser
<1>2. PICK i \in DOMAIN timers : CloseIfIdle(i)
  BY <1>1
<1>3. open /\ timers[i].gen = idle_gen /\ isIdle /\ timers[i].at <= cutoff
  BY <1>2 DEF CloseIfIdle
<1>4. /\ last_activity \in Nat /\ last_busy \in Nat /\ now \in Nat /\ cutoff \in Nat
      /\ IdleTimeout \in Nat /\ timers[i].at \in Nat
  BY IdleTypes DEF ConnInv
<1>5. timers[i].at >= last_activity + IdleTimeout /\ last_busy <= last_activity /\ cutoff <= now
  BY <1>3 DEF IdleInv
<1>6. QED
  BY <1>3, <1>4, <1>5

--------------------------------------------------------------------------------
(* Theorems.                                                                 *)

IInv == ConnInv /\ ResponsesInOrder /\ IdleInv

\* The strengthened invariant holds of every connection.
THEOREM Invariance == Spec => []IInv
<1>1. Init => IInv
  <2> SUFFICES ASSUME Init PROVE IInv
    OBVIOUS
  <2>1. TypeOK
    <3>1. [at |-> IdleTimeout, gen |-> 1] \in [at : Nat, gen : Nat]
      BY TcpAssumption DEF TcpAssumption
    <3>2. timers \in Seq([at : Nat, gen : Nat])
      BY <3>1 DEF Init
    <3>3. output \in Seq(Unit) /\ posted \in Seq(Result) /\ tasks \in Seq(Result)
          /\ sent \in Seq(Unit)
      BY EmptySeq DEF Init
    <3>4. last_activity \in 0..MaxTime /\ cutoff \in 0..MaxTime /\ now \in 0..MaxTime
          /\ last_busy \in 0..MaxTime /\ unsent \in 0..MaxInput
      BY TcpAssumption DEF Init, TcpAssumption
    <3>5. QED
      BY <3>2, <3>3, <3>4 DEF Init, TypeOK
  <2>2. LoopScope /\ OutPending /\ WriteInterest /\ Bookkeeping /\ HalfCloseAnswered
        /\ NeverTerminated
    BY DEF Init, LoopScope, OutPending, WriteInterest, Bookkeeping, HalfCloseAnswered,
       NeverTerminated
  <2>3. OneIdleCheck
    BY DEF Init, OneIdleCheck
  <2>4. ResponsesInOrder
    BY DEF Init, ResponsesInOrder, Wire, Finished
  <2>5. IdleInv
    BY TcpAssumption DEF Init, IdleInv, isIdle, TcpAssumption
  <2>6. QED
    BY <2>1, <2>2, <2>3, <2>4, <2>5 DEF IInv, ConnInv
<1>2. IInv /\ [Next]_vars => IInv'
  BY TypeStep, ConnStep, OrderStep, IdleStep DEF IInv, ConnInv, ConnInvariants
<1>3. QED
  BY <1>1, <1>2, PTL DEF Spec

\* The variables of a connection always have their types.
THEOREM TypeCorrect == Spec => []TypeOK
<1>1. IInv => TypeOK
  BY DEF IInv, ConnInv
<1>2. QED
  BY <1>1, Invariance, PTL

\* The client receives whole responses, in order, none twice.
THEOREM ResponsesStayInOrder == Spec => []ResponsesInOrder
<1>1. IInv => ResponsesInOrder
  BY DEF IInv
<1>2. QED
  BY <1>1, Invariance, PTL

\* EPOLLOUT is asked for exactly while output is left.
THEOREM WriteInterestIsExact == Spec => []WriteInterest
<1>1. IInv => WriteInterest
  BY DEF IInv, ConnInv
<1>2. QED
  BY <1>1, Invariance, PTL

\* No event callback modifies a channel that was removed.
THEOREM NoCallbackTerminates == Spec => []NeverTerminated
<1>1. IInv => NeverTerminated
  BY DEF IInv, ConnInv
<1>2. QED
  BY <1>1, Invariance, PTL

\* A client that shuts down its side is answered before the close.
THEOREM HalfClosedIsAnswered == Spec => []HalfCloseAnswered
<1>1. IInv => HalfCloseAnswered
  BY DEF IInv, ConnInv
<1>2. QED
  BY <1>1, Invariance, PTL

\* An open connection has one idle check.
THEOREM IdleCheckIsUnique == Spec => []OneIdleCheck
<1>1. IInv => OneIdleCheck
  BY DEF IInv, ConnInv
<1>2. QED
  BY <1>1, Invariance, PTL

\* An idle close comes after a whole timeout of idleness.
THEOREM IdleCloseIsJustified == Spec => IdleCloseIsDue
<1>1. IInv /\ [Next]_vars =>
        [reason # "idle" /\ reason' = "idle" => isIdle /\ now >= last_busy + IdleTimeout]_vars
  BY IdleCloseStep DEF IInv
<1>2. QED
  BY <1>1, Invariance, PTL DEF Spec, IdleCloseIsDue

--------------------------------------------------------------------------------
(* One request at a time: the refinement of RequestResponse.tla.             *)

\* The number of the last response that s holds in full; LastAnswered is that of
\* sent.
LastIn(s) ==
    IF s = <<>> THEN 0
    ELSE LET b == s[Len(s)]
         IN  IF b.at = RespLen THEN b.req ELSE b.req - 1

\* The units in out are the end of the response to request n.
IsRest(out, n) ==
    /\ Len(out) <= RespLen
    /\ \A i \in 1..Len(out) : out[i] = [req |-> n, at |-> RespLen - Len(out) + i]

\* What is left in the buffer belongs to the response accepted last: no response
\* is appended to another.
OneResponseBuffered == output # <<>> => IsRest(output, Finished)

\* On an ordered wire the part sent tells which response was completed last.
LEMMA LastInIs ==
    ASSUME NEW s \in Seq(Unit), NEW out \in Seq(Unit), NEW n \in Nat,
           InOrder(s \o out, n), out # <<>> => IsRest(out, n)
    PROVE  /\ LastIn(s) = IF out = <<>> THEN n ELSE n - 1
           /\ out # <<>> => n > 0
<1> DEFINE w == s \o out
           k == Len(s)
           m == Len(out)
<1>1. RespLen \in Nat /\ RespLen > 0 /\ k \in Nat /\ m \in Nat
  BY TcpAssumption, LenProperties DEF TcpAssumption
<1>2. /\ w \in Seq(Unit) /\ Len(w) = k + m
      /\ \A i \in 1..k + m : w[i] = IF i <= k THEN s[i] ELSE out[i - k]
  BY ConcatProperties
<1>3. CASE out = <<>>
  <2>1. w = s
    BY <1>3, ConcatEmptySeq
  <2>2. CASE n = 0
    BY <1>3, <2>1, <2>2 DEF InOrder, LastIn
  <2>3. CASE n # 0
    BY <1>3, <2>1, <2>3 DEF InOrder, LastIn
  <2>4. QED
    BY <2>2, <2>3
<1>4. CASE out # <<>>
  <2>1. m > 0
    BY <1>1, <1>4, EmptySeq
  <2>2. w # <<>>
    BY <1>1, <1>2, <2>1, EmptySeq
  <2>3. n > 0 /\ n # 0
    BY <2>2 DEF InOrder
  <2>4. out[1] = [req |-> n, at |-> RespLen - m + 1]
    <3>1. 1 \in 1..m
      BY <1>1, <2>1
    <3>2. QED
      BY <1>4, <3>1 DEF IsRest
  <2>5. w[k + 1] = out[1]
    <3>1. k + 1 \in 1..k + m /\ ~(k + 1 <= k) /\ (k + 1) - k = 1
      BY <1>1, <2>1
    <3>2. QED
      BY <1>2, <3>1
  <2>6. CASE s = <<>>
    <3>1. k = 0
      BY <2>6, EmptySeq
    <3>2. w[1] = out[1]
      <4>1. k + 1 = 1
        BY <3>1
      <4> HIDE DEF w, k
      <4>2. QED
        BY <2>5, <4>1
    <3>3. w[1] = [req |-> 1, at |-> 1]
      BY <2>3 DEF InOrder
    <3> HIDE DEF w
    <3>4. n = 1
      BY <2>4, <3>2, <3>3
    <3>5. QED
      BY <1>4, <2>6, <3>4 DEF LastIn
  <2>7. CASE s # <<>>
    <3> DEFINE b == s[k]
    <3>1. k > 0 /\ k \in 1..k /\ k \in 1..k + m /\ k \in 1..k + m - 1 /\ k <= k
      BY <1>1, <2>1, <2>7, EmptySeq
    <3>2. b \in Unit
      BY <3>1, ElementOfSeq
    <3>3. w[k] = b
      BY <1>2, <3>1
    <3>4. w[k + 1] = NextUnit(w[k])
      BY <1>2, <3>1 DEF InOrder
    <3> HIDE DEF w
    <3>5. NextUnit(b) = [req |-> n, at |-> RespLen - m + 1]
      BY <2>4, <2>5, <3>3, <3>4
    <3>6. b.req \in Nat /\ b.at \in 1..RespLen /\ b = [req |-> b.req, at |-> b.at]
      BY <3>2 DEF Unit
    <3> HIDE DEF b
    <3>7. b.at < RespLen => b.req = n
      <4>1. b.at < RespLen => NextUnit(b).req = b.req
        BY <3>6 DEF NextUnit
      <4>2. QED
        BY <3>5, <4>1
    <3>8. b.at = RespLen => b.req = n - 1
      <4>1. b.at = RespLen => NextUnit(b) = [req |-> b.req + 1, at |-> 1]
        BY <1>1, <3>6 DEF NextUnit
      <4>2. b.at = RespLen => b.req + 1 = n
        BY <3>5, <4>1
      <4>3. QED
        BY <3>6, <4>2
    <3>9. LastIn(s) = IF b.at = RespLen THEN b.req ELSE b.req - 1
      BY <2>7 DEF LastIn, b
    <3>10. b.at < RespLen \/ b.at = RespLen
      BY <1>1, <3>6
    <3>11. LastIn(s) = n - 1
      BY <1>1, <3>6, <3>7, <3>8, <3>9, <3>10
    <3>12. QED
      BY <1>4, <2>3, <3>11
  <2>8. QED
    BY <2>6, <2>7
<1>5. QED
  BY <1>3, <1>4

\* The number of the last response sent, from what is left in the buffer.
LEMMA AnsweredIs ==
    ASSUME ConnInv, ResponsesInOrder, OneResponseBuffered
    PROVE  /\ LastIn(sent) = IF output = <<>> THEN Finished ELSE Finished - 1
           /\ output # <<>> => Finished > 0
<1>1. sent \in Seq(Unit) /\ output \in Seq(Unit) /\ Finished \in Nat
  BY DEF ConnInv, TypeOK, Bookkeeping, Finished
<1>2. InOrder(sent \o output, Finished)
  BY DEF ResponsesInOrder, InOrder, Wire
<1>3. output # <<>> => IsRest(output, Finished)
  BY DEF OneResponseBuffered
<1>4. QED
  BY <1>1, <1>2, <1>3, LastInIs

\* A response is the end of itself, and what follows a part of a rest is a rest.
LEMMA RestOf ==
    ASSUME NEW n \in Nat
    PROVE  /\ IsRest(Response(n), n)
           /\ \A out \in Seq(Unit) : \A k \in 0..Len(out) - 1 :
                 IsRest(out, n) => IsRest(SubSeq(out, k + 1, Len(out)), n)
<1>1. RespLen \in Nat
  BY TcpAssumption DEF TcpAssumption
<1>2. IsRest(Response(n), n)
  <2>1. Len(Response(n)) = RespLen
    BY ResponseType
  <2>2. \A i \in 1..RespLen : Response(n)[i] = [req |-> n, at |-> i]
    BY DEF Response
  <2>3. \A i \in 1..RespLen : RespLen - RespLen + i = i
    BY <1>1
  <2>4. QED
    BY <1>1, <2>1, <2>2, <2>3 DEF IsRest
<1>3. ASSUME NEW out \in Seq(Unit), NEW k \in 0..Len(out) - 1, IsRest(out, n)
      PROVE  IsRest(SubSeq(out, k + 1, Len(out)), n)
  <2> DEFINE r == SubSeq(out, k + 1, Len(out))
             m == Len(out)
  <2>1. m \in Nat /\ k \in Nat /\ k < m
    BY LenProperties
  <2>2. \A i \in k + 1..m : out[i] \in Unit
    BY <2>1, ElementOfSeq
  <2>3. /\ Len(r) = m - k
        /\ \A i \in 1..m - k : r[i] = out[k + i]
    <3>1. k + 1 \in Int /\ m \in Int /\ k + 1 <= m /\ m - (k + 1) + 1 = m - k
          /\ \A i \in 1..m - k : (k + 1) + i - 1 = k + i
      BY <2>1
    <3>2. QED
      BY <2>2, <3>1, SubSeqProperties
  <2> HIDE DEF r
  <2>4. ASSUME NEW i \in 1..m - k
        PROVE  r[i] = [req |-> n, at |-> RespLen - (m - k) + i]
    <3>1. k + i \in 1..m /\ RespLen - m + (k + i) = RespLen - (m - k) + i
      BY <1>1, <2>1
    <3>2. out[k + i] = [req |-> n, at |-> RespLen - m + (k + i)]
      BY <1>3, <3>1 DEF IsRest
    <3>3. QED
      BY <2>3, <3>1, <3>2
  <2>5. m - k <= RespLen
    BY <1>1, <1>3, <2>1 DEF IsRest
  <2>6. IsRest(r, n)
    BY <2>3, <2>4, <2>5 DEF IsRest
  <2>7. QED
    BY <2>6 DEF r
<1>4. QED
  BY <1>2, <1>3

\* Writing leaves the end of the response it was given.
LEMMA RestWrite ==
    ASSUME TypeOK, open, NEW out \in Seq(Unit), out # <<>>, NEW closing \in BOOLEAN,
           IsRest(out, generation), handleWrite(out, closing, TRUE, FALSE)
    PROVE  OneResponseBuffered'
<1> USE DEF OneResponseBuffered
<1>1. Finished' = generation /\ generation \in Nat
  BY WriteWire DEF TypeOK
<1>2. CASE WriteAll(out, closing, FALSE)
  BY <1>2 DEF WriteAll
<1>3. CASE WriteSome(out, closing, TRUE, FALSE)
  <2>1. PICK k \in 0..Len(out) - 1 : output' = SubSeq(out, k + 1, Len(out))
    BY <1>3 DEF WriteSome
  <2>2. QED
    BY <1>1, <2>1, RestOf
<1>4. CASE WriteFails(out, closing, TRUE, FALSE)
  BY <1>1, <1>4 DEF WriteFails
<1>5. QED
  BY <1>2, <1>3, <1>4 DEF handleWrite, WriteNothing

\* What finishRequest gives to handleWrite when it accepts a result.
LEMMA AcceptedIs ==
    ASSUME ConnInv, FinishRequest, Accepts(Head(tasks))
    PROVE  /\ open /\ output = <<>> /\ Finished = generation - 1 /\ generation > 0
           /\ Response(generation) \in Seq(Unit) /\ Response(generation) # <<>>
           /\ Head(tasks).close \in BOOLEAN
           /\ handleWrite(Response(generation), Head(tasks).close, TRUE, FALSE)
<1>1. open /\ processing /\ Head(tasks).id = generation /\ output = <<>> /\ generation > 0
  BY DEF Accepts, ConnInv, WriteInterest, Bookkeeping
<1>2. generation \in Nat
  BY DEF ConnInv, TypeOK
<1>3. Response(generation) \in Seq(Unit) /\ Response(generation) # <<>>
  BY <1>2, ResponseType
<1>4. output \o Response(generation) = Response(generation)
  BY <1>1, <1>3, ConcatEmptySeq
<1>5. Head(tasks).close \in BOOLEAN
  <2>1. tasks \in Seq(Result) /\ tasks # <<>>
    BY DEF FinishRequest, ConnInv, TypeOK
  <2>2. Head(tasks) \in Result
    BY <2>1, HeadTailProperties
  <2>3. QED
    BY <2>2 DEF Result
<1>6. QED
  BY <1>1, <1>3, <1>4, <1>5 DEF FinishRequest, Finished

\* What EPOLLOUT finds on an open connection.
LEMMA WritingIs ==
    ASSUME ConnInv, HandleWrite, open
    PROVE  /\ output \in Seq(Unit) /\ output # <<>> /\ Finished = generation
           /\ close_after \in BOOLEAN /\ handleWrite(output, close_after, TRUE, FALSE)
<1>1. /\ output # <<>> /\ close_after \in BOOLEAN /\ output \in Seq(Unit)
      /\ handleWrite(output, close_after, response_ready, processing)
  BY DEF HandleWrite, ConnInv, OutPending, TypeOK
<1>2. response_ready = TRUE /\ processing = FALSE
  BY <1>1 DEF ConnInv, WriteInterest, TypeOK
<1>3. QED
  BY <1>1, <1>2 DEF Finished

\* Every step keeps at most one response in the buffer.
LEMMA RestStep ==
    ASSUME ConnInv, OneResponseBuffered, [Next]_vars
    PROVE  OneResponseBuffered'
<1>1. ASSUME UNCHANGED <<output, processing, generation>> PROVE OneResponseBuffered'
  BY <1>1 DEF OneResponseBuffered, Finished
<1>2. CASE HandleRead
  <2>1. output' = output
    BY <1>2 DEF HandleRead
  <2>2. CASE Quiet /\ ProcessRequest(input + recvq)
    <3>1. open /\ output = <<>>
      BY <1>2, <2>2
      DEF HandleRead, Reading, Quiet, ConnInv, LoopScope, WriteInterest
    <3>2. QED
      BY <2>1, <3>1 DEF OneResponseBuffered
  <2>3. CASE NoRequest(input + recvq, processing)
    BY <1>1, <2>1, <2>3 DEF NoRequest
  <2>4. QED
    BY <1>2, <2>2, <2>3 DEF HandleRead
<1>3. CASE HandleWrite
  <2>1. CASE open
    <3>1. IsRest(output, generation)
      BY <1>3, <2>1, WritingIs DEF OneResponseBuffered
    <3>2. QED
      BY <1>3, <2>1, <3>1, WritingIs, RestWrite DEF ConnInv
  <2>2. CASE ~open
    <3>1. output # <<>> /\ handleWrite(output, close_after, response_ready, processing)
      BY <1>3 DEF HandleWrite, ConnInv, OutPending
    <3>2. QED
      BY <1>1, <2>2, <3>1, WriteClosed DEF ConnInv
  <2>3. QED
    BY <2>1, <2>2
<1>4. CASE FinishRequest
  <2>1. CASE Accepts(Head(tasks))
    <3>1. IsRest(Response(generation), generation)
      BY RestOf DEF ConnInv, TypeOK
    <3>2. QED
      BY <1>4, <2>1, <3>1, AcceptedIs, RestWrite DEF ConnInv
  <2>2. CASE ~Accepts(Head(tasks))
    BY <1>1, <1>4, <2>2 DEF FinishRequest, connVars
  <2>3. QED
    BY <2>1, <2>2
<1>5. CASE DispatchConn \/ HandleReadError
  BY <1>1, <1>5 DEF DispatchConn, HandleReadError
<1>6. ASSUME NEW i \in DOMAIN timers, CloseIfIdle(i) PROVE OneResponseBuffered'
  BY <1>1, <1>6 DEF CloseIfIdle
<1>7. ASSUME UNCHANGED connVars PROVE OneResponseBuffered'
  BY <1>1, <1>7 DEF connVars
<1>8. QED
  BY <1>2, <1>3, <1>4, <1>5, <1>6, <1>7
  DEF Next, LoopStep, WorkerStep, ClientStep, WaitReturns, DispatchWakeup, EndDispatch,
      EndTimers, Complete, CompleteAgain, ClientSends, ClientShutsDown, ClientResets,
      ClientReads, Tick, vars

\* Writing a response answers a request, closes, or shows the client nothing yet.
LEMMA WriteRefines ==
    ASSUME open = TRUE, generation \in Nat, generation > 0, NEW out, out # <<>>, NEW closing,
           handleWrite(out, closing, TRUE, FALSE),
           LastIn(sent) = generation - 1, Finished' = generation,
           LastIn(sent') = IF output' = <<>> THEN Finished' ELSE Finished' - 1,
           WriteSome(out, closing, TRUE, FALSE) => output' # <<>>
    PROVE  \/ RR!Answer \/ RR!Close
           \/ UNCHANGED <<generation, open>> /\ LastIn(sent') = LastIn(sent)
<1>0. LastAnswered = LastIn(sent) /\ LastAnswered' = LastIn(sent')
  BY DEF LastAnswered, LastIn
<1>1. CASE WriteAll(out, closing, FALSE)
  <2>1. output' = <<>> /\ AfterResponse(closing, FALSE, out # <<>>)
    BY <1>1 DEF WriteAll
  <2>2. LastAnswered < generation /\ LastAnswered' = LastAnswered + 1
    BY <1>0, <2>1
  <2>3. \/ generation' = generation /\ open' = FALSE
        \/ generation' = generation /\ open' = TRUE
        \/ generation' = generation + 1 /\ open' = TRUE
    BY <2>1 DEF AfterResponse, NoRequest, ProcessRequest, Close, StayOpen
  <2>4. generation' \in {generation, generation + 1}
    BY <2>3
  <2>5. open' \in {TRUE, generation' # generation}
    <3>1. CASE open' = TRUE
      BY <3>1
    <3>2. CASE open' = FALSE
      <4>1. (generation' # generation) = FALSE
        BY <2>3, <3>2
      <4>2. QED
        BY <3>2, <4>1
    <3>3. QED
      BY <2>3, <3>1, <3>2
  <2>6. QED
    BY <2>2, <2>4, <2>5 DEF RR!Answer
<1>2. CASE WriteSome(out, closing, TRUE, FALSE)
  BY <1>2 DEF WriteSome, StayOpen, NoRequest
<1>3. CASE WriteFails(out, closing, TRUE, FALSE)
  <2>1. open' = FALSE /\ UNCHANGED <<generation, sent>>
    BY <1>3 DEF WriteFails, NoRequest, Close
  <2>2. LastAnswered' = LastAnswered
    BY <1>0, <2>1
  <2>3. QED
    BY <2>1, <2>2 DEF RR!Close
<1>4. QED
  BY <1>1, <1>2, <1>3 DEF handleWrite, WriteNothing

\* A partial write leaves something in the buffer.
LEMMA SomeIsLeft ==
    ASSUME NEW out \in Seq(Unit), NEW closing, NEW ready, NEW proc,
           WriteSome(out, closing, ready, proc)
    PROVE  output' # <<>>
<1>1. PICK n \in 0..Len(out) - 1 : output' = SubSeq(out, n + 1, Len(out))
  BY DEF WriteSome
<1>2. QED
  BY <1>1, SplitOutput

\* Every step is one of the protocol's, or does not show.
LEMMA RefineStep ==
    ASSUME ConnInv, ResponsesInOrder, OneResponseBuffered, [Next]_vars,
           ConnInv', ResponsesInOrder', OneResponseBuffered'
    PROVE  [RR!Next]_RR!vars
<1> USE DEF RR!vars
<1>0. LastAnswered = LastIn(sent) /\ LastAnswered' = LastIn(sent')
  BY DEF LastAnswered, LastIn
<1>1. /\ LastIn(sent) = IF output = <<>> THEN Finished ELSE Finished - 1
      /\ output # <<>> => Finished > 0
      /\ generation \in Nat
  BY AnsweredIs DEF ConnInv, TypeOK
<1>2. LastIn(sent') = IF output' = <<>> THEN Finished' ELSE Finished' - 1
  <2>1. sent' \in Seq(Unit) /\ output' \in Seq(Unit) /\ Finished' \in Nat
    <3>1. sent' \in Seq(Unit) /\ output' \in Seq(Unit)
      BY DEF ConnInv, TypeOK
    <3>2. generation' \in Nat /\ processing' \in BOOLEAN
      BY DEF ConnInv, TypeOK
    <3>3. processing' => generation' > 0
      BY DEF ConnInv, Bookkeeping
    <3>4. Finished' \in Nat
      <4>1. Finished' = IF processing' THEN generation' - 1 ELSE generation'
        BY DEF Finished
      <4>2. \A p \in BOOLEAN, g \in Nat : (p => g > 0) => (IF p THEN g - 1 ELSE g) \in Nat
        OBVIOUS
      <4>3. QED
        BY <3>2, <3>3, <4>1, <4>2
    <3>5. QED
      BY <3>1, <3>4
  <2>2. InOrder(sent' \o output', Finished')
    BY DEF ResponsesInOrder, InOrder, Wire
  <2>3. output' # <<>> => IsRest(output', Finished')
    BY DEF OneResponseBuffered
  <2>4. QED
    BY <2>1, <2>2, <2>3, LastInIs
<1>3. ASSUME UNCHANGED <<sent, generation, open>> PROVE [RR!Next]_RR!vars
  BY <1>0, <1>3
<1>4. ASSUME open, open' = FALSE, UNCHANGED <<sent, generation>> PROVE [RR!Next]_RR!vars
  BY <1>0, <1>4 DEF RR!Next, RR!Close
<1>5. CASE HandleRead
  <2>1. open /\ UNCHANGED sent
    BY <1>5 DEF HandleRead, Reading, ConnInv, LoopScope
  <2>2. CASE Quiet /\ ProcessRequest(input + recvq) /\ open' = open
    <3>1. output = <<>> /\ Finished = generation /\ generation' = generation + 1
      BY <2>1, <2>2 DEF Quiet, ProcessRequest, Finished, ConnInv, WriteInterest
    <3>2. LastAnswered = generation /\ LastAnswered' = LastAnswered
      BY <1>0, <1>1, <2>1, <3>1
    <3>3. QED
      BY <2>1, <2>2, <3>1, <3>2 DEF RR!Next, RR!Take
  <2>3. CASE Close("peer") /\ NoRequest(input + recvq, processing)
    BY <1>4, <2>1, <2>3 DEF Close, NoRequest
  <2>4. CASE open' = open /\ NoRequest(input + recvq, processing)
    BY <1>3, <2>1, <2>4 DEF NoRequest
  <2>5. QED
    BY <1>5, <2>2, <2>3, <2>4 DEF HandleRead
<1>6. ASSUME open, NEW out \in Seq(Unit), out # <<>>, NEW closing \in BOOLEAN,
             handleWrite(out, closing, TRUE, FALSE),
             LastIn(sent) = generation - 1, generation > 0
      PROVE  [RR!Next]_RR!vars
  <2>1. open = TRUE /\ Finished' = generation
    BY <1>6, WriteWire DEF ConnInv, TypeOK
  <2>2. WriteSome(out, closing, TRUE, FALSE) => output' # <<>>
    BY SomeIsLeft
  <2>3. \/ RR!Answer \/ RR!Close
        \/ UNCHANGED <<generation, open>> /\ LastIn(sent') = LastIn(sent)
    BY <1>1, <1>2, <1>6, <2>1, <2>2, WriteRefines
  <2>4. QED
    BY <1>0, <2>3 DEF RR!Next
<1>7. CASE HandleWrite
  <2>1. CASE open
    <3>1. /\ output \in Seq(Unit) /\ output # <<>> /\ Finished = generation
          /\ close_after \in BOOLEAN /\ handleWrite(output, close_after, TRUE, FALSE)
      BY <1>7, <2>1, WritingIs
    <3>2. LastIn(sent) = generation - 1 /\ generation > 0
      BY <1>1, <3>1
    <3>3. QED
      BY <1>6, <2>1, <3>1, <3>2
  <2>2. CASE ~open
    <3>1. output # <<>> /\ handleWrite(output, close_after, response_ready, processing)
      BY <1>7 DEF HandleWrite, ConnInv, OutPending
    <3>2. QED
      BY <1>3, <2>2, <3>1, WriteClosed DEF ConnInv
  <2>3. QED
    BY <2>1, <2>2
<1>8. CASE FinishRequest
  <2>1. CASE Accepts(Head(tasks))
    <3>1. /\ open /\ output = <<>> /\ Finished = generation - 1 /\ generation > 0
          /\ Response(generation) \in Seq(Unit) /\ Response(generation) # <<>>
          /\ Head(tasks).close \in BOOLEAN
          /\ handleWrite(Response(generation), Head(tasks).close, TRUE, FALSE)
      BY <1>8, <2>1, AcceptedIs
    <3>2. LastIn(sent) = generation - 1
      BY <1>1, <3>1
    <3>3. QED
      BY <1>6, <3>1, <3>2
  <2>2. CASE ~Accepts(Head(tasks))
    BY <1>3, <1>8, <2>2 DEF FinishRequest, connVars, histVars
  <2>3. QED
    BY <2>1, <2>2
<1>9. CASE DispatchConn
  BY <1>3, <1>4, <1>9 DEF DispatchConn, Close
<1>10. CASE HandleReadError
  <2>1. open
    BY <1>10 DEF HandleReadError, Reading, ConnInv, LoopScope
  <2>2. QED
    BY <1>4, <1>10, <2>1 DEF HandleReadError, Close
<1>11. ASSUME NEW i \in DOMAIN timers, CloseIfIdle(i) PROVE [RR!Next]_RR!vars
  BY <1>3, <1>4, <1>11 DEF CloseIfIdle, Close
<1>12. ASSUME UNCHANGED <<connVars, histVars>> PROVE [RR!Next]_RR!vars
  BY <1>3, <1>12 DEF connVars, histVars
<1>13. QED
  BY <1>5, <1>7, <1>8, <1>9, <1>10, <1>11, <1>12
  DEF Next, LoopStep, WorkerStep, ClientStep, WaitReturns, DispatchWakeup, EndDispatch,
      EndTimers, Complete, CompleteAgain, ClientSends, ClientShutsDown, ClientResets,
      ClientReads, Tick, vars

\* At most one response is buffered, and it is that of the last request accepted.
THEOREM BufferInvariance == Spec => []OneResponseBuffered
<1>1. Init => OneResponseBuffered
  BY DEF Init, OneResponseBuffered
<1>2. IInv /\ OneResponseBuffered /\ [Next]_vars => OneResponseBuffered'
  BY RestStep DEF IInv
<1>3. QED
  BY <1>1, <1>2, Invariance, PTL DEF Spec

\* A connection implements the protocol of RequestResponse.tla: the client's requests
\* are taken one at a time, and each is answered before the next is taken
\* (handleRead, handleWrite, finishRequest).
THEOREM ImplementsRequestResponse == Spec => OneRequestAtATime
<1>1. Init => RR!Init
  BY DEF Init, RR!Init, LastAnswered
<1>2. IInv /\ OneResponseBuffered /\ [Next]_vars /\ IInv' /\ OneResponseBuffered'
        => [RR!Next]_RR!vars
  BY RefineStep DEF IInv
<1>3. QED
  BY <1>1, <1>2, Invariance, BufferInvariance, PTL DEF Spec, OneRequestAtATime, RR!Spec

--------------------------------------------------------------------------------
(* Input before timers.                                                      *)

\* In an iteration, what the socket holds of an open connection came after
\* epoll_wait, or is reported and handleRead has still to run.
InputReported ==
    open /\ pc # "wait" =>
        \/ recvq <= late
        \/ "conn" \in batch /\ "IN" \in revents
        \/ "IN" \in handling

\* Every step keeps it: WaitReturns establishes it, handleRead empties the queue.
LEMMA ReportedStep ==
    ASSUME ConnInv, InputReported, [Next]_vars
    PROVE  InputReported'
<1> USE DEF InputReported
<1>0. recvq \in Nat /\ late \in Nat /\ MaxInput \in Nat
  BY TcpAssumption DEF ConnInv, TypeOK, TcpAssumption
<1>1. ASSUME UNCHANGED <<recvq, late, pc, batch, revents>>, open' => open,
             open' /\ "IN" \in handling => "IN" \in handling'
      PROVE  InputReported'
  BY <1>1
<1>2. CASE WaitReturns
  <2>1. open' = open /\ recvq' = recvq /\ late' = 0
    BY <1>2 DEF WaitReturns, connVars
  <2>2. CASE open /\ recvq > 0
    <3>1. "IN" \in interest
      BY <2>2 DEF ConnInv, WriteInterest
    <3>2. "IN" \in Reported
      BY <2>2, <3>1 DEF Reported
    <3>3. "IN" \in revents' /\ "conn" \in batch'
      BY <1>2, <2>2, <3>2 DEF WaitReturns
    <3>4. QED
      BY <3>3
  <2>3. CASE ~open \/ ~(recvq > 0)
    BY <1>0, <2>1, <2>3
  <2>4. QED
    BY <2>2, <2>3
<1>3. CASE DispatchWakeup
  BY <1>3 DEF DispatchWakeup, connVars, netVars
<1>4. CASE DispatchConn
  <2>1. UNCHANGED <<recvq, late, pc, revents>> /\ handling = {}
    BY <1>4 DEF DispatchConn, Dispatching, netVars
  <2>2. CASE open /\ "ERR" \in revents
    BY <1>4, <2>2 DEF DispatchConn, Close
  <2>3. CASE ~(open /\ "ERR" \in revents)
    <3>1. open' = open /\ (open /\ "IN" \in revents => "IN" \in handling')
      BY <1>4, <2>3 DEF DispatchConn
    <3>2. QED
      BY <2>1, <3>1
  <2>4. QED
    BY <2>2, <2>3
<1>5. CASE EndDispatch
  <2>1. UNCHANGED <<recvq, late, open, batch, revents, handling>> /\ pc = "dispatch"
    BY <1>5 DEF EndDispatch, Dispatching, connVars, netVars
  <2>2. QED
    BY <2>1
<1>6. CASE EndTimers
  BY <1>6 DEF EndTimers
<1>7. CASE HandleRead
  BY <1>7 DEF HandleRead
<1>8. CASE HandleReadError
  BY <1>8 DEF HandleReadError, Close
<1>9. CASE HandleWrite
  <2>1. /\ UNCHANGED <<recvq, late, pc, batch, revents>>
        /\ handling' = handling \ {"OUT"}
        /\ output # <<>> /\ handleWrite(output, close_after, response_ready, processing)
    BY <1>9 DEF HandleWrite, handleWrite, ConnInv, OutPending
  <2>2. open' => open
    BY <2>1, WriteIdle
  <2>3. QED
    BY <1>1, <2>1, <2>2
<1>10. CASE FinishRequest
  <2>1. UNCHANGED <<pc, batch, revents, handling>>
    BY <1>10 DEF FinishRequest
  <2>2. CASE Accepts(Head(tasks))
    <3>1. open /\ UNCHANGED <<recvq, late>>
      BY <1>10, <2>2 DEF FinishRequest, Accepts, handleWrite
    <3>2. QED
      BY <1>1, <2>1, <3>1
  <2>3. CASE ~Accepts(Head(tasks))
    BY <1>1, <1>10, <2>1, <2>3 DEF FinishRequest, connVars, netVars
  <2>4. QED
    BY <2>2, <2>3
<1>11. ASSUME NEW i \in DOMAIN timers, CloseIfIdle(i) PROVE InputReported'
  BY <1>1, <1>11 DEF CloseIfIdle, Close, loopVars, netVars
<1>12. ASSUME NEW h \in handlers, Complete(h) \/ CompleteAgain(h) PROVE InputReported'
  BY <1>12 DEF Complete, CompleteAgain, connVars, loopVars, netVars
<1>13. ASSUME NEW n \in 1..MaxInput, ClientSends(n) PROVE InputReported'
  <2>1. /\ recvq' = recvq + n /\ late' = late + n
        /\ UNCHANGED <<open, pc, batch, revents, handling>>
    BY <1>13 DEF ClientSends, connVars, loopVars
  <2>2. n \in Nat /\ (recvq <= late => recvq' <= late')
    BY <1>0, <2>1
  <2>3. QED
    BY <2>1, <2>2
<1>14. CASE ClientShutsDown \/ ClientResets \/ ClientReads \/ Tick
  BY <1>14
  DEF ClientShutsDown, ClientResets, ClientReads, Tick, connVars, loopVars
<1>15. CASE UNCHANGED vars
  BY <1>15 DEF vars, connVars, loopVars, netVars
<1>16. QED
  BY <1>2, <1>3, <1>4, <1>5, <1>6, <1>7, <1>8, <1>9, <1>10, <1>11, <1>12, <1>13, <1>14, <1>15
  DEF Next, LoopStep, WorkerStep, ClientStep

\* The idle close runs after the events of its iteration, when nothing is left to read.
LEMMA IdleCloseReads ==
    ASSUME ConnInv, InputReported, [Next]_vars, reason # "idle", reason' = "idle"
    PROVE  recvq <= late
<1>1. PICK i \in DOMAIN timers : CloseIfIdle(i)
  BY IdleCloser
<1>2. open /\ pc = "timers"
  BY <1>1 DEF CloseIfIdle
<1>3. batch = {} /\ handling = {}
  BY <1>2 DEF ConnInv, LoopScope
<1>4. QED
  BY <1>2, <1>3 DEF InputReported

\* In every iteration the input reported is read before the timers run.
THEOREM InputInvariance == Spec => []InputReported
<1>1. Init => InputReported
  BY DEF Init, InputReported
<1>2. IInv /\ InputReported /\ [Next]_vars => InputReported'
  BY ReportedStep DEF IInv
<1>3. QED
  BY <1>1, <1>2, Invariance, PTL DEF Spec

\* An idle close never passes over input that epoll_wait could have reported
\* (EventLoop.cpp, loop: events, then timers).
THEOREM IdleCloseReadsFirst == Spec => IdleCloseMissesNothing
<1>1. IInv /\ InputReported /\ [Next]_vars =>
        [reason # "idle" /\ reason' = "idle" => recvq <= late]_vars
  BY IdleCloseReads DEF IInv
<1>2. QED
  BY <1>1, Invariance, InputInvariance, PTL DEF Spec, IdleCloseMissesNothing
================================================================================
