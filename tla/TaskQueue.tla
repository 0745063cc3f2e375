------------------------------- MODULE TaskQueue -------------------------------
(* What EventLoop::queueInLoop promises its callers (src/net/EventLoop.h):   *)
(* a task handed over by any thread is run by the loop thread, at most once, *)
(* after every task handed over before it; once the loop has stopped nothing *)
(* more is run, and what is still queued is dropped.  How the threads meet   *)
(* (mutex, eventfd, epoll) is not visible here: EventLoop.tla implements it. *)
EXTENDS Sequences, SequencesExt

CONSTANT Task        \* the tasks that may be handed over, each once

VARIABLES queue,     \* tasks handed over and not started
          ran,       \* tasks started, oldest first
          stopped    \* the loop has returned

vars == <<queue, ran, stopped>>

Init ==
    /\ queue = <<>>
    /\ ran = <<>>
    /\ stopped = FALSE

Submit(t) ==
    /\ t \notin ToSet(queue) \cup ToSet(ran)
    /\ queue' = Append(queue, t)
    /\ UNCHANGED <<ran, stopped>>

Run ==
    /\ ~stopped
    /\ queue # <<>>
    /\ ran' = Append(ran, Head(queue))
    /\ queue' = Tail(queue)
    /\ UNCHANGED stopped

Stop ==
    /\ ~stopped
    /\ stopped' = TRUE
    /\ UNCHANGED <<queue, ran>>

Next == (\E t \in Task : Submit(t)) \/ Run \/ Stop

Spec == Init /\ [][Next]_vars /\ WF_vars(Run)
================================================================================
