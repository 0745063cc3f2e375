---------------------------- MODULE RequestResponse ----------------------------
(* What one connection promises its client: requests are taken one at a time *)
(* and in order, each is answered before the next is taken, and nothing is   *)
(* answered after the connection was closed.  The counters number requests   *)
(* and responses on the wire; TcpConnection.tla implements this.             *)
EXTENDS Naturals

VARIABLES taken,     \* requests taken from the input
          answered,  \* responses completely handed to the kernel
          open       \* the connection is open

vars == <<taken, answered, open>>

Init ==
    /\ taken = 0
    /\ answered = 0
    /\ open = TRUE

Take ==
    /\ open
    /\ taken = answered
    /\ taken' = taken + 1
    /\ UNCHANGED <<answered, open>>

\* A pipelined request is taken, or the connection closed, in the same step.
Answer ==
    /\ open
    /\ answered < taken
    /\ answered' = answered + 1
    /\ taken' \in {taken, taken + 1}
    /\ open' \in {TRUE, taken' # taken}

Close ==
    /\ open
    /\ open' = FALSE
    /\ UNCHANGED <<taken, answered>>

Next == Take \/ Answer \/ Close

Spec == Init /\ [][Next]_vars
================================================================================
