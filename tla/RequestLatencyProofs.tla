-------------------------- MODULE RequestLatencyProofs --------------------------
(* The spans that complete() adds are never negative, and the counters are   *)
(* those of the requests completed, for any number of requests and any       *)
(* clock.                                                                    *)
EXTENDS RequestLatency, FiniteSetTheorems, TLAPS

IoPlace == {"idle", "begun", "queued", "returned", "writing", "adding", "loading",
            "exchanging", "done", "abandoned"}
WorkPlace == {"none", "submitted", "started", "finished"}

\* Marks are taken from a clock that never goes back.
MarksTyped ==
    /\ now \in Nat
    /\ io \in [Request -> IoPlace]
    /\ work \in [Request -> WorkPlace]
    /\ at \in [Request -> [Mark -> Nat]]
    /\ \A r \in Request : \A m \in Mark : at[r][m] <= now

\* Which marks are in order depends on how far both threads have come; a worker
\* has a request only after it was marked as queued.
MarksOrdered(r) ==
    /\ work[r] # "none" => io[r] \notin {"idle", "begun"}
    /\ io[r] \in IoPlace \ {"idle", "begun"} => at[r]["request_ready"] <= at[r]["queued"]
    /\ work[r] \in {"started", "finished"} => at[r]["queued"] <= at[r]["worker_started"]
    /\ work[r] = "finished" => at[r]["worker_started"] <= at[r]["worker_finished"]
    /\ io[r] \in {"returned", "writing", "adding"} =>
          work[r] = "finished" /\ at[r]["worker_finished"] <= at[r]["returned_to_io"]
    /\ io[r] = "adding" => at[r]["returned_to_io"] <= at[r]["completed"]

IInv == MarksTyped /\ \A r \in Request : MarksOrdered(r)

--------------------------------------------------------------------------------

\* One mark is set to the present and, at most, the place of one request on its
\* I/O thread changes (RequestTiming::mark).
LEMMA StampKeepsType ==
    ASSUME MarksTyped, NEW r \in Request, NEW m \in Mark, Stamp(r, m), now' = now
    PROVE  /\ at' \in [Request -> [Mark -> Nat]]
           /\ \A q \in Request : \A n \in Mark : at'[q][n] <= now'
           /\ at'[r][m] = now
           /\ \A n \in Mark : n # m => at'[r][n] = at[r][n]
           /\ \A q \in Request : q # r => at'[q] = at[q]
<1>1. /\ at'[r] = [at[r] EXCEPT ![m] = now]
      /\ \A q \in Request : q # r => at'[q] = at[q]
      /\ at' \in [Request -> [Mark -> Nat]]
  BY DEF MarksTyped, Stamp
<1>2. at'[r][m] = now /\ \A n \in Mark : n # m => at'[r][n] = at[r][n]
  BY <1>1 DEF MarksTyped
<1>3. ASSUME NEW q \in Request, NEW n \in Mark PROVE at'[q][n] <= now'
  <2>1. CASE q = r /\ n = m
    BY <2>1, <1>2 DEF MarksTyped
  <2>2. CASE q = r /\ n # m
    BY <2>2, <1>2 DEF MarksTyped
  <2>3. CASE q # r
    BY <2>3, <1>1 DEF MarksTyped
  <2>4. QED
    BY <2>1, <2>2, <2>3
<1>4. QED
  BY <1>1, <1>2, <1>3

\* The marks of a request that a step leaves alone stay in order.
LEMMA OthersStayOrdered ==
    ASSUME NEW q \in Request, MarksOrdered(q),
           io'[q] = io[q], work'[q] = work[q], at'[q] = at[q]
    PROVE  MarksOrdered(q)'
BY DEF MarksOrdered

\* Each step of RequestLatency.cpp and of its callers keeps the marks in order.
LEMMA StepKeepsOrder ==
    ASSUME IInv, [Next]_vars
    PROVE  IInv'
<1> USE DEF IInv
<1>1. ASSUME NEW r \in Request, BeginRequest(r) PROVE IInv'
  <2>1. "request_ready" \in Mark /\ now' = now /\ Stamp(r, "request_ready")
    BY <1>1 DEF BeginRequest, Mark
  <2>2. /\ io' = [io EXCEPT ![r] = "begun"] /\ io[r] = "idle"
        /\ work' = work
    BY <1>1 DEF BeginRequest, GoesTo
  <2>3. MarksTyped'
    BY <2>1, <2>2, StampKeepsType DEF MarksTyped, IoPlace
  <2>4. ASSUME NEW q \in Request PROVE MarksOrdered(q)'
    <3>1. CASE q # r
      BY <3>1, <2>1, <2>2, StampKeepsType, OthersStayOrdered DEF MarksTyped
    <3>2. CASE q = r
      BY <3>2, <2>2 DEF MarksTyped, MarksOrdered, WorkPlace
    <3>3. QED
      BY <3>1, <3>2
  <2>5. QED
    BY <2>3, <2>4
<1>2. ASSUME NEW r \in Request, MarkQueued(r) PROVE IInv'
  <2>1. "queued" \in Mark /\ now' = now /\ Stamp(r, "queued")
    BY <1>2 DEF MarkQueued, Mark
  <2>2. /\ io' = [io EXCEPT ![r] = "queued"] /\ io[r] = "begun"
        /\ work' = work
    BY <1>2 DEF MarkQueued, GoesTo
  <2>3. MarksTyped'
    BY <2>1, <2>2, StampKeepsType DEF MarksTyped, IoPlace
  <2>4. ASSUME NEW q \in Request PROVE MarksOrdered(q)'
    <3>1. CASE q # r
      BY <3>1, <2>1, <2>2, StampKeepsType, OthersStayOrdered DEF MarksTyped
    <3>2. CASE q = r
      <4>1. at'[r]["request_ready"] <= at'[r]["queued"]
        BY <2>1, StampKeepsType DEF MarksTyped, Mark
      <4>2. work'[r] = "none"
        BY <2>2 DEF MarksOrdered
      <4>3. QED
        BY <3>2, <2>2, <4>1, <4>2 DEF MarksTyped, MarksOrdered
    <3>3. QED
      BY <3>1, <3>2
  <2>5. QED
    BY <2>3, <2>4
<1>3. ASSUME NEW r \in Request, Submit(r) PROVE IInv'
  <2>1. /\ work' = [work EXCEPT ![r] = "submitted"] /\ work[r] = "none"
        /\ io[r] = "queued" /\ now' = now /\ io' = io /\ at' = at
    BY <1>3 DEF Submit
  <2>2. MarksTyped'
    BY <2>1 DEF MarksTyped, WorkPlace
  <2>3. ASSUME NEW q \in Request PROVE MarksOrdered(q)'
    BY <2>1 DEF MarksTyped, MarksOrdered
  <2>4. QED
    BY <2>2, <2>3
<1>4. ASSUME NEW r \in Request, MarkWorkerStarted(r) PROVE IInv'
  <2>1. "worker_started" \in Mark /\ now' = now /\ Stamp(r, "worker_started")
    BY <1>4 DEF MarkWorkerStarted, Mark
  <2>2. /\ work' = [work EXCEPT ![r] = "started"] /\ work[r] = "submitted"
        /\ io' = io
    BY <1>4 DEF MarkWorkerStarted
  <2>3. MarksTyped'
    BY <2>1, <2>2, StampKeepsType DEF MarksTyped, WorkPlace
  <2>4. ASSUME NEW q \in Request PROVE MarksOrdered(q)'
    <3>1. CASE q # r
      BY <3>1, <2>1, <2>2, StampKeepsType, OthersStayOrdered DEF MarksTyped
    <3>2. CASE q = r
      <4>1. /\ at'[r]["queued"] <= at'[r]["worker_started"]
            /\ at'[r]["request_ready"] = at[r]["request_ready"]
            /\ at'[r]["queued"] = at[r]["queued"]
        BY <2>1, StampKeepsType DEF MarksTyped, Mark
      <4>2. /\ work'[r] = "started"
            /\ io[r] \notin {"idle", "begun", "returned", "writing", "adding"}
        BY <2>2 DEF MarksTyped, MarksOrdered
      <4>3. QED
        BY <3>2, <2>2, <4>1, <4>2 DEF MarksOrdered
    <3>3. QED
      BY <3>1, <3>2
  <2>5. QED
    BY <2>3, <2>4
<1>5. ASSUME NEW r \in Request, MarkWorkerFinished(r) PROVE IInv'
  <2>1. "worker_finished" \in Mark /\ now' = now /\ Stamp(r, "worker_finished")
    BY <1>5 DEF MarkWorkerFinished, Mark
  <2>2. /\ work' = [work EXCEPT ![r] = "finished"] /\ work[r] = "started"
        /\ io' = io
    BY <1>5 DEF MarkWorkerFinished
  <2>3. MarksTyped'
    BY <2>1, <2>2, StampKeepsType DEF MarksTyped, WorkPlace
  <2>4. ASSUME NEW q \in Request PROVE MarksOrdered(q)'
    <3>1. CASE q # r
      BY <3>1, <2>1, <2>2, StampKeepsType, OthersStayOrdered DEF MarksTyped
    <3>2. CASE q = r
      <4>1. /\ at'[r]["worker_started"] <= at'[r]["worker_finished"]
            /\ at'[r]["request_ready"] = at[r]["request_ready"]
            /\ at'[r]["queued"] = at[r]["queued"]
            /\ at'[r]["worker_started"] = at[r]["worker_started"]
        BY <2>1, StampKeepsType DEF MarksTyped, Mark
      <4>2. /\ work'[r] = "finished"
            /\ io[r] \notin {"idle", "begun", "returned", "writing", "adding"}
        BY <2>2 DEF MarksTyped, MarksOrdered
      <4>3. QED
        BY <3>2, <2>2, <4>1, <4>2 DEF MarksOrdered
    <3>3. QED
      BY <3>1, <3>2
  <2>5. QED
    BY <2>3, <2>4
<1>6. ASSUME NEW r \in Request, MarkReturnedToIo(r) PROVE IInv'
  <2>1. "returned_to_io" \in Mark /\ now' = now /\ Stamp(r, "returned_to_io")
    BY <1>6 DEF MarkReturnedToIo, Mark
  <2>2. /\ io' = [io EXCEPT ![r] = "returned"] /\ io[r] = "queued"
        /\ work[r] = "finished" /\ work' = work
    BY <1>6 DEF MarkReturnedToIo, GoesTo
  <2>3. MarksTyped'
    BY <2>1, <2>2, StampKeepsType DEF MarksTyped, IoPlace
  <2>4. ASSUME NEW q \in Request PROVE MarksOrdered(q)'
    <3>1. CASE q # r
      BY <3>1, <2>1, <2>2, StampKeepsType, OthersStayOrdered DEF MarksTyped
    <3>2. CASE q = r
      <4>1. /\ at'[r]["worker_finished"] <= at'[r]["returned_to_io"]
            /\ \A m \in Mark : m # "returned_to_io" => at'[r][m] = at[r][m]
        BY <2>1, StampKeepsType DEF MarksTyped, Mark
      <4>2. io'[r] = "returned"
        BY <2>2 DEF MarksTyped
      <4>3. QED
        BY <3>2, <2>2, <4>1, <4>2 DEF MarksOrdered, Mark, IoPlace
    <3>3. QED
      BY <3>1, <3>2
  <2>5. QED
    BY <2>3, <2>4
<1>7. ASSUME NEW r \in Request, BeginComplete(r) PROVE IInv'
  <2>1. "completed" \in Mark /\ now' = now /\ Stamp(r, "completed")
    BY <1>7 DEF BeginComplete, Mark
  <2>2. /\ io' = [io EXCEPT ![r] = "adding"] /\ io[r] = "writing"
        /\ work' = work
    BY <1>7 DEF BeginComplete, GoesTo
  <2>3. MarksTyped'
    BY <2>1, <2>2, StampKeepsType DEF MarksTyped, IoPlace
  <2>4. ASSUME NEW q \in Request PROVE MarksOrdered(q)'
    <3>1. CASE q # r
      BY <3>1, <2>1, <2>2, StampKeepsType, OthersStayOrdered DEF MarksTyped
    <3>2. CASE q = r
      <4>1. /\ at'[r]["returned_to_io"] <= at'[r]["completed"]
            /\ \A m \in Mark : m # "completed" => at'[r][m] = at[r][m]
        BY <2>1, StampKeepsType DEF MarksTyped, Mark
      <4>2. io'[r] = "adding"
        BY <2>2 DEF MarksTyped
      <4>3. QED
        BY <3>2, <2>2, <4>1, <4>2 DEF MarksOrdered, Mark, IoPlace
    <3>3. QED
      BY <3>1, <3>2
  <2>5. QED
    BY <2>3, <2>4
<1>8. ASSUME NEW r \in Request, MarkWriteStarted(r) PROVE IInv'
  <2>1. /\ io' = [io EXCEPT ![r] = "writing"] /\ io[r] = "returned"
        /\ work' = work /\ at' = at /\ now' = now
    BY <1>8 DEF MarkWriteStarted, GoesTo
  <2>2. QED
    BY <2>1 DEF MarksTyped, MarksOrdered, IoPlace
<1>9. ASSUME NEW r \in Request, NEW place \in IoPlace, GoesTo(r, place),
             io[r] \in IoPlace \ {"idle", "begun"},
             place \in {"loading", "exchanging", "done", "abandoned"},
             work' = work, at' = at, now' = now
      PROVE  IInv'
  BY <1>9 DEF GoesTo, MarksTyped, MarksOrdered, IoPlace
<1>10. ASSUME UNCHANGED <<io, work, at>>, now' \in Nat, now' >= now PROVE IInv'
  <2>1. \A r \in Request : MarksOrdered(r)'
    BY <1>10 DEF MarksOrdered
  <2>2. \A r \in Request : \A m \in Mark : at[r][m] <= now'
    BY <1>10 DEF MarksTyped
  <2>3. QED
    BY <1>10, <2>1, <2>2 DEF MarksTyped
<1>11. now \in Nat
  BY DEF MarksTyped
<1>12. ASSUME NEW r \in Request,
              Abandon(r) \/ Count(r) \/ LoadMax(r) \/ ExchangeMax(r) \/ (\E s \in Sum : Add(r, s))
       PROVE  IInv'
  <2>1. CASE Abandon(r)
    BY <2>1, <1>9 DEF Abandon, IoPlace
  <2>2. CASE Count(r)
    BY <2>2, <1>9 DEF Count, IoPlace
  <2>3. CASE LoadMax(r)
    BY <2>3, <1>9 DEF LoadMax, IoPlace
  <2>4. CASE ExchangeMax(r)
    BY <2>4, <1>9 DEF ExchangeMax, IoPlace
  <2>5. CASE \E s \in Sum : Add(r, s)
    BY <2>5, <1>10, <1>11 DEF Add
  <2>6. QED
    BY <1>12, <2>1, <2>2, <2>3, <2>4, <2>5
<1>13. CASE Tick
  BY <1>13, <1>10, <1>11 DEF Tick, counters
<1>14. CASE UNCHANGED vars
  BY <1>14, <1>10, <1>11 DEF vars
<1>15. QED
  BY <1>1, <1>2, <1>3, <1>4, <1>5, <1>6, <1>7, <1>8, <1>12, <1>13, <1>14 DEF Next

\* The spans are sums of steps that are in order.
LEMMA OrderGivesSpans == IInv => SpansArePositive
<1> SUFFICES ASSUME IInv, NEW r \in Request, io[r] = "adding", NEW s \in Sum
             PROVE  Elapsed(r, s) >= 0
  BY DEF SpansArePositive
<1>1. \A m \in Mark : at[r][m] \in Nat
  BY DEF IInv, MarksTyped
<1>2. /\ at[r]["request_ready"] <= at[r]["queued"]
      /\ at[r]["queued"] <= at[r]["worker_started"]
      /\ at[r]["worker_started"] <= at[r]["worker_finished"]
      /\ at[r]["worker_finished"] <= at[r]["returned_to_io"]
      /\ at[r]["returned_to_io"] <= at[r]["completed"]
  BY DEF IInv, MarksOrdered, IoPlace
<1>3. s \in {"worker_queue", "worker_compute", "result_return", "response_write", "total"}
  BY DEF Sum
<1>4. QED
  BY <1>1, <1>2, <1>3 DEF Elapsed, Mark

--------------------------------------------------------------------------------

LEMMA InitInv == Init => IInv
<1> SUFFICES ASSUME Init PROVE IInv
  OBVIOUS
<1>1. MarksTyped
  BY DEF Init, MarksTyped, IoPlace, WorkPlace
<1>2. QED
  BY <1>1 DEF IInv, Init, MarksOrdered

\* No span that complete() adds to a counter is negative, for any requests and any
\* clock: TcpConnection marks a request as queued before its handler submits it.
THEOREM SpansNeverWrap == Spec => []SpansArePositive
<1>1. Init => IInv
  BY InitInv
<1>2. IInv /\ [Next]_vars => IInv'
  BY StepKeepsOrder
<1>3. QED
  BY <1>1, <1>2, OrderGivesSpans, PTL DEF Spec

--------------------------------------------------------------------------------
(* Sums over finite sets.  Induction over the subsets of a finite set is the *)
(* choice of a smallest counterexample.                                      *)

LEMMA SmallestSet ==
    ASSUME NEW S, IsFiniteSet(S), NEW K, K \subseteq SUBSET S, K # {}
    PROVE  \E T \in K : \A U \in SUBSET T : U # T => U \notin K
<1>1. IsWellFoundedOn(StrictSubsetOrdering(S), SUBSET S)
  BY FS_StrictSubsetOrderingWellFounded, FS_FiniteSubsetsOfFinite
<1>2. PICK T \in K : \A U \in K : ~(<<U, T>> \in StrictSubsetOrdering(S))
  BY <1>1, WFMin
<1>3. ASSUME NEW U \in SUBSET T, U # T, U \in K PROVE FALSE
  <2>1. <<U, T>> \in (SUBSET S) \X (SUBSET S)
    OBVIOUS
  <2>2. <<U, T>> \in StrictSubsetOrdering(S)
    BY <1>3, <2>1 DEF StrictSubsetOrdering
  <2>3. QED
    BY <1>2, <1>3, <2>2
<1>4. QED
  BY <1>3

Pick(t) == CHOOSE x \in t : TRUE

LEMMA PickIs == \A t : t # {} => Pick(t) \in t
BY DEF Pick

\* g gives the sum of e over each subset of S.
Sums(g, S, e) ==
    g = [t \in SUBSET S |-> IF t = {} THEN 0 ELSE e[Pick(t)] + g[t \ {Pick(t)}]]

LEMMA SumsStep ==
    ASSUME NEW S, NEW e, NEW g, Sums(g, S, e)
    PROVE  \A t \in SUBSET S : g[t] = IF t = {} THEN 0 ELSE e[Pick(t)] + g[t \ {Pick(t)}]
<1> DEFINE rhs == [u \in SUBSET S |-> IF u = {} THEN 0 ELSE e[Pick(u)] + g[u \ {Pick(u)}]]
<1>1. g = rhs
  BY DEF Sums
<1>2. \A t \in SUBSET S : rhs[t] = IF t = {} THEN 0 ELSE e[Pick(t)] + g[t \ {Pick(t)}]
  OBVIOUS
<1> HIDE DEF rhs
<1>3. QED
  BY <1>1, <1>2

LEMMA SumsAgree ==
    ASSUME NEW S, IsFiniteSet(S), NEW U \in SUBSET S, NEW e, NEW g, NEW h,
           Sums(g, S, e), Sums(h, U, e)
    PROVE  \A t \in SUBSET U : g[t] = h[t]
<1> DEFINE K == {t \in SUBSET U : g[t] # h[t]}
<1>1. SUFFICES ASSUME K # {} PROVE FALSE
  OBVIOUS
<1>2. PICK T \in K : \A V \in SUBSET T : V # T => V \notin K
  <2>1. IsFiniteSet(U) /\ K \subseteq SUBSET U
    BY FS_Subset
  <2> HIDE DEF K
  <2>2. QED
    BY <1>1, <2>1, SmallestSet
<1>3. T \in SUBSET U /\ T \in SUBSET S
  OBVIOUS
<1>4. \A t \in SUBSET S : g[t] = IF t = {} THEN 0 ELSE e[Pick(t)] + g[t \ {Pick(t)}]
  BY SumsStep
<1>5. \A t \in SUBSET U : h[t] = IF t = {} THEN 0 ELSE e[Pick(t)] + h[t \ {Pick(t)}]
  BY SumsStep
<1>6. T # {} => g[T \ {Pick(T)}] = h[T \ {Pick(T)}]
  BY <1>2, PickIs
<1>7. QED
  BY <1>3, <1>4, <1>5, <1>6

LEMMA SumsExist ==
    ASSUME NEW S, IsFiniteSet(S), NEW e
    PROVE  \E g : Sums(g, S, e)
<1> DEFINE K == {T \in SUBSET S : ~\E g : Sums(g, T, e)}
<1>1. SUFFICES ASSUME K # {} PROVE FALSE
  OBVIOUS
<1>2. PICK T \in K : \A U \in SUBSET T : U # T => U \notin K
  <2>1. K \subseteq SUBSET S
    OBVIOUS
  <2> HIDE DEF K
  <2>2. QED
    BY <1>1, <2>1, SmallestSet
<1> DEFINE G(U) == CHOOSE g : Sums(g, U, e)
           g == [t \in SUBSET T |->
                    IF t = {} THEN 0 ELSE e[Pick(t)] + G(t \ {Pick(t)})[t \ {Pick(t)}]]
<1>3. ASSUME NEW U \in SUBSET T, U # T PROVE Sums(G(U), U, e)
  BY <1>2, <1>3
<1> HIDE DEF G
<1>4. ASSUME NEW U \in SUBSET T, U # T PROVE g[U] = G(U)[U]
  <2>1. G(U)[U] = IF U = {} THEN 0 ELSE e[Pick(U)] + G(U)[U \ {Pick(U)}]
    BY <1>3, <1>4, SumsStep
  <2>2. CASE U # {}
    <3> DEFINE V == U \ {Pick(U)}
    <3>1. V \in SUBSET U /\ V \in SUBSET T /\ V # T /\ V \in SUBSET V /\ IsFiniteSet(U)
      BY <1>4, <2>2, PickIs, FS_Subset
    <3>2. Sums(G(V), V, e) /\ Sums(G(U), U, e)
      BY <1>3, <1>4, <3>1
    <3> HIDE DEF V
    <3>3. G(U)[V] = G(V)[V]
      BY <3>1, <3>2, SumsAgree
    <3>4. g[U] = e[Pick(U)] + G(V)[V]
      BY <2>2 DEF V
    <3>5. QED
      BY <2>1, <2>2, <3>3, <3>4 DEF V
  <2>3. CASE U = {}
    BY <2>1, <2>3
  <2>4. QED
    BY <2>2, <2>3
<1>5. ASSUME NEW t \in SUBSET T, t # {}
      PROVE  g[t \ {Pick(t)}] = G(t \ {Pick(t)})[t \ {Pick(t)}]
  BY <1>4, <1>5, PickIs
<1>6. g = [t \in SUBSET T |-> IF t = {} THEN 0 ELSE e[Pick(t)] + g[t \ {Pick(t)}]]
  <2> DEFINE r == [t \in SUBSET T |-> IF t = {} THEN 0 ELSE e[Pick(t)] + g[t \ {Pick(t)}]]
  <2>1. \A t \in SUBSET T : g[t] = r[t]
    BY <1>5
  <2>2. QED
    BY <2>1, Zenon
<1>7. Sums(g, T, e)
  BY <1>6 DEF Sums
<1>8. QED
  BY <1>7

\* The equations of a sum.
LEMMA SumIs ==
    ASSUME NEW S, IsFiniteSet(S), NEW e
    PROVE  SumFunctionOnSet(e, S) =
               IF S = {} THEN 0 ELSE e[Pick(S)] + SumFunctionOnSet(e, S \ {Pick(S)})
<1> DEFINE G(U) == CHOOSE g : Sums(g, U, e)
<1>1. \A U : SumFunctionOnSet(e, U) = G(U)[U]
  BY DEF SumFunctionOnSet, FoldFunctionOnSet, MapThenFoldSet, Sums, Pick
<1>2. \A U \in SUBSET S : Sums(G(U), U, e)
  BY FS_Subset, SumsExist
<1> HIDE DEF G
<1>3. G(S)[S] = IF S = {} THEN 0 ELSE e[Pick(S)] + G(S)[S \ {Pick(S)}]
  BY <1>2, SumsStep
<1> DEFINE V == S \ {Pick(S)}
<1>4. V \in SUBSET S /\ V \in SUBSET V
  OBVIOUS
<1>5. Sums(G(S), S, e) /\ Sums(G(V), V, e)
  BY <1>2, <1>4
<1>6. G(S)[V] = G(V)[V]
  <2> HIDE DEF V
  <2>1. QED
    BY <1>4, <1>5, SumsAgree
<1>7. QED
  BY <1>1, <1>3, <1>6

\* A sum of integers is one, and functions that agree have the same sum.
LEMMA SumType ==
    ASSUME NEW S, IsFiniteSet(S), NEW e, \A x \in S : e[x] \in Int
    PROVE  SumFunctionOnSet(e, S) \in Int
<1> DEFINE K == {T \in SUBSET S : SumFunctionOnSet(e, T) \notin Int}
<1>1. SUFFICES ASSUME K # {} PROVE FALSE
  OBVIOUS
<1>2. PICK T \in K : \A U \in SUBSET T : U # T => U \notin K
  <2>1. K \subseteq SUBSET S
    OBVIOUS
  <2> HIDE DEF K
  <2>2. QED
    BY <1>1, <2>1, SmallestSet
<1>3. IsFiniteSet(T)
  BY FS_Subset
<1>4. T # {} => e[Pick(T)] \in Int /\ SumFunctionOnSet(e, T \ {Pick(T)}) \in Int
  BY <1>2, PickIs
<1>5. SumFunctionOnSet(e, T) =
          IF T = {} THEN 0 ELSE e[Pick(T)] + SumFunctionOnSet(e, T \ {Pick(T)})
  BY <1>3, SumIs
<1>6. SumFunctionOnSet(e, T) \notin Int
  OBVIOUS
<1> HIDE DEF K
<1>7. QED
  BY <1>4, <1>5, <1>6

LEMMA SumSame ==
    ASSUME NEW S, IsFiniteSet(S), NEW e, NEW f, \A x \in S : e[x] = f[x]
    PROVE  SumFunctionOnSet(e, S) = SumFunctionOnSet(f, S)
<1> DEFINE K == {T \in SUBSET S : SumFunctionOnSet(e, T) # SumFunctionOnSet(f, T)}
<1>1. SUFFICES ASSUME K # {} PROVE FALSE
  OBVIOUS
<1>2. PICK T \in K : \A U \in SUBSET T : U # T => U \notin K
  <2>1. K \subseteq SUBSET S
    OBVIOUS
  <2> HIDE DEF K
  <2>2. QED
    BY <1>1, <2>1, SmallestSet
<1>3. IsFiniteSet(T)
  BY FS_Subset
<1>4. T # {} => /\ e[Pick(T)] = f[Pick(T)]
                /\ SumFunctionOnSet(e, T \ {Pick(T)}) = SumFunctionOnSet(f, T \ {Pick(T)})
  BY <1>2, PickIs
<1>5. QED
  BY <1>3, <1>4, SumIs

\* The sum with any one summand apart.
LEMMA SumWithout ==
    ASSUME NEW S, IsFiniteSet(S), NEW e, \A x \in S : e[x] \in Int
    PROVE  \A x \in S : SumFunctionOnSet(e, S) = e[x] + SumFunctionOnSet(e, S \ {x})
<1> DEFINE Sum_(T) == SumFunctionOnSet(e, T)
           K == {T \in SUBSET S : \E x \in T : Sum_(T) # e[x] + Sum_(T \ {x})}
<1>1. SUFFICES ASSUME K # {} PROVE FALSE
  OBVIOUS
<1>2. PICK T \in K : \A U \in SUBSET T : U # T => U \notin K
  <2>1. K \subseteq SUBSET S
    OBVIOUS
  <2> HIDE DEF K
  <2>2. QED
    BY <1>1, <2>1, SmallestSet
<1>3. PICK x \in T : Sum_(T) # e[x] + Sum_(T \ {x})
  OBVIOUS
<1>4. ASSUME NEW U \in SUBSET T
      PROVE  /\ Sum_(U) \in Int
             /\ U # {} => Pick(U) \in U /\ Sum_(U) = e[Pick(U)] + Sum_(U \ {Pick(U)})
  <2>1. U \in SUBSET S
    OBVIOUS
  <2>2. IsFiniteSet(U)
    BY <2>1, FS_Subset
  <2>3. QED
    BY <2>1, <2>2, SumIs, SumType, PickIs
<1> DEFINE p == Pick(T)
<1>5. p \in T /\ Sum_(T) = e[p] + Sum_(T \ {p})
  BY <1>4
<1>6. \A U \in SUBSET T : U # T => \A y \in U : Sum_(U) = e[y] + Sum_(U \ {y})
  BY <1>2
<1> HIDE DEF Sum_, p, K
<1>7. p # x
  BY <1>3, <1>5
<1>8. Sum_(T \ {p}) = e[x] + Sum_((T \ {p}) \ {x})
  BY <1>5, <1>6, <1>7
<1>9. Sum_(T \ {x}) = e[p] + Sum_((T \ {x}) \ {p})
  BY <1>5, <1>6, <1>7
<1>10. (T \ {p}) \ {x} = (T \ {x}) \ {p}
  OBVIOUS
<1>11. e[p] \in Int /\ e[x] \in Int /\ Sum_((T \ {x}) \ {p}) \in Int
  <2>1. p \in S /\ x \in S /\ (T \ {x}) \ {p} \in SUBSET T
    BY <1>5 DEF K
  <2>2. QED
    BY <1>4, <2>1
<1>12. QED
  <2> DEFINE rest == Sum_((T \ {x}) \ {p})
  <2>1. Sum_(T) = e[p] + (e[x] + rest) /\ e[x] + Sum_(T \ {x}) = e[x] + (e[p] + rest)
    BY <1>5, <1>8, <1>9, <1>10
  <2>2. e[p] + (e[x] + rest) = e[x] + (e[p] + rest)
    BY <1>11
  <2>3. QED
    BY <1>3, <2>1, <2>2

--------------------------------------------------------------------------------
(* The totals.                                                               *)

Late == {"adding", "loading", "exchanging", "done"}

\* The spans of the counter s, and the requests it has so far.
Spans(s) == [r \in Request |-> Elapsed(r, s)]
Added(s) == {r \in Request : s \notin adding[r]}

\* The inductive invariant of complete(): each counter is the sum over the requests
\* whose addition to it has been made, wherever they are.
TotalsInv ==
    /\ adding \in [Request -> SUBSET Sum]
    /\ current \in [Request -> Int]
    /\ sums \in [Sum -> Int]
    /\ \A r \in Request : io[r] \notin Late => adding[r] = Sum
    /\ \A r \in Request : io[r] \in Late \ {"adding"} => adding[r] = {}
    /\ \A r \in Request : io[r] \in Late => work[r] = "finished"
    /\ \A s \in Sum : sums[s] = SumFunctionOnSet(Spans(s), Added(s))
    /\ completed_requests_ = Cardinality({r \in Request : io[r] \in Late \ {"adding"}})
    /\ max_total_us_ \in Nat
    /\ max_total_us_ \in {Elapsed(r, "total") : r \in Counted} \cup {0}
    /\ \A r \in Counted : Elapsed(r, "total") <= max_total_us_
    /\ \A r \in Request : io[r] = "exchanging" => current[r] < Elapsed(r, "total")

LEMMA ElapsedType == ASSUME IInv PROVE \A r \in Request : \A s \in Sum : Elapsed(r, s) \in Int
<1>1. \A r \in Request : \A m \in Mark : at[r][m] \in Nat
  BY DEF IInv, MarksTyped
<1>2. QED
  BY <1>1 DEF Elapsed, Mark, Sum

LEMMA TotalsInit == Init => TotalsInv
<1> SUFFICES ASSUME Init PROVE TotalsInv
  OBVIOUS
<1> USE DEF Init
<1>1. \A s \in Sum : Added(s) = {}
  BY DEF Added
<1>2. \A s \in Sum : sums[s] = SumFunctionOnSet(Spans(s), Added(s))
  BY <1>1, SumIs, FS_EmptySet
<1>3. Counted = {} /\ {r \in Request : io[r] \in Late \ {"adding"}} = {}
  BY DEF Counted, Late
<1>4. QED
  BY <1>2, <1>3, FS_EmptySet DEF TotalsInv, Late

\* A step of a request that is not yet, and does not get, past its additions.
LEMMA EarlyStep ==
    ASSUME IInv, TotalsInv, NEW r \in Request, UNCHANGED counters,
           io'[r] \in Late => io'[r] = "adding" /\ work'[r] = "finished",
           io[r] \notin Late,
           \A q \in Request : q # r => io'[q] = io[q] /\ work'[q] = work[q] /\ at'[q] = at[q]
    PROVE  TotalsInv'
<1>1. /\ adding' = adding /\ current' = current /\ sums' = sums
      /\ completed_requests_' = completed_requests_ /\ max_total_us_' = max_total_us_
  BY DEF counters
<1>2. adding[r] = Sum
  BY DEF TotalsInv
<1>3. \A q \in Request : q # r => \A s : Elapsed(q, s)' = Elapsed(q, s)
  BY DEF Elapsed
<1>4. \A s \in Sum : Added(s)' = Added(s) /\ r \notin Added(s) /\ IsFiniteSet(Added(s))
  BY <1>1, <1>2, LatencyAssumption, FS_Subset DEF Added
<1>5. ASSUME NEW s \in Sum PROVE sums'[s] = SumFunctionOnSet(Spans(s)', Added(s)')
  <2>1. \A q \in Added(s) : Spans(s)'[q] = Spans(s)[q]
    BY <1>3, <1>4 DEF Spans, Added
  <2>2. SumFunctionOnSet(Spans(s)', Added(s)) = SumFunctionOnSet(Spans(s), Added(s))
    <3> DEFINE e == Spans(s)
               f == Spans(s)'
    <3>1. IsFiniteSet(Added(s)) /\ \A q \in Added(s) : f[q] = e[q]
      BY <1>4, <2>1
    <3> HIDE DEF e, f
    <3>2. SumFunctionOnSet(f, Added(s)) = SumFunctionOnSet(e, Added(s))
      BY <3>1, SumSame
    <3>3. QED
      BY <3>2 DEF e, f
  <2>3. QED
    BY <1>1, <1>4, <2>2 DEF TotalsInv
<1>6. /\ Counted' = Counted /\ r \notin Counted
      /\ {q \in Request : io'[q] \in Late \ {"adding"}} = {q \in Request : io[q] \in Late \ {"adding"}}
  BY DEF Counted, Late
<1>7. {Elapsed(q, "total")' : q \in Counted} = {Elapsed(q, "total") : q \in Counted}
  BY <1>3, <1>6 DEF Counted
<1>8. \A q \in Counted : Elapsed(q, "total")' <= max_total_us_
  BY <1>3, <1>6 DEF TotalsInv, Counted
<1>9. \A q \in Request : io'[q] = "exchanging" => current[q] < Elapsed(q, "total")'
  BY <1>3 DEF TotalsInv, Late
<1>10. /\ \A q \in Request : io'[q] \notin Late => adding[q] = Sum
       /\ \A q \in Request : io'[q] \in Late \ {"adding"} => adding[q] = {}
       /\ \A q \in Request : io'[q] \in Late => work'[q] = "finished"
  BY <1>2 DEF TotalsInv
<1>11. QED
  BY <1>1, <1>5, <1>6, <1>7, <1>8, <1>9, <1>10 DEF TotalsInv

\* The spans of requests whose marks do not change.
LEMMA SpansKept ==
    ASSUME at' = at
    PROVE  /\ \A r \in Request, s \in Sum : Elapsed(r, s)' = Elapsed(r, s)
           /\ \A s \in Sum : Spans(s)' = Spans(s)
BY DEF Elapsed, Spans

\* One addition.
LEMMA AddStep ==
    ASSUME IInv, TotalsInv, NEW r \in Request, NEW s \in Sum, Add(r, s)
    PROVE  TotalsInv'
<1>1. /\ io[r] = "adding" /\ s \in adding[r]
      /\ sums' = [sums EXCEPT ![s] = @ + Elapsed(r, s)]
      /\ adding' = [adding EXCEPT ![r] = @ \ {s}]
      /\ UNCHANGED <<now, io, work, at, current, completed_requests_, max_total_us_>>
  BY DEF Add
<1>2. /\ adding' \in [Request -> SUBSET Sum] /\ adding'[r] = adding[r] \ {s}
      /\ \A q \in Request : q # r => adding'[q] = adding[q]
  BY <1>1 DEF TotalsInv
<1>3. /\ Added(s)' = Added(s) \cup {r} /\ r \notin Added(s)
      /\ \A t \in Sum : t # s => Added(t)' = Added(t)
  BY <1>1, <1>2 DEF Added
<1>4. Elapsed(r, s) \in Int
  BY ElapsedType
<1>5. ASSUME NEW t \in Sum PROVE sums'[t] = SumFunctionOnSet(Spans(t)', Added(t)')
  <2>1. Spans(t)' = Spans(t)
    BY <1>1, SpansKept
  <2>2. sums[t] = SumFunctionOnSet(Spans(t), Added(t))
    BY DEF TotalsInv
  <2>3. CASE t # s
    BY <1>1, <1>3, <2>1, <2>2, <2>3 DEF TotalsInv
  <2>4. CASE t = s
    <3> DEFINE e == Spans(s)
               A == Added(s) \cup {r}
    <3>1. IsFiniteSet(A)
      BY LatencyAssumption, FS_Subset DEF Added
    <3>2. \A x \in A : e[x] \in Int
      BY ElapsedType DEF Spans, Added
    <3>3. r \in A /\ A \ {r} = Added(s) /\ e[r] = Elapsed(r, s)
      BY <1>3 DEF Spans
    <3> HIDE DEF e, A
    <3>4. SumFunctionOnSet(e, A) = e[r] + SumFunctionOnSet(e, Added(s))
      BY <3>1, <3>2, <3>3, SumWithout
    <3>5. SumFunctionOnSet(e, Added(s)) = sums[s] /\ sums[s] \in Int /\ sums'[s] = sums[s] + e[r]
      BY <1>1, <2>2, <2>4, <3>3 DEF e, TotalsInv
    <3>6. sums'[s] = SumFunctionOnSet(e, A)
      BY <1>4, <3>3, <3>4, <3>5
    <3>7. QED
      BY <1>3, <2>1, <2>4, <3>6 DEF e, A
  <2>5. QED
    BY <2>3, <2>4
<1>6. sums' \in [Sum -> Int]
  BY <1>1, <1>4 DEF TotalsInv
<1>7. /\ Counted' = Counted
      /\ \A q \in Request : Elapsed(q, "total")' = Elapsed(q, "total")
  BY <1>1, SpansKept DEF Counted, Sum
<1>8. {Elapsed(q, "total")' : q \in Counted'} = {Elapsed(q, "total") : q \in Counted}
  BY <1>7 DEF Counted
<1>9. /\ \A q \in Counted' : Elapsed(q, "total")' <= max_total_us_'
      /\ \A q \in Request : io'[q] = "exchanging" => current'[q] < Elapsed(q, "total")'
  BY <1>1, <1>7 DEF TotalsInv, Counted
<1>10. /\ \A q \in Request : io'[q] \notin Late => adding'[q] = Sum
       /\ \A q \in Request : io'[q] \in Late \ {"adding"} => adding'[q] = {}
  BY <1>1, <1>2 DEF TotalsInv, Late
<1>11. QED
  BY <1>1, <1>2, <1>5, <1>6, <1>7, <1>8, <1>9, <1>10 DEF TotalsInv

\* The steps after the additions change no mark and no sum.
LEMMA AfterAdding ==
    ASSUME IInv, TotalsInv, UNCHANGED <<at, work, sums, adding>>
    PROVE  /\ adding' \in [Request -> SUBSET Sum] /\ sums' \in [Sum -> Int]
           /\ \A s \in Sum : sums'[s] = SumFunctionOnSet(Spans(s)', Added(s)')
           /\ \A q \in Request : Elapsed(q, "total")' = Elapsed(q, "total") /\ Elapsed(q, "total") \in Int
<1>1. \A s \in Sum : Spans(s)' = Spans(s) /\ Added(s)' = Added(s)
  BY SpansKept DEF Added
<1>2. \A s \in Sum : sums'[s] = SumFunctionOnSet(Spans(s)', Added(s)')
  BY <1>1 DEF TotalsInv
<1>3. QED
  BY <1>2, SpansKept, ElapsedType DEF TotalsInv, Sum

LEMMA CountStep ==
    ASSUME IInv, TotalsInv, NEW r \in Request, Count(r)
    PROVE  TotalsInv'
<1>1. /\ io[r] = "adding" /\ adding[r] = {}
      /\ completed_requests_' = completed_requests_ + 1
      /\ io' = [io EXCEPT ![r] = "loading"]
      /\ UNCHANGED <<now, work, at, adding, current, sums, max_total_us_>>
  BY DEF Count, GoesTo
<1>2. io'[r] = "loading" /\ \A q \in Request : q # r => io'[q] = io[q]
  BY <1>1 DEF IInv, MarksTyped
<1> DEFINE L == {q \in Request : io[q] \in Late \ {"adding"}}
           M == {q \in Request : io'[q] \in Late \ {"adding"}}
<1>3. M = L \cup {r} /\ r \notin L /\ IsFiniteSet(L)
  BY <1>1, <1>2, LatencyAssumption, FS_Subset DEF Late
<1>4. completed_requests_ = Cardinality(L)
  BY DEF TotalsInv
<1> HIDE DEF L, M
<1>5. completed_requests_' = Cardinality(M)
  BY <1>1, <1>3, <1>4, FS_AddElement
<1>6. Counted' = Counted
  BY <1>1, <1>2 DEF Counted
<1>7. /\ adding' \in [Request -> SUBSET Sum] /\ sums' \in [Sum -> Int]
      /\ \A s \in Sum : sums'[s] = SumFunctionOnSet(Spans(s)', Added(s)')
      /\ \A q \in Request : Elapsed(q, "total")' = Elapsed(q, "total")
  BY <1>1, AfterAdding
<1>8. {Elapsed(q, "total")' : q \in Counted'} = {Elapsed(q, "total") : q \in Counted}
  BY <1>6, <1>7 DEF Counted
<1>9. /\ \A q \in Counted' : Elapsed(q, "total")' <= max_total_us_'
      /\ \A q \in Request : io'[q] = "exchanging" => current'[q] < Elapsed(q, "total")'
  BY <1>1, <1>2, <1>6, <1>7 DEF TotalsInv, Counted
<1>10. /\ \A q \in Request : io'[q] \notin Late => adding'[q] = Sum
       /\ \A q \in Request : io'[q] \in Late \ {"adding"} => adding'[q] = {}
       /\ \A q \in Request : io'[q] \in Late => work'[q] = "finished"
  BY <1>1, <1>2 DEF TotalsInv, Late
<1>11. current' \in [Request -> Int] /\ max_total_us_' \in Nat
  BY <1>1 DEF TotalsInv
<1>12. max_total_us_' \in {Elapsed(q, "total")' : q \in Counted'} \cup {0}
  BY <1>1, <1>8 DEF TotalsInv
<1>13. QED
  BY <1>5, <1>7, <1>9, <1>10, <1>11, <1>12 DEF TotalsInv, M

\* A comparison of the maximum with a total, by a load or by a failed exchange.
LEMMA CompareStep ==
    ASSUME IInv, TotalsInv, NEW r \in Request, io[r] \in {"loading", "exchanging"},
           current' = [current EXCEPT ![r] = max_total_us_],
           GoesTo(r, IF max_total_us_ < Elapsed(r, "total") THEN "exchanging" ELSE "done"),
           UNCHANGED <<now, work, at, adding, sums, completed_requests_, max_total_us_>>
    PROVE  TotalsInv'
<1> DEFINE place == IF max_total_us_ < Elapsed(r, "total") THEN "exchanging" ELSE "done"
<1>1. io'[r] = place /\ \A q \in Request : q # r => io'[q] = io[q]
  BY DEF IInv, MarksTyped, GoesTo
<1>2. /\ current' \in [Request -> Int] /\ current'[r] = max_total_us_ /\ max_total_us_ \in Nat
      /\ \A q \in Request : q # r => current'[q] = current[q]
  BY DEF TotalsInv
<1>3. /\ adding' \in [Request -> SUBSET Sum] /\ sums' \in [Sum -> Int]
      /\ \A s \in Sum : sums'[s] = SumFunctionOnSet(Spans(s)', Added(s)')
      /\ \A q \in Request : Elapsed(q, "total")' = Elapsed(q, "total") /\ Elapsed(q, "total") \in Int
  BY AfterAdding
<1>4. {q \in Request : io'[q] \in Late \ {"adding"}} = {q \in Request : io[q] \in Late \ {"adding"}}
  BY <1>1 DEF Late
<1>5. Counted' = IF place = "done" THEN Counted \cup {r} ELSE Counted
  BY <1>1 DEF Counted
<1>6. \A q \in Counted' : Elapsed(q, "total")' <= max_total_us_'
  <2>1. \A q \in Counted : Elapsed(q, "total")' <= max_total_us_'
    BY <1>3 DEF TotalsInv, Counted
  <2>2. place = "done" => Elapsed(r, "total")' <= max_total_us_'
    BY <1>2, <1>3
  <2>3. QED
    BY <1>5, <2>1, <2>2
<1>7. max_total_us_' \in {Elapsed(q, "total")' : q \in Counted'} \cup {0}
  BY <1>3, <1>5 DEF TotalsInv, Counted
<1>8. \A q \in Request : io'[q] = "exchanging" => current'[q] < Elapsed(q, "total")'
  BY <1>1, <1>2, <1>3 DEF TotalsInv
<1>9. /\ \A q \in Request : io'[q] \notin Late => adding'[q] = Sum
      /\ \A q \in Request : io'[q] \in Late \ {"adding"} => adding'[q] = {}
      /\ \A q \in Request : io'[q] \in Late => work'[q] = "finished"
  BY <1>1 DEF TotalsInv, Late
<1>10. completed_requests_' = Cardinality({q \in Request : io'[q] \in Late \ {"adding"}})
  BY <1>4 DEF TotalsInv
<1>11. QED
  BY <1>2, <1>3, <1>6, <1>7, <1>8, <1>9, <1>10 DEF TotalsInv

\* A successful exchange: the maximum only grows, so that the totals compared with
\* smaller maxima stay below it.
LEMMA ExchangeStep ==
    ASSUME IInv, TotalsInv, NEW r \in Request, io[r] = "exchanging",
           max_total_us_ = current[r], max_total_us_' = Elapsed(r, "total"), GoesTo(r, "done"),
           UNCHANGED <<now, work, at, adding, current, sums, completed_requests_>>
    PROVE  TotalsInv'
<1>1. io'[r] = "done" /\ \A q \in Request : q # r => io'[q] = io[q]
  BY DEF IInv, MarksTyped, GoesTo
<1>2. /\ adding' \in [Request -> SUBSET Sum] /\ sums' \in [Sum -> Int]
      /\ \A s \in Sum : sums'[s] = SumFunctionOnSet(Spans(s)', Added(s)')
      /\ \A q \in Request : Elapsed(q, "total")' = Elapsed(q, "total") /\ Elapsed(q, "total") \in Int
  BY AfterAdding
<1>3. max_total_us_ < max_total_us_' /\ max_total_us_ \in Nat /\ max_total_us_' \in Nat
  BY <1>2 DEF TotalsInv
<1>4. Counted' = Counted \cup {r}
  BY <1>1 DEF Counted
<1>5. {q \in Request : io'[q] \in Late \ {"adding"}} = {q \in Request : io[q] \in Late \ {"adding"}}
  BY <1>1 DEF Late
<1>6. \A q \in Counted' : Elapsed(q, "total")' <= max_total_us_'
  <2>1. \A q \in Counted : Elapsed(q, "total") <= max_total_us_ /\ q \in Request
    BY DEF TotalsInv, Counted
  <2>2. QED
    BY <1>2, <1>3, <1>4, <2>1
<1>7. max_total_us_' \in {Elapsed(q, "total")' : q \in Counted'} \cup {0}
  BY <1>2, <1>4
<1>8. \A q \in Request : io'[q] = "exchanging" => current'[q] < Elapsed(q, "total")'
  BY <1>1, <1>2 DEF TotalsInv
<1>9. /\ \A q \in Request : io'[q] \notin Late => adding'[q] = Sum
      /\ \A q \in Request : io'[q] \in Late \ {"adding"} => adding'[q] = {}
      /\ \A q \in Request : io'[q] \in Late => work'[q] = "finished"
  BY <1>1 DEF TotalsInv, Late
<1>10. /\ completed_requests_' = Cardinality({q \in Request : io'[q] \in Late \ {"adding"}})
       /\ current' \in [Request -> Int]
  BY <1>5 DEF TotalsInv
<1>11. QED
  BY <1>2, <1>3, <1>6, <1>7, <1>8, <1>9, <1>10 DEF TotalsInv

\* Each step keeps the totals.
LEMMA StepKeepsTotals == ASSUME IInv, TotalsInv, [Next]_vars PROVE TotalsInv'
<1>1. ASSUME NEW r \in Request,
             \/ BeginRequest(r) \/ MarkQueued(r) \/ Submit(r)
             \/ MarkReturnedToIo(r) \/ MarkWriteStarted(r) \/ Abandon(r) \/ BeginComplete(r)
      PROVE  TotalsInv'
  <2>1. /\ io[r] \notin Late /\ UNCHANGED counters
        /\ io'[r] \in Late => BeginComplete(r) /\ io'[r] = "adding"
        /\ \A q \in Request : q # r => io'[q] = io[q] /\ work'[q] = work[q] /\ at'[q] = at[q]
    BY <1>1 DEF BeginRequest, MarkQueued, Submit, MarkReturnedToIo, MarkWriteStarted, Abandon,
                BeginComplete, Stamp, GoesTo, Late, IInv, MarksTyped
  <2>2. BeginComplete(r) => work'[r] = "finished"
    BY DEF BeginComplete, IInv, MarksOrdered
  <2>3. QED
    BY <2>1, <2>2, EarlyStep
<1>2. ASSUME NEW r \in Request, MarkWorkerStarted(r) \/ MarkWorkerFinished(r)
      PROVE  TotalsInv'
  <2>1. /\ work[r] # "finished" /\ io'[r] = io[r] /\ UNCHANGED counters
        /\ \A q \in Request : q # r => io'[q] = io[q] /\ work'[q] = work[q] /\ at'[q] = at[q]
    BY <1>2 DEF MarkWorkerStarted, MarkWorkerFinished, Stamp, IInv, MarksTyped
  <2>2. io[r] \notin Late
    BY <2>1 DEF TotalsInv
  <2>3. QED
    BY <2>1, <2>2, EarlyStep
<1>3. ASSUME NEW r \in Request, LoadMax(r) \/ ExchangeMax(r) PROVE TotalsInv'
  <2>1. CASE LoadMax(r)
    BY <2>1, CompareStep DEF LoadMax
  <2>2. CASE /\ ExchangeMax(r) /\ UNCHANGED max_total_us_
             /\ current' = [current EXCEPT ![r] = max_total_us_]
             /\ GoesTo(r, IF max_total_us_ < Elapsed(r, "total") THEN "exchanging" ELSE "done")
    BY <2>2, CompareStep DEF ExchangeMax
  <2>3. CASE /\ ExchangeMax(r) /\ UNCHANGED current
             /\ max_total_us_ = current[r] /\ max_total_us_' = Elapsed(r, "total")
             /\ GoesTo(r, "done")
    BY <2>3, ExchangeStep DEF ExchangeMax
  <2>4. QED
    BY <1>3, <2>1, <2>2, <2>3 DEF ExchangeMax
<1>4. CASE Tick \/ UNCHANGED vars
  <2>1. UNCHANGED <<io, work, at, adding, current, sums, completed_requests_, max_total_us_>>
    BY <1>4 DEF Tick, counters, vars
  <2>2. \A r \in Request : Elapsed(r, "total")' = Elapsed(r, "total")
    BY <2>1, AfterAdding
  <2>3. /\ adding' \in [Request -> SUBSET Sum] /\ sums' \in [Sum -> Int]
        /\ \A s \in Sum : sums'[s] = SumFunctionOnSet(Spans(s)', Added(s)')
    BY <2>1, AfterAdding
  <2>4. /\ {Elapsed(q, "total")' : q \in Counted'} = {Elapsed(q, "total") : q \in Counted}
        /\ Counted' = Counted /\ Counted \subseteq Request
    BY <2>1, <2>2 DEF Counted
  <2>5. QED
    BY <2>1, <2>2, <2>3, <2>4 DEF TotalsInv
<1>5. QED
  BY <1>1, <1>2, <1>3, <1>4, AddStep, CountStep DEF Next

\* At rest every request is before its additions, abandoned or done.
LEMMA RestIsTotal == IInv /\ TotalsInv => TotalsAtRest
<1> SUFFICES ASSUME IInv, TotalsInv,
                    \A r \in Request : io[r] \notin {"adding", "loading", "exchanging"}
             PROVE  /\ completed_requests_ = Cardinality(Counted)
                    /\ \A s \in Sum : sums[s] =
                          SumFunctionOnSet([r \in Request |-> Elapsed(r, s)], Counted)
                    /\ max_total_us_ = Max({Elapsed(r, "total") : r \in Counted} \cup {0})
  BY DEF TotalsAtRest
<1>1. {r \in Request : io[r] \in Late \ {"adding"}} = Counted
  BY DEF Late, Counted
<1>2. \A s \in Sum : Added(s) = Counted
  BY DEF TotalsInv, Late, Counted, Added
<1>3. \A s \in Sum : sums[s] = SumFunctionOnSet([r \in Request |-> Elapsed(r, s)], Counted)
  BY <1>2 DEF TotalsInv, Spans
<1>4. max_total_us_ = Max({Elapsed(r, "total") : r \in Counted} \cup {0})
  <2> DEFINE T == {Elapsed(r, "total") : r \in Counted} \cup {0}
  <2>1. \A x \in T : x \in Int
    BY ElapsedType DEF Counted, Sum
  <2>2. max_total_us_ \in T /\ \A x \in T : max_total_us_ >= x
    BY <2>1 DEF TotalsInv
  <2> HIDE DEF T
  <2>3. \A x \in T : (\A y \in T : x >= y) => x = max_total_us_
    BY <2>1, <2>2
  <2>4. Max(T) \in T /\ \A y \in T : Max(T) >= y
    BY <2>2 DEF Max
  <2>5. Max(T) = max_total_us_
    BY <2>3, <2>4
  <2>6. QED
    BY <2>5 DEF T
<1>5. completed_requests_ = Cardinality(Counted)
  BY <1>1 DEF TotalsInv
<1>6. QED
  BY <1>3, <1>4, <1>5

\* Whenever no thread is inside complete(), the counters are the number, the sums and
\* the maximum of the spans of the requests completed, for any number of threads
\* and any interleaving of their atomic operations (complete, updateMax).
THEOREM TotalsAreExact == Spec => []TotalsAtRest
<1>1. Init => IInv /\ TotalsInv
  BY InitInv, TotalsInit
<1>2. IInv /\ TotalsInv /\ [Next]_vars => IInv' /\ TotalsInv'
  BY StepKeepsOrder, StepKeepsTotals
<1>3. QED
  BY <1>1, <1>2, RestIsTotal, PTL DEF Spec
================================================================================
