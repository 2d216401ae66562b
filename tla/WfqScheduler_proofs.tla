------------------------ MODULE WfqScheduler_proofs ------------------------
(***************************************************************************)
(* The scheduler never starves a level, whatever the weights and however   *)
(* the application fills the queues.                                       *)
(***************************************************************************)
EXTENDS WfqScheduler, TLAPS

\* First is the most urgent level of a nonempty set.
LEMMA FirstIsLeast ==
    ASSUME NEW S \in SUBSET Levels, S # {}
    PROVE  /\ First(S) \in S
           /\ \A j \in S : First(S) <= j
<1>1. \E i \in S : \A j \in S : i <= j
  <2>1. CASE 0 \in S
    BY <2>1 DEF Levels
  <2>2. CASE 0 \notin S /\ 1 \in S
    BY <2>2 DEF Levels
  <2>3. CASE 0 \notin S /\ 1 \notin S /\ 2 \in S
    BY <2>3 DEF Levels
  <2>4. CASE 0 \notin S /\ 1 \notin S /\ 2 \notin S
    <3>1. \A j \in S : j = 3
      BY <2>4 DEF Levels
    <3> QED BY <3>1
  <2> QED BY <2>1, <2>2, <2>3, <2>4
<1> QED BY <1>1 DEF First

\* The sums of the budgets are natural numbers.
LEMMA SumsAreNat ==
    ASSUME NEW f \in [Levels -> Nat], NEW i \in Levels
    PROVE  Others(f, i) \in Nat /\ Above(f, i) \in Nat /\ Above(f, i) <= Others(f, i)
BY DEF Levels, Others, Total, Above

\* Serving a level keeps the variables in their types.
LEMMA ServeTypeOK ==
    ASSUME TypeOK, NEW i \in Backlog, NEW budget \in [Levels -> Nat],
           budget[i] > 0, \A j \in Levels : budget[j] <= Weights[j],
           Serve(i, budget)
    PROVE  TypeOK'
<1>1. i \in Levels /\ queues[i] # <<>>
  BY DEF Backlog
<1>2. queues' \in [Levels -> Seq(Items)]
  BY <1>1 DEF TypeOK, Serve
<1>3. credits' \in [Levels -> Nat] /\ \A j \in Levels : credits'[j] <= Weights[j]
  <2>1. budget[i] - 1 \in Nat /\ budget[i] - 1 <= Weights[i]
    BY <1>1, WfqAssumption
  <2>2. credits' = [budget EXCEPT ![i] = budget[i] - 1]
    BY DEF Serve
  <2>3. \A j \in Levels : credits'[j] = IF j = i THEN budget[i] - 1 ELSE budget[j]
    BY <2>2
  <2> QED BY <1>1, <2>1, <2>2, <2>3
<1>4. popped' \in Items \cup {None}
  BY <1>1 DEF TypeOK, Serve
<1>5. wait' \in [Levels -> Nat]
  BY DEF TypeOK, Serve
<1> QED BY <1>2, <1>3, <1>4, <1>5 DEF TypeOK

\* The type invariant holds initially.
LEMMA InitTypeOK == Init => TypeOK
BY WfqAssumption DEF Init, TypeOK, Levels

\* Every operation preserves the type invariant.
LEMMA StepTypeOK == TypeOK /\ [Next]_vars => TypeOK'
<1> SUFFICES ASSUME TypeOK, [Next]_vars PROVE TypeOK'
  OBVIOUS
<1>1. CASE UNCHANGED vars
  BY <1>1 DEF vars, TypeOK
<1>2. ASSUME NEW item \in Items, NEW i \in Levels, Enqueue(item, i)
      PROVE  TypeOK'
  BY <1>2 DEF Enqueue, TypeOK
<1>3. CASE PopWithCredit
  <2>1. First(Ready) \in Ready /\ Ready \subseteq Backlog
    BY <1>3, FirstIsLeast DEF PopWithCredit, Ready, Backlog
  <2> QED BY <1>3, <2>1, ServeTypeOK DEF PopWithCredit, Ready, TypeOK
<1>4. CASE PopNewRound
  <2>1. First(Backlog) \in Backlog /\ First(Backlog) \in Levels
    BY <1>4, FirstIsLeast DEF PopNewRound, Backlog
  <2>2. /\ Weights \in [Levels -> Nat]
        /\ \A j \in Levels : Weights[j] > 0 /\ Weights[j] <= Weights[j]
    BY WfqAssumption
  <2> QED BY <1>4, <2>1, <2>2, ServeTypeOK DEF PopNewRound
<1>5. CASE PopEmpty
  BY <1>5, WfqAssumption DEF PopEmpty, TypeOK
<1> QED BY <1>1, <1>2, <1>3, <1>4, <1>5 DEF Next, Pop

\* Type correctness of the scheduler (src/scheduler.rs).
THEOREM TypeCorrect == Spec => []TypeOK
BY InitTypeOK, StepTypeOK, PTL DEF Spec

-----------------------------------------------------------------------------

\* Charging level i one credit takes one off every sum that counts level i.
LEMMA ChargeLowersSums ==
    ASSUME NEW f \in [Levels -> Nat], NEW g \in [Levels -> Nat],
           NEW i \in Levels, g[i] = f[i] - 1,
           \A k \in Levels : k # i => g[k] = f[k],
           NEW j \in Levels
    PROVE  /\ j = i => Others(g, j) = Others(f, j) /\ Above(g, j) = Above(f, j)
           /\ j # i => Others(g, j) = Others(f, j) - 1
           /\ i < j => Above(g, j) = Above(f, j) - 1
           /\ Above(g, j) <= Above(f, j)
<1>1. \A k \in Levels : f[k] \in Nat /\ g[k] = IF k = i THEN f[i] - 1 ELSE f[k]
  OBVIOUS
<1>2. CASE i = 0
  BY <1>1, <1>2 DEF Levels, Others, Total, Above
<1>3. CASE i = 1
  BY <1>1, <1>3 DEF Levels, Others, Total, Above
<1>4. CASE i = 2
  BY <1>1, <1>4 DEF Levels, Others, Total, Above
<1>5. CASE i = 3
  BY <1>1, <1>5 DEF Levels, Others, Total, Above
<1> QED BY <1>2, <1>3, <1>4, <1>5 DEF Levels

\* A budget within the weights has sums within those of the weights.
LEMMA SumsAreMonotone ==
    ASSUME NEW f \in [Levels -> Nat], NEW g \in [Levels -> Nat], NEW i \in Levels,
           \A j \in Levels : f[j] <= g[j]
    PROVE  Others(f, i) <= Others(g, i) /\ Above(f, i) <= Above(g, i)
BY DEF Levels, Others, Total, Above

\* What a level has waited and can still wait is within its bound when the
\* round starts: the waiting levels have no credits left.
LEMMA NewRoundCovers ==
    ASSUME TypeOK, BudgetCoversWait, Ready = {}, NEW j \in Backlog
    PROVE  wait[j] <= Others(Weights, j)
<1>1. j \in Levels /\ credits[j] = 0
  BY DEF TypeOK, Ready, Backlog
<1>2. wait[j] + Others(credits, j) <= Others(Weights, j)
  BY <1>1 DEF BudgetCoversWait
<1>3. Others(credits, j) \in Nat /\ Others(Weights, j) \in Nat /\ wait[j] \in Nat
  BY <1>1, SumsAreNat, WfqAssumption DEF TypeOK
<1> QED BY <1>2, <1>3

\* Serving the most urgent level it may keeps a level within its bound.
LEMMA ServeCovers ==
    ASSUME TypeOK, NEW i \in Backlog, NEW budget \in [Levels -> Nat],
           budget[i] > 0, \A j \in Levels : budget[j] <= Weights[j],
           Serve(i, budget),
           \A j \in Backlog : budget[j] > 0 => i <= j,
           \A j \in Backlog :
              IF budget[j] > 0
              THEN wait[j] + Above(budget, j) <= Others(Weights, j) + Above(Weights, j)
              ELSE wait[j] + Others(budget, j) <= Others(Weights, j)
    PROVE  BudgetCoversWait'
<1> SUFFICES ASSUME NEW j \in Levels
             PROVE  IF credits'[j] > 0
                    THEN wait'[j] + Above(credits', j)
                           <= Others(Weights, j) + Above(Weights, j)
                    ELSE wait'[j] + Others(credits', j) <= Others(Weights, j)
  BY DEF BudgetCoversWait
<1>1. i \in Levels /\ Weights \in [Levels -> Nat]
  BY WfqAssumption DEF Backlog
<1>2. credits' = [budget EXCEPT ![i] = @ - 1]
  BY DEF Serve
<1>3. /\ \A k \in Levels : credits'[k] = IF k = i THEN budget[i] - 1 ELSE budget[k]
      /\ credits' \in [Levels -> Nat]
  <2>1. budget[i] - 1 \in Nat
    BY <1>1
  <2> QED BY <1>1, <1>2, <2>1
<1>4. wait'[j] = IF j # i /\ j \in Backlog THEN wait[j] + 1 ELSE 0
  BY DEF Serve
<1>5. /\ j = i => Others(credits', j) = Others(budget, j) /\ Above(credits', j) = Above(budget, j)
      /\ j # i => Others(credits', j) = Others(budget, j) - 1
      /\ i < j => Above(credits', j) = Above(budget, j) - 1
      /\ Above(credits', j) <= Above(budget, j)
  BY <1>1, <1>3, ChargeLowersSums
<1>6. Others(budget, j) <= Others(Weights, j) /\ Above(budget, j) <= Above(Weights, j)
  BY <1>1, SumsAreMonotone
<1>7. /\ Others(budget, j) \in Nat /\ Above(budget, j) \in Nat
      /\ Others(Weights, j) \in Nat /\ Above(Weights, j) \in Nat
      /\ Others(credits', j) \in Nat /\ Above(credits', j) \in Nat
      /\ wait[j] \in Nat /\ budget[j] \in Nat
  BY <1>1, <1>3, SumsAreNat DEF TypeOK
<1>8. CASE j = i
  BY <1>3, <1>4, <1>5, <1>6, <1>7, <1>8
<1>9. CASE j # i /\ j \notin Backlog
  BY <1>3, <1>4, <1>5, <1>6, <1>7, <1>9
<1>10. CASE j # i /\ j \in Backlog
  <2>1. CASE budget[j] > 0
    <3>1. i < j
      BY <1>1, <1>10, <2>1 DEF Levels
    <3> QED BY <1>3, <1>4, <1>5, <1>7, <1>10, <2>1, <3>1
  <2>2. CASE ~(budget[j] > 0)
    BY <1>3, <1>4, <1>5, <1>7, <1>10, <2>2
  <2> QED BY <2>1, <2>2
<1> QED BY <1>8, <1>9, <1>10

\* The scheduler's inductive invariant.
LEMMA Inductive == IInv /\ [Next]_vars => IInv'
<1> SUFFICES ASSUME IInv, [Next]_vars PROVE NoWaitWhenEmpty' /\ BudgetCoversWait'
  BY StepTypeOK DEF IInv
<1> USE DEF IInv
<1>1. CASE UNCHANGED vars
  BY <1>1 DEF vars, NoWaitWhenEmpty, Backlog, BudgetCoversWait, Others, Total, Above
<1>2. ASSUME NEW item \in Items, NEW i \in Levels, Enqueue(item, i)
      PROVE  NoWaitWhenEmpty' /\ BudgetCoversWait'
  <2>1. ASSUME NEW j \in Levels, queues[j] # <<>> PROVE queues'[j] # <<>>
    <3>1. queues[i] \in Seq(Items)
      BY DEF TypeOK
    <3>2. Len(Append(queues[i], item)) = Len(queues[i]) + 1 /\ Len(queues[i]) \in Nat
      BY <3>1
    <3>3. Append(queues[i], item) # <<>>
      BY <3>2
    <3>4. queues'[j] = IF j = i THEN Append(queues[i], item) ELSE queues[j]
      BY <1>2 DEF Enqueue, TypeOK
    <3> QED BY <2>1, <3>3, <3>4
  <2>2. NoWaitWhenEmpty'
    BY <1>2, <2>1 DEF Enqueue, NoWaitWhenEmpty, Backlog
  <2>3. BudgetCoversWait'
    BY <1>2 DEF Enqueue, BudgetCoversWait, Others, Total, Above
  <2> QED BY <2>2, <2>3
<1>3. ASSUME NEW i \in Levels, NEW budget, Serve(i, budget)
      PROVE  NoWaitWhenEmpty'
  <2> SUFFICES ASSUME NEW j \in Levels, queues'[j] = <<>> PROVE wait'[j] = 0
    BY DEF NoWaitWhenEmpty, Backlog
  <2>1. j # i => queues'[j] = queues[j]
    BY <1>3 DEF Serve, TypeOK
  <2> QED BY <1>3, <2>1 DEF Serve, Backlog
<1>4. CASE PopWithCredit
  <2>1. Ready \in SUBSET Levels /\ Ready # {}
    BY <1>4 DEF PopWithCredit, Ready, Backlog
  <2>2. /\ First(Ready) \in Backlog /\ credits[First(Ready)] > 0
        /\ \A j \in Backlog : credits[j] > 0 => First(Ready) <= j
    BY <2>1, FirstIsLeast DEF Ready
  <2>3. \A j \in Backlog :
              IF credits[j] > 0
              THEN wait[j] + Above(credits, j) <= Others(Weights, j) + Above(Weights, j)
              ELSE wait[j] + Others(credits, j) <= Others(Weights, j)
    BY DEF BudgetCoversWait, Backlog
  <2>4. Serve(First(Ready), credits)
    BY <1>4 DEF PopWithCredit
  <2>5. BudgetCoversWait'
    BY <2>2, <2>3, <2>4, ServeCovers DEF TypeOK
  <2> QED BY <1>3, <2>2, <2>4, <2>5 DEF Backlog
<1>5. CASE PopNewRound
  <2>1. First(Backlog) \in Backlog /\ \A j \in Backlog : First(Backlog) <= j
    BY <1>5, FirstIsLeast DEF PopNewRound, Backlog
  <2>2. /\ Weights \in [Levels -> Nat]
        /\ \A j \in Levels : Weights[j] > 0 /\ Weights[j] <= Weights[j]
    BY WfqAssumption
  <2>3. ASSUME NEW j \in Backlog
        PROVE  wait[j] + Above(Weights, j) <= Others(Weights, j) + Above(Weights, j)
    <3>1. wait[j] <= Others(Weights, j)
      BY <1>5, NewRoundCovers DEF PopNewRound
    <3>2. wait[j] \in Nat /\ Others(Weights, j) \in Nat /\ Above(Weights, j) \in Nat
      BY <2>2, SumsAreNat DEF TypeOK, Backlog
    <3> QED BY <3>1, <3>2
  <2>4. Serve(First(Backlog), Weights)
    BY <1>5 DEF PopNewRound
  <2>5. \A j \in Backlog : Weights[j] > 0
    BY <2>2 DEF Backlog
  <2>6. BudgetCoversWait'
    BY <2>1, <2>2, <2>3, <2>4, <2>5, ServeCovers
  <2> QED BY <1>3, <2>1, <2>4, <2>6 DEF Backlog
<1>6. CASE PopEmpty
  <2>1. NoWaitWhenEmpty'
    BY <1>6 DEF PopEmpty, NoWaitWhenEmpty, Backlog
  <2>2. ASSUME NEW j \in Levels
        PROVE  Weights[j] > 0 /\ wait'[j] + Above(Weights, j)
                                    <= Others(Weights, j) + Above(Weights, j)
    <3>1. wait'[j] = 0
      BY <1>6 DEF PopEmpty, NoWaitWhenEmpty
    <3>2. Weights[j] > 0 /\ Others(Weights, j) \in Nat /\ Above(Weights, j) \in Nat
      BY SumsAreNat, WfqAssumption
    <3> QED BY <3>1, <3>2
  <2>3. credits' = Weights
    BY <1>6 DEF PopEmpty
  <2> QED BY <2>1, <2>2, <2>3 DEF BudgetCoversWait
<1> QED BY <1>1, <1>2, <1>4, <1>5, <1>6 DEF Next, Pop

\* The budget of a level covers its wait: what makes the bound inductive.
THEOREM IInvHolds == Spec => []IInv
<1>1. Init => IInv
  <2> SUFFICES ASSUME Init PROVE NoWaitWhenEmpty /\ BudgetCoversWait
    BY InitTypeOK DEF IInv
  <2>1. NoWaitWhenEmpty
    BY DEF Init, NoWaitWhenEmpty
  <2>2. ASSUME NEW j \in Levels
        PROVE  credits[j] > 0 /\ wait[j] + Above(credits, j)
                                    <= Others(Weights, j) + Above(Weights, j)
    <3>1. wait[j] = 0 /\ credits = Weights
      BY DEF Init
    <3>2. Weights[j] > 0 /\ Others(Weights, j) \in Nat /\ Above(Weights, j) \in Nat
      BY SumsAreNat, WfqAssumption
    <3> QED BY <3>1, <3>2
  <2> QED BY <2>1, <2>2 DEF BudgetCoversWait
<1> QED BY <1>1, Inductive, PTL DEF Spec

\* No starvation (src/scheduler.rs, MessagePriority): the head of every level
\* is popped within the bound, for all positive weights.
THEOREM NoStarvation == Spec => []BoundedWait
<1>1. IInv => BoundedWait
  <2> SUFFICES ASSUME IInv, NEW j \in Levels
               PROVE  wait[j] <= Others(Weights, j) + Above(Weights, j)
    BY DEF BoundedWait
  <2>1. /\ Others(Weights, j) \in Nat /\ Above(Weights, j) \in Nat
        /\ Others(credits, j) \in Nat /\ Above(credits, j) \in Nat
        /\ wait[j] \in Nat
    BY SumsAreNat, WfqAssumption DEF IInv, TypeOK
  <2> QED BY <2>1 DEF IInv, BudgetCoversWait
<1> QED BY <1>1, IInvHolds, PTL

\* Work conservation (WfqScheduler::pop, "Returns `None` if all queues are
\* empty").
THEOREM PopIsWorkConserving == Spec => NoneMeansEmpty
<1>1. TypeOK /\ [Next]_vars => [popped' = None /\ queues' = queues => Backlog = {}]_vars
  <2> SUFFICES ASSUME TypeOK, Next, popped' = None, queues' = queues PROVE Backlog = {}
    OBVIOUS
  <2>1. ASSUME NEW i \in Backlog, NEW budget, Serve(i, budget) PROVE FALSE
    BY <2>1, WfqAssumption DEF Serve, TypeOK, Backlog
  <2>2. CASE PopWithCredit
    <3>1. First(Ready) \in Backlog
      BY <2>2, FirstIsLeast DEF PopWithCredit, Ready, Backlog
    <3> QED BY <2>1, <2>2, <3>1 DEF PopWithCredit
  <2>3. CASE PopNewRound
    <3>1. First(Backlog) \in Backlog
      BY <2>3, FirstIsLeast DEF PopNewRound, Backlog
    <3> QED BY <2>1, <2>3, <3>1 DEF PopNewRound
  <2>4. ASSUME NEW item \in Items, NEW i \in Levels, Enqueue(item, i) PROVE FALSE
    <3>1. queues[i] \in Seq(Items) /\ queues'[i] = Append(queues[i], item)
      BY <2>4 DEF Enqueue, TypeOK
    <3> QED BY <3>1
  <2> QED BY <2>2, <2>3, <2>4 DEF Next, Pop, PopEmpty
<1> QED BY <1>1, TypeCorrect, PTL DEF Spec, NoneMeansEmpty

=============================================================================
