---------------------------- MODULE WfqScheduler ----------------------------
(***************************************************************************)
(* The credit-based weighted fair queue of src/scheduler.rs that orders    *)
(* outgoing frames on both sides of a connection: one FIFO queue per       *)
(* priority level and a budget of credits per level and round.             *)
(***************************************************************************)
EXTENDS Integers, Sequences

CONSTANTS
    Weights,    \* WFQ_WEIGHTS: credits per round
    Items,      \* what is queued
    None,       \* pop found every queue empty
    MaxLen      \* bound: items per queue

\* MessagePriority as usize; level 0 is the most urgent one.
Levels == 0..3

ASSUME WfqAssumption ==
    /\ Weights \in [Levels -> Nat \ {0}]
    /\ None \notin Items
    /\ MaxLen \in Nat

VARIABLES
    queues,     \* WfqScheduler.queues
    credits,    \* WfqScheduler.credits
    popped,     \* the result of the last pop
    wait        \* history: pops that served another level while this one had
                \* items, since this one was served last

vars == <<queues, credits, popped, wait>>

TypeOK ==
    /\ queues \in [Levels -> Seq(Items)]
    /\ credits \in [Levels -> Nat]
    /\ \A i \in Levels : credits[i] <= Weights[i]
    /\ popped \in Items \cup {None}
    /\ wait \in [Levels -> Nat]

Init ==
    /\ queues = [i \in Levels |-> <<>>]
    /\ credits = Weights
    /\ popped = None
    /\ wait = [i \in Levels |-> 0]

-----------------------------------------------------------------------------

Enqueue(item, i) ==
    /\ Len(queues[i]) < MaxLen
    /\ queues' = [queues EXCEPT ![i] = Append(@, item)]
    /\ UNCHANGED <<credits, popped, wait>>

Backlog == {i \in Levels : queues[i] # <<>>}

\* Mutant: the first pass forgets to look at the credits.
ReadyIgnoringCredits == Backlog

\* The levels the first pass of pop can serve.
Ready == {i \in Backlog : credits[i] > 0}

\* Both passes scan upwards from level 0.
First(S) == CHOOSE i \in S : \A j \in S : i <= j

\* Mutant: serving a level costs it nothing.
ServeForFree(i, budget) ==
    /\ queues' = [queues EXCEPT ![i] = Tail(@)]
    /\ credits' = budget
    /\ popped' = Head(queues[i])
    /\ wait' = [j \in Levels |->
                  IF j # i /\ j \in Backlog THEN wait[j] + 1 ELSE 0]

\* Dequeue from level i, with these budgets.
Serve(i, budget) ==
    /\ queues' = [queues EXCEPT ![i] = Tail(@)]
    /\ credits' = [budget EXCEPT ![i] = @ - 1]
    /\ popped' = Head(queues[i])
    /\ wait' = [j \in Levels |->
                  IF j # i /\ j \in Backlog THEN wait[j] + 1 ELSE 0]

PopWithCredit == Ready # {} /\ Serve(First(Ready), credits)

\* Mutant: pop gives up when the credits of the waiting levels are used up,
\* and the next pop finds new ones.
PopNewRoundLate ==
    /\ Ready = {} /\ Backlog # {}
    /\ credits' = Weights /\ popped' = None
    /\ UNCHANGED <<queues, wait>>

\* No level with items has credits left: reset the budgets and pop again.
PopNewRound == Ready = {} /\ Backlog # {} /\ Serve(First(Backlog), Weights)

\* pop resets the budgets even when it finds nothing.
PopEmpty ==
    /\ Backlog = {}
    /\ credits' = Weights /\ popped' = None
    /\ UNCHANGED <<queues, wait>>

Pop == PopWithCredit \/ PopNewRound \/ PopEmpty

Next == Pop \/ \E item \in Items, i \in Levels : Enqueue(item, i)

Spec == Init /\ [][Next]_vars

-----------------------------------------------------------------------------

Total(f)    == f[0] + f[1] + f[2] + f[3]
Others(f, i) == Total(f) - f[i]
\* The sum over the levels more urgent than i.
Above(f, i) == (IF 0 < i THEN f[0] ELSE 0) + (IF 1 < i THEN f[1] ELSE 0)
               + (IF 2 < i THEN f[2] ELSE 0)

\* No starvation: however the other levels are kept filled, the head of level i
\* is popped after at most the rest of this round and the more urgent share of
\* the next one.  With weights 8, 4, 2, 1 that is 7, 19, 25 and 28 pops.
BoundedWait == \A i \in Levels : wait[i] <= Others(Weights, i) + Above(Weights, i)

\* While level i still has credits only the more urgent levels can delay it;
\* once they are used up every other level can, until the round ends.
BudgetCoversWait ==
    \A i \in Levels :
        IF credits[i] > 0
        THEN wait[i] + Above(credits, i) <= Others(Weights, i) + Above(Weights, i)
        ELSE wait[i] + Others(credits, i) <= Others(Weights, i)

NoWaitWhenEmpty == \A i \in Levels : i \notin Backlog => wait[i] = 0

\* The inductive invariant behind BoundedWait.
IInv == TypeOK /\ NoWaitWhenEmpty /\ BudgetCoversWait

\* Work conservation: pop returns None (and takes nothing) only when every
\* queue is empty, so a send loop that stops at None strands no frame.
NoneMeansEmpty ==
    [][popped' = None /\ queues' = queues => Backlog = {}]_vars

=============================================================================
