------------------------------ MODULE MCBlocking -------------------------------
(***************************************************************************)
(* Two parts in which threads wait on condition variables, in one run: the *)
(* bounded FIFO queue with its overflow strategy, and the once block.  The *)
(* initial state picks the one that moves.                                 *)
(***************************************************************************)
EXTENDS BoundedFifoQueue, OnceBlock

VARIABLE
    part             \* the part that was picked

blockingVars == <<part, vars, onceVars>>

QueueMoves == part = "queue" /\ UNCHANGED <<part, onceVars>>
OnceMoves == part = "once block" /\ UNCHANGED <<part, vars>>

\* Which block a thread came to last means nothing before it came to one.
BlockingInit ==
    /\ part \in {"queue", "once block"}
    /\ Init
    /\ OnceInit
    /\ at = [t \in Threads |-> CHOOSE f \in Flags : TRUE]

BlockingNext ==
    \/ QueueMoves /\ Next
    \/ OnceMoves /\ OnceNext

\* The fairness of the two parts; the steps of one thread exclude one another.
BlockingFairness ==
    /\ \A p \in Producers : WF_blockingVars(QueueMoves /\ on_overflow_return(p))
    /\ WF_blockingVars(QueueMoves /\ dequeue_ready)
    /\ \A t \in Threads :
          WF_blockingVars(OnceMoves /\ (enter_once_block(t) \/ commit(t) \/ Broadcast(t)))

BlockingSpec == BlockingInit /\ [][BlockingNext]_blockingVars /\ BlockingFairness
===============================================================================
