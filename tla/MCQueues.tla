------------------------------- MODULE MCQueues -------------------------------
(***************************************************************************)
(* The queues of asynchronous sinks other than the blocking one, in one    *)
(* run: the unbounded FIFO queue on its event, the queue below that one,   *)
(* and the bounded FIFO queue that drops records on overflow.  The initial *)
(* state picks the queue that runs; the others keep their initial state.   *)
(***************************************************************************)
EXTENDS ThreadsafeQueue

CONSTANTS
    Producers, Interrupters, NumRecords, MaxInterrupts, MaxQueueSize, Strategy

VARIABLES
    part,                                                \* the queue that was picked
    queue, feeder, pc, sent, fed, interrupts,            \* of either FIFO queue
    state, semaphore, interruption, pending, unanswered, \* of the unbounded one
    interrupted, contexts, result, discarded             \* of the bounded one

Unbounded == INSTANCE UnboundedFifoQueue
Dropping == INSTANCE BoundedFifoQueue

ASSUME UnboundedAssumptions == Unbounded!ConstantsAreSound
ASSUME DroppingAssumptions ==
    /\ MaxQueueSize \in Nat \ {0} /\ Strategy \in {"block", "drop"}
    /\ NumRecords \in Nat /\ MaxInterrupts \in Nat

ofUnbounded == <<state, semaphore, interruption, pending, unanswered>>
ofDropping == <<interrupted, contexts, result, discarded>>
fifoVars == <<queue, feeder, pc, sent, fed, interrupts, ofUnbounded, ofDropping>>
queueVars == <<part, tqVars, fifoVars>>

Threadsafe == part = "threadsafe"
Fifo == part = "unbounded"
Drop == part = "dropping"

Init ==
    /\ part \in {"threadsafe", "unbounded", "dropping"}
    /\ IF Drop THEN TQStart("generic") ELSE TQInit
    /\ Threadsafe \/ running = QueueThreads
    /\ queue = <<>> /\ feeder = "idle" /\ fed = <<>> /\ interrupts = 0
    /\ sent = [p \in Producers |-> 0]
    /\ pc = [t \in Producers \cup (IF Drop THEN {} ELSE Interrupters) |-> "idle"]
    /\ state = FALSE /\ semaphore = 0 /\ interruption = FALSE
    /\ pending = <<>> /\ unanswered = FALSE
    /\ interrupted = FALSE /\ contexts = <<>> /\ discarded = {}
    /\ result = [p \in Producers |-> TRUE]

Next ==
    /\ UNCHANGED part
    /\ \/ Threadsafe /\ TQNext /\ UNCHANGED fifoVars
       \/ Fifo /\ Unbounded!Next /\ UNCHANGED <<tqVars, ofDropping>>
       \/ Drop /\ Dropping!Next /\ UNCHANGED <<tqVars, ofUnbounded>>

\* The fairness of the two queues whose liveness is checked; the steps of one
\* thread exclude one another.
Fairness ==
    /\ \A p \in Pushers :
          WF_queueVars(/\ Threadsafe /\ p \in running /\ ~crashed /\ PushStep(p)
                       /\ UNCHANGED <<part, implementation, running, fifoVars>>)
    /\ WF_queueVars(/\ Threadsafe /\ Popper \in running /\ ~crashed /\ PopStep
                    /\ UNCHANGED <<part, implementation, running, fifoVars>>)
    /\ \A t \in Producers \cup Interrupters :
          WF_queueVars(/\ Fifo /\ (Unbounded!TrySet(t) \/ Unbounded!SemPost(t))
                       /\ UNCHANGED <<part, tqVars, ofDropping>>)
    /\ WF_queueVars(Fifo /\ Unbounded!FeederStep /\ UNCHANGED <<part, tqVars, ofDropping>>)
    /\ WF_queueVars(Fifo /\ Unbounded!Drain /\ UNCHANGED <<part, tqVars, ofDropping>>)

Spec == Init /\ [][Next]_queueVars /\ Fairness

-------------------------------------------------------------------------------
\* On the bounded queue and on the unbounded one over the generic list the
\* feeding thread never stays asleep over a record whose enqueue returned.  Over
\* the dcas list it may (SleepsOnlyWhenEmpty of UnboundedFifoQueue, which is
\* violated there), but the next signal wakes it.  In every build the event
\* neither overflows its semaphore nor stays signalled with nothing to wake the
\* feeding thread.
FeederIsWoken ==
    /\ Fifo => /\ Unbounded!Wakes
               /\ Unbounded!SemaphoreIsBinary
               /\ Unbounded!SignalIsNeverStuck
    /\ Drop => Dropping!NeverSleepsOnRecords

\* Both FIFO queues are channels, and only the one that drops loses records,
\* those it discards: the rest arrive once and in order.
FifosAreChannels ==
    [][/\ Fifo => Unbounded!Channel!Next \/ UNCHANGED Unbounded!Channel!channel
       /\ Drop => Dropping!Channel!Next \/ UNCHANGED Dropping!Channel!channel
      ]_<<queue, fed, discarded>>

\* The records in the unbounded queue are handed to the feeding thread: the
\* threads log finitely many, so the queue runs empty.  The exception is a
\* feeding thread over the dcas list that sleeps until the next signal.
RecordsAreFed ==
    Fifo /\ queue # <<>> ~> queue = <<>> \/ (implementation = "dcas" /\ Unbounded!Asleep)
===============================================================================
