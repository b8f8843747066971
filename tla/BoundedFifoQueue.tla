--------------------------- MODULE BoundedFifoQueue ---------------------------
(***************************************************************************)
(* sinks::bounded_fifo_queue together with its overflow strategy           *)
(* (block_on_overflow or drop_on_overflow), as the logging threads and the *)
(* one feeding thread of an asynchronous sink call it.  Every member       *)
(* function runs under m_mutex and leaves it only by returning or inside a *)
(* condition variable, so an action is one critical section: from taking   *)
(* the mutex to the return or to the wait.                                 *)
(***************************************************************************)
EXTENDS Naturals, Sequences, Functions

CONSTANTS
    Producers,       \* threads that log
    MaxQueueSize,    \* MaxQueueSizeV
    Strategy,        \* OverflowStrategyT
    NumRecords,      \* bound: records each producer logs
    MaxInterrupts    \* bound: calls of interrupt_dequeue

ASSUME MaxQueueSizeAssumption == MaxQueueSize \in Nat \ {0}
ASSUME StrategyAssumption == Strategy \in {"block", "drop"}
ASSUME BoundsAssumption == NumRecords \in Nat /\ MaxInterrupts \in Nat

VARIABLES
    queue,           \* m_queue
    interrupted,     \* m_interruption_requested
    contexts,        \* m_thread_contexts: the threads linked in on_overflow
    result,          \* thread_context::result of each thread in on_overflow
    pc,              \* is the producer inside the wait of on_overflow?
    feeder,          \* where the feeding thread stands on m_cond
    sent,            \* how many records each producer has passed to the queue
    fed,             \* history: the records the feeding thread received
    discarded,       \* history: the records enqueue returned without queueing
    interrupts       \* history: calls of interrupt_dequeue so far

vars == <<queue, interrupted, contexts, result, pc, feeder, sent, fed,
          discarded, interrupts>>

Records == Producers \X (1..NumRecords)

\* The record a blocked producer carries, and the one an idle one logs next.
Carried(p) == <<p, sent[p]>>
NextRecord(p) == <<p, sent[p] + 1>>

Blocked(p) == pc[p] = "blocked"
Linked(p) == p \in Range(contexts)

TypeOK ==
    /\ queue \in Seq(Records)
    /\ interrupted \in BOOLEAN
    /\ contexts \in Seq(Producers)
    /\ result \in [Producers -> BOOLEAN]
    /\ pc \in [Producers -> {"idle", "blocked"}]
    /\ feeder \in {"idle", "waiting", "woken"}
    /\ sent \in [Producers -> 0..NumRecords]
    /\ fed \in Seq(Records)
    /\ discarded \in SUBSET Records
    /\ interrupts \in 0..MaxInterrupts

Init ==
    /\ queue = <<>>
    /\ interrupted = FALSE
    /\ contexts = <<>>
    /\ result = [p \in Producers |-> TRUE]
    /\ pc = [p \in Producers |-> "idle"]
    /\ feeder = "idle"
    /\ sent = [p \in Producers |-> 0]
    /\ fed = <<>>
    /\ discarded = {}
    /\ interrupts = 0

-------------------------------------------------------------------------------
\* m_cond.notify_one(): only the feeding thread ever waits on m_cond.
NotifyFeeder == feeder' = IF feeder = "waiting" THEN "woken" ELSE feeder

\* Mutant: a notification lost to an off-by-one, as if size were read after the push.
PushNotifiesTooLate(r) ==
    /\ Len(queue) < MaxQueueSize
    /\ queue' = Append(queue, r)
    /\ IF Len(queue) = 1 THEN NotifyFeeder ELSE UNCHANGED feeder

\* Mutant: the limit compared with <= instead of <.
PushPastLimit(r) ==
    /\ Len(queue) <= MaxQueueSize
    /\ queue' = Append(queue, r)
    /\ IF queue = <<>> THEN NotifyFeeder ELSE UNCHANGED feeder

\* m_queue.push(rec), with the notification only an empty queue calls for.
Push(r) ==
    /\ Len(queue) < MaxQueueSize
    /\ queue' = Append(queue, r)
    /\ IF queue = <<>> THEN NotifyFeeder ELSE UNCHANGED feeder

\* Mutant: thread_context starts with result FALSE.
BlockWithFalseResult(p) ==
    /\ Strategy = "block"
    /\ Len(queue) >= MaxQueueSize
    /\ contexts' = Append(contexts, p)
    /\ result' = [result EXCEPT ![p] = FALSE]
    /\ pc' = [pc EXCEPT ![p] = "blocked"]
    /\ UNCHANGED <<queue, feeder, discarded>>

\* block_on_overflow::on_overflow up to its wait: a fresh context is linked
\* behind the others and the thread sleeps.
BlockOnOverflow(p) ==
    /\ Strategy = "block"
    /\ Len(queue) >= MaxQueueSize
    /\ contexts' = Append(contexts, p)
    /\ result' = [result EXCEPT ![p] = TRUE]
    /\ pc' = [pc EXCEPT ![p] = "blocked"]
    /\ UNCHANGED <<queue, feeder, discarded>>

\* drop_on_overflow::on_overflow: enqueue returns without the record.
DropOnOverflow(p, r) ==
    /\ Strategy = "drop"
    /\ Len(queue) >= MaxQueueSize
    /\ discarded' = discarded \cup {r}
    /\ UNCHANGED <<queue, contexts, result, pc, feeder>>

\* One turn of the loop in enqueue: push if there is room, else overflow.
EnqueueLoop(p, r) ==
    \/ /\ Push(r)
       /\ pc' = [pc EXCEPT ![p] = "idle"]
       /\ UNCHANGED <<contexts, result, discarded>>
    \/ BlockOnOverflow(p)
    \/ DropOnOverflow(p, r)

enqueue(p) ==
    /\ ~Blocked(p)
    /\ sent[p] < NumRecords
    /\ sent' = [sent EXCEPT ![p] = @ + 1]
    /\ EnqueueLoop(p, NextRecord(p))
    /\ UNCHANGED <<interrupted, fed, interrupts>>

\* Mutant: the wait of on_overflow is not repeated while the context is linked.
ReturnWhileLinked(p) ==
    /\ Blocked(p)
    /\ \/ /\ result[p]
          /\ EnqueueLoop(p, Carried(p))
       \/ /\ ~result[p]
          /\ discarded' = discarded \cup {Carried(p)}
          /\ pc' = [pc EXCEPT ![p] = "idle"]
          /\ UNCHANGED <<queue, contexts, result, feeder>>
    /\ UNCHANGED <<interrupted, sent, fed, interrupts>>

\* The wait of on_overflow ends once the context is no longer linked.  With
\* result FALSE enqueue gives the record up, otherwise its loop goes on.
on_overflow_return(p) ==
    /\ Blocked(p)
    /\ ~Linked(p)
    /\ \/ /\ result[p]
          /\ EnqueueLoop(p, Carried(p))
       \/ /\ ~result[p]
          /\ discarded' = discarded \cup {Carried(p)}
          /\ pc' = [pc EXCEPT ![p] = "idle"]
          /\ UNCHANGED <<queue, contexts, result, feeder>>
    /\ UNCHANGED <<interrupted, sent, fed, interrupts>>

\* Mutant: false is returned after the push, so the caller logs the record again.
TryEnqueueReportsFailure(p) ==
    /\ ~Blocked(p)
    /\ sent[p] < NumRecords
    /\ Push(NextRecord(p))
    /\ UNCHANGED <<interrupted, contexts, result, pc, sent, fed, discarded, interrupts>>

\* A try_enqueue that finds the mutex taken or the queue full returns false
\* and changes nothing, the record stays with the caller.
try_enqueue(p) ==
    /\ ~Blocked(p)
    /\ sent[p] < NumRecords
    /\ sent' = [sent EXCEPT ![p] = @ + 1]
    /\ Push(NextRecord(p))
    /\ UNCHANGED <<interrupted, contexts, result, pc, fed, discarded, interrupts>>

-------------------------------------------------------------------------------
\* block_on_overflow::on_queue_space_available: the first linked thread is
\* unlinked and notified.  drop_on_overflow never links one.
OnQueueSpaceAvailable ==
    contexts' = IF contexts = <<>> THEN contexts ELSE Tail(contexts)

\* Mutant: the size is compared after the pop.
PopComparesNewSize ==
    /\ queue # <<>>
    /\ fed' = Append(fed, Head(queue))
    /\ queue' = Tail(queue)
    /\ IF Len(queue') = MaxQueueSize THEN OnQueueSpaceAvailable ELSE UNCHANGED contexts

\* Takes the front record; the strategy hears of it if the queue was full.
Pop ==
    /\ queue # <<>>
    /\ fed' = Append(fed, Head(queue))
    /\ queue' = Tail(queue)
    /\ IF Len(queue) = MaxQueueSize THEN OnQueueSpaceAvailable ELSE UNCHANGED contexts

\* try_dequeue and try_dequeue_ready; on an empty queue they change nothing.
try_dequeue ==
    /\ feeder = "idle"
    /\ Pop
    /\ UNCHANGED <<interrupted, result, pc, feeder, sent, discarded, interrupts>>

\* One turn of the loop in dequeue_ready, on entry and after each wakeup.
dequeue_ready ==
    /\ feeder \in {"idle", "woken"}
    /\ \/ /\ interrupted
          /\ interrupted' = FALSE
          /\ feeder' = "idle"
          /\ UNCHANGED <<queue, contexts, fed>>
       \/ /\ ~interrupted
          /\ Pop
          /\ feeder' = "idle"
          /\ UNCHANGED interrupted
       \/ /\ ~interrupted
          /\ queue = <<>>
          /\ feeder' = "waiting"
          /\ UNCHANGED <<queue, interrupted, contexts, fed>>
    /\ UNCHANGED <<result, pc, sent, discarded, interrupts>>

\* Condition variables may wake for no reason.
SpuriousWakeup ==
    /\ feeder = "waiting"
    /\ feeder' = "woken"
    /\ UNCHANGED <<queue, interrupted, contexts, result, pc, sent, fed,
                   discarded, interrupts>>

\* Mutant: the feeding thread is not notified.
InterruptWithoutNotify ==
    /\ interrupts < MaxInterrupts
    /\ interrupts' = interrupts + 1
    /\ interrupted' = TRUE
    /\ result' = [p \in Producers |-> IF Linked(p) THEN FALSE ELSE result[p]]
    /\ contexts' = <<>>
    /\ UNCHANGED <<queue, pc, feeder, sent, fed, discarded>>

\* Called by flush and stop of the frontend.  block_on_overflow::interrupt
\* unlinks every waiting thread and tells it to give its record up.
interrupt_dequeue ==
    /\ interrupts < MaxInterrupts
    /\ interrupts' = interrupts + 1
    /\ interrupted' = TRUE
    /\ result' = [p \in Producers |-> IF Linked(p) THEN FALSE ELSE result[p]]
    /\ contexts' = <<>>
    /\ NotifyFeeder
    /\ UNCHANGED <<queue, pc, sent, fed, discarded>>

Next ==
    \/ \E p \in Producers : enqueue(p) \/ on_overflow_return(p) \/ try_enqueue(p)
    \/ try_dequeue
    \/ dequeue_ready
    \/ SpuriousWakeup
    \/ interrupt_dequeue

\* A notified thread runs again, and the feeding loop of the frontend keeps
\* calling dequeue_ready.  Nobody has to log, and nobody has to interrupt.
Fairness ==
    /\ \A p \in Producers : WF_vars(on_overflow_return(p))
    /\ WF_vars(dequeue_ready)

Spec == Init /\ [][Next]_vars
FairSpec == Spec /\ Fairness

-------------------------------------------------------------------------------
\* The feeding thread never sleeps while there is something for it to do,
\* although enqueue notifies m_cond only when the queue was empty.
NeverSleepsOnRecords ==
    feeder = "waiting" => queue = <<>> /\ ~interrupted

\* thread_context lives on the stack of on_overflow: a context still linked
\* when its thread has left, or linked twice, would be a dangling list node.
LinkedContextsAreLive ==
    /\ \A i \in DOMAIN contexts : Blocked(contexts[i])
    /\ \A i, j \in DOMAIN contexts : contexts[i] = contexts[j] => i = j

\* The queue never grows past its limit, whatever order the woken producers,
\* the ones that barge in and the feeding thread take the mutex in.
Bounded == Len(queue) <= MaxQueueSize

\* block_on_overflow loses nothing as long as nobody interrupts the queue.
BlockingIsLossless ==
    Strategy = "block" /\ interrupts = 0 => discarded = {}

\* Every record is accepted or given up at most once, and fed in the order
\* in which it was accepted.
Channel == INSTANCE RecordChannel WITH
    buffer <- queue, output <- fed, lost <- discarded, Lossy <- TRUE
ImplementsChannel == Channel!Spec

\* "Wakes a thread possibly blocked in the dequeue method": an interruption
\* is always noticed, and cleared, by the feeding thread.
InterruptionIsAnswered == interrupted ~> ~interrupted

\* "The blocked threads will be woken as soon as there appears free space":
\* as long as the feeding thread goes on, no producer stays blocked.
BlockedThreadsReturn == \A p \in Producers : Blocked(p) ~> ~Blocked(p)

\* Neither a producer nor an interruption waits for ever.
WaitingEnds == BlockedThreadsReturn /\ InterruptionIsAnswered
===============================================================================
