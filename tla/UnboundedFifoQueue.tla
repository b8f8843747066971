-------------------------- MODULE UnboundedFifoQueue --------------------------
(***************************************************************************)
(* sinks::unbounded_fifo_queue on the event of the POSIX build             *)
(* (sem_based_event): logging threads push and signal, the feeding thread  *)
(* pops or waits, and flush or stop interrupt it.  None of this is under a *)
(* mutex, so an action is one access to shared memory or one system call.  *)
(* The queue itself is atomic here; ThreadsafeQueue looks inside it.       *)
(*                                                                         *)
(* The event is reset with __sync_lock_release and the interruption flag   *)
(* with a plain store.  Neither is a full barrier: on x86 both may stay in *)
(* the store buffer of the feeding thread while its later loads run, until *)
(* its next locked instruction.  Whether a pop that finds the queue empty  *)
(* is one depends on the implementation that the build selects.            *)
(***************************************************************************)
EXTENDS Naturals, Sequences, Functions

CONSTANTS
    Producers,       \* threads that log
    Interrupters,    \* threads inside flush or stop of the frontend
    Implementations, \* which of "generic" and "dcas" may be selected
    NumRecords,      \* bound: records each producer logs
    MaxInterrupts    \* bound: calls of interrupt_dequeue

\* What is assumed of the constants; the module that gives them values says so.
ConstantsAreSound ==
    /\ Producers \cap Interrupters = {}
    /\ Implementations \subseteq {"generic", "dcas"}
    /\ NumRecords \in Nat /\ MaxInterrupts \in Nat

VARIABLES
    implementation,  \* of m_queue: what threadsafe_queue_impl::create returned
    queue,           \* m_queue
    state,           \* sem_based_event::m_state, TRUE when signalled
    semaphore,       \* sem_based_event::m_semaphore
    interruption,    \* m_interruption_requested
    pc,              \* where each logging or interrupting thread stands
    feeder,          \* where the feeding thread stands
    pending,         \* its stores that memory has not seen yet, oldest first
    sent,            \* how many records each producer has pushed
    fed,             \* history: the records the feeding thread received
    unanswered,      \* history: has interrupt_dequeue been entered since
                     \* dequeue_ready last returned?
    interrupts       \* history: calls of interrupt_dequeue so far

vars == <<implementation, queue, state, semaphore, interruption, pc, feeder, pending, sent,
          fed, unanswered, interrupts>>

Threads == Producers \cup Interrupters
Records == Producers \X (1..NumRecords)

TypeOK ==
    /\ implementation \in Implementations
    /\ queue \in Seq(Records)
    /\ state \in BOOLEAN
    /\ semaphore \in Nat
    /\ interruption \in BOOLEAN
    /\ pc \in [Threads -> {"idle", "set", "post"}]
    /\ feeder \in {"idle", "wait", "reset", "check", "clear", "pop"}
    /\ pending \in Seq({"state", "interruption"})
    /\ sent \in [Producers -> 0..NumRecords]
    /\ fed \in Seq(Records)
    /\ unanswered \in BOOLEAN
    /\ interrupts \in 0..MaxInterrupts

Init ==
    /\ implementation \in Implementations
    /\ queue = <<>>
    /\ state = FALSE
    /\ semaphore = 0
    /\ interruption = FALSE
    /\ pc = [t \in Threads |-> "idle"]
    /\ feeder = "idle"
    /\ pending = <<>>
    /\ sent = [p \in Producers |-> 0]
    /\ fed = <<>>
    /\ unanswered = FALSE
    /\ interrupts = 0

-------------------------------------------------------------------------------
\* enqueue and try_enqueue: push the record, then signal the event.
enqueue(p) ==
    /\ pc[p] = "idle"
    /\ sent[p] < NumRecords
    /\ sent' = [sent EXCEPT ![p] = @ + 1]
    /\ queue' = Append(queue, <<p, sent[p] + 1>>)
    /\ pc' = [pc EXCEPT ![p] = "set"]
    /\ UNCHANGED <<state, semaphore, interruption, feeder, pending, fed,
                   unanswered, interrupts>>

\* interrupt_dequeue: raise the flag, then signal the event.
interrupt_dequeue(i) ==
    /\ pc[i] = "idle"
    /\ interrupts < MaxInterrupts
    /\ interrupts' = interrupts + 1
    /\ interruption' = TRUE
    /\ unanswered' = TRUE
    /\ pc' = [pc EXCEPT ![i] = "set"]
    /\ UNCHANGED <<queue, state, semaphore, feeder, pending, sent, fed>>

\* Mutant: the result of the test and set is read the wrong way round.
TrySetInverted(t) ==
    /\ pc[t] = "set"
    /\ state' = TRUE
    /\ pc' = [pc EXCEPT ![t] = IF state THEN "post" ELSE "idle"]
    /\ UNCHANGED <<queue, semaphore, interruption, feeder, pending, sent, fed,
                   unanswered, interrupts>>

\* sem_based_event::set_signalled, the test and set: only the thread that
\* finds the event not signalled goes on to the semaphore.
TrySet(t) ==
    /\ pc[t] = "set"
    /\ state' = TRUE
    /\ pc' = [pc EXCEPT ![t] = IF state THEN "idle" ELSE "post"]
    /\ UNCHANGED <<queue, semaphore, interruption, feeder, pending, sent, fed,
                   unanswered, interrupts>>

\* Mutant: a sem_post that fails leaves m_state set.
SemPostFails(t) ==
    /\ pc[t] = "post"
    /\ pc' = [pc EXCEPT ![t] = "idle"]
    /\ UNCHANGED <<queue, state, semaphore, interruption, feeder, pending, sent,
                   fed, unanswered, interrupts>>

\* sem_based_event::set_signalled, the sem_post.
SemPost(t) ==
    /\ pc[t] = "post"
    /\ semaphore' = semaphore + 1
    /\ pc' = [pc EXCEPT ![t] = "idle"]
    /\ UNCHANGED <<queue, state, interruption, feeder, pending, sent, fed,
                   unanswered, interrupts>>

-------------------------------------------------------------------------------
\* A store of the feeding thread, which memory sees when it is drained.
Store(variable) == pending' = Append(pending, variable)

\* The oldest delayed store reaches memory.
Drain ==
    /\ pending # <<>>
    /\ pending' = Tail(pending)
    /\ state' = (state /\ Head(pending) # "state")
    /\ interruption' = (interruption /\ Head(pending) # "interruption")
    /\ UNCHANGED <<queue, semaphore, pc, feeder, sent, fed, unanswered, interrupts>>

\* A locked instruction waits for the store buffer to drain.
LockedInstruction == pending = <<>>

\* Mutant: the front record is read but stays in the queue.
TryPopPeeks ==
    /\ queue # <<>>
    /\ LockedInstruction
    /\ fed' = Append(fed, Head(queue))
    /\ UNCHANGED queue

\* threadsafe_queue::try_pop: a record leaves by a locked instruction in both
\* implementations.
TryPop ==
    /\ queue # <<>>
    /\ LockedInstruction
    /\ fed' = Append(fed, Head(queue))
    /\ queue' = Tail(queue)

\* Mutant: the head is looked at before the mutex of the queue is taken.
TryPopEmptyUnlocked ==
    /\ queue = <<>>
    /\ UNCHANGED <<queue, fed>>

\* threadsafe_queue_impl_generic takes its spin lock to look at the head,
\* threadsafe_queue_impl_dcas only loads.
TryPopEmpty ==
    /\ queue = <<>>
    /\ implementation = "generic" => LockedInstruction
    /\ UNCHANGED <<queue, fed>>

\* try_dequeue and try_dequeue_ready; on an empty queue they change nothing.
try_dequeue ==
    /\ feeder = "idle"
    /\ TryPop
    /\ UNCHANGED <<state, semaphore, interruption, pc, feeder, pending, sent,
                   unanswered, interrupts>>

\* The two attempts to pop in dequeue_ready: the fast one on entry and the
\* one after each wakeup.  It returns with a record or goes on to wait.
dequeue_ready ==
    /\ feeder \in {"idle", "pop"}
    /\ \/ TryPop /\ feeder' = "idle" /\ unanswered' = FALSE
       \/ TryPopEmpty /\ feeder' = "wait" /\ UNCHANGED unanswered
    /\ UNCHANGED <<state, semaphore, interruption, pc, pending, sent, interrupts>>

\* Mutant: a sem_wait that a signal handler interrupted counts as a wakeup.
SemWaitInterrupted ==
    /\ feeder = "wait"
    /\ LockedInstruction
    /\ feeder' = "reset"
    /\ UNCHANGED <<queue, state, semaphore, interruption, pc, pending, sent, fed,
                   unanswered, interrupts>>

\* sem_based_event::wait, the sem_wait.
SemWait ==
    /\ feeder = "wait"
    /\ semaphore > 0
    /\ LockedInstruction
    /\ semaphore' = semaphore - 1
    /\ feeder' = "reset"
    /\ UNCHANGED <<queue, state, interruption, pc, pending, sent, fed,
                   unanswered, interrupts>>

\* sem_based_event::wait, BOOST_LOG_EVENT_RESET.
EventReset ==
    /\ feeder = "reset"
    /\ Store("state")
    /\ feeder' = "check"
    /\ UNCHANGED <<queue, state, semaphore, interruption, pc, sent, fed, unanswered, interrupts>>

\* dequeue_ready reads the interruption flag.
CheckInterruption ==
    /\ feeder = "check"
    /\ feeder' = IF interruption THEN "clear" ELSE "pop"
    /\ UNCHANGED <<queue, state, semaphore, interruption, pc, pending, sent,
                   fed, unanswered, interrupts>>

\* dequeue_ready clears the flag and returns false.
ClearInterruption ==
    /\ feeder = "clear"
    /\ Store("interruption")
    /\ feeder' = "idle"
    /\ unanswered' = FALSE
    /\ UNCHANGED <<queue, state, semaphore, interruption, pc, sent, fed, interrupts>>

FeederStep ==
    \/ dequeue_ready
    \/ SemWait
    \/ EventReset
    \/ CheckInterruption
    \/ ClearInterruption

Next ==
    /\ UNCHANGED implementation
    /\ \/ \E p \in Producers : enqueue(p)
       \/ \E i \in Interrupters : interrupt_dequeue(i)
       \/ \E t \in Threads : TrySet(t) \/ SemPost(t)
       \/ try_dequeue
       \/ FeederStep
       \/ Drain

\* Every thread finishes the call it is in, the feeding loop of the frontend
\* keeps calling dequeue_ready, and a store does not stay buffered for ever.
Fairness ==
    /\ \A t \in Threads : /\ WF_vars(TrySet(t) /\ UNCHANGED implementation)
                          /\ WF_vars(SemPost(t) /\ UNCHANGED implementation)
    /\ WF_vars(FeederStep /\ UNCHANGED implementation)
    /\ WF_vars(Drain /\ UNCHANGED implementation)

Spec == Init /\ [][Next]_vars
FairSpec == Spec /\ Fairness

-------------------------------------------------------------------------------
\* Is a thread between its push or its flag and the end of set_signalled?
Signalling == \E t \in Threads : pc[t] # "idle"

\* The feeding thread is blocked in sem_wait and nothing under way will wake it.
Asleep ==
    /\ feeder = "wait"
    /\ pending = <<>>
    /\ semaphore = 0
    /\ ~Signalling

\* sem_post may fail only by overflow, and set_signalled would then throw
\* into the logging thread: m_state keeps the semaphore at one or less.
SemaphoreIsBinary == semaphore <= 1

\* m_state and the semaphore agree: a signalled event that nobody is about to
\* post has a post the feeding thread has not consumed, or is about to reset.
SignalIsNeverStuck ==
    state /\ (\A t \in Threads : pc[t] # "post")
        => \/ semaphore = 1
           \/ feeder = "reset"
           \/ "state" \in Range(pending)

\* "Dequeues log record from the queue, blocks if the queue is empty": the
\* feeding thread never stays blocked over a record whose enqueue returned.
\* That is so on the generic queue, whose pop waits for the reset of the event
\* to be visible.  On the dcas one the pop may find the queue empty while the
\* reset is delayed, and a record pushed then finds the event still signalled.
SleepsOnlyWhenEmpty == Asleep => queue = <<>>

\* A feeding thread that sleeps is woken by the next call of enqueue or
\* interrupt_dequeue, since that finds the event reset and posts.
NextSignalWakes == Asleep => ~state

\* The wakeups that the event promises in either build: the next signal always
\* reaches the feeding thread, and on the generic queue there is no record that
\* waits for a signal to come.
Wakes == NextSignalWakes /\ (implementation = "generic" => SleepsOnlyWhenEmpty)

\* "Wakes a thread possibly blocked in the dequeue method": after
\* interrupt_dequeue returned, the feeding thread does not stay blocked.
InterruptionWakes == Asleep => ~unanswered

\* Records are neither lost nor duplicated nor reordered.
Channel == INSTANCE RecordChannel WITH
    buffer <- queue, output <- fed, lost <- {}, Lossy <- FALSE
ImplementsChannel == Channel!Spec

\* Every record that was enqueued is handed to the feeding thread, if need be
\* after the signal of a later one.
EveryRecordIsFed ==
    \A r \in Records :
        r \in Range(queue) ~> r \in Range(fed) \/ (implementation = "dcas" /\ Asleep)
===============================================================================
