----------------------------- MODULE OrderingQueue ------------------------------
(***************************************************************************)
(* sinks::unbounded_ordering_queue and bounded_ordering_queue (with        *)
(* drop_on_overflow): the records of several threads wait in a priority    *)
(* queue until the record at its top has been there for the ordering       *)
(* window.  One mutex guards everything; an action is one critical section *)
(* or the passing of time.                                                 *)
(*                                                                         *)
(* The order is attribute_value_ordering on a value that every record has, *)
(* as its documentation requires.                                          *)
(***************************************************************************)
EXTENDS Integers, Sequences, FiniteSets

CONSTANTS
    Values,          \* values of the attribute that records are ordered by
    Capacities,      \* possible queue sizes: MaxQueueSizeV, or Unlimited
    Unlimited,       \* the unbounded queue
    Window,          \* m_ordering_window, in ticks of the clock
    MaxTime,         \* bound: ticks of the clock
    OrderRecords,    \* bound: records logged
    OrderInterrupts  \* bound: calls of interrupt_dequeue

ASSUME OrderingAssumptions ==
    /\ Values \subseteq Int \* only their order matters
    /\ Window \in Nat

VARIABLES
    capacity,        \* MaxQueueSizeV
    ordered,         \* m_queue: the records, each with value and timestamp
    interrupted,     \* m_interruption_requested
    waiting,         \* the feeding thread: "idle", "running" dequeue_ready, or
                     \* inside "wait" or "timed_wait"
    deadline,        \* when its timed_wait ends
    now,             \* get_timestamp
    interrupts,      \* calls of interrupt_dequeue so far
    logged,          \* how many records were logged, by whichever thread
    output,          \* history: records fed, in order
    flushed          \* history: was a record dequeued regardless of the window?

oqVars == <<capacity, ordered, interrupted, waiting, deadline, now, interrupts, logged, output, flushed>>

OQStart(limit) ==
    /\ capacity = limit
    /\ ordered = {}
    /\ interrupted = FALSE
    /\ waiting = "idle"
    /\ deadline = 0
    /\ now = 0
    /\ interrupts = 0
    /\ logged = 0
    /\ output = <<>>
    /\ flushed = FALSE

OQInit == \E limit \in Capacities : OQStart(limit)

-------------------------------------------------------------------------------
\* attribute_value_ordering::operator() for two records that have the value;
\* order swaps its arguments, as std::priority_queue keeps the greatest on top.
Before(left, right) == left.value < right.value

\* std::priority_queue::top: a record that no other one precedes.  Which one of
\* several is not specified.
Tops == {r \in ordered : \A s \in ordered : ~Before(s, r)}

\* notify_one: the feeding thread leaves wait or timed_wait.
Notify == waiting' = IF waiting \in {"wait", "timed_wait"} THEN "running" ELSE waiting

HasRoom == IF capacity = Unlimited THEN TRUE ELSE Cardinality(ordered) < capacity

\* Mutant: nobody is told.
EnqueueSilently(value) ==
    /\ logged < OrderRecords
    /\ logged' = logged + 1
    /\ \/ /\ HasRoom
          /\ ordered' = ordered \cup
                {[id |-> logged + 1, value |-> value, timestamp |-> now]}
       \/ /\ ~HasRoom
          /\ UNCHANGED ordered
    /\ UNCHANGED <<interrupts, capacity, waiting, interrupted, deadline, now, output, flushed>>

\* enqueue and try_enqueue.  A full queue drops the record.  The feeding thread
\* is notified of the first record only: it is not in timed_wait then.
enqueue(value) ==
    /\ logged < OrderRecords
    /\ logged' = logged + 1
    /\ \/ /\ HasRoom
          /\ ordered' = ordered \cup
                {[id |-> logged + 1, value |-> value, timestamp |-> now]}
          /\ IF ordered = {} THEN Notify ELSE UNCHANGED waiting
       \/ /\ ~HasRoom
          /\ UNCHANGED <<ordered, waiting>>
    /\ UNCHANGED <<interrupts, capacity, interrupted, deadline, now, output, flushed>>

\* Mutant: the record that waited longest decides, not the one at the top.
ReadyByOldest(r) == \E s \in ordered : now - s.timestamp >= Window

Ready(r) == now - r.timestamp >= Window

Feed(r) ==
    /\ ordered' = ordered \ {r}
    /\ output' = Append(output, [id |-> r.id, value |-> r.value, timestamp |-> r.timestamp, at |-> now])

\* try_dequeue_ready; it changes nothing when the top is not ready.
try_dequeue_ready ==
    /\ waiting = "idle"
    /\ \E r \in Tops : Ready(r) /\ Feed(r)
    /\ UNCHANGED <<interrupts, capacity, interrupted, waiting, deadline, now, logged, flushed>>

\* try_dequeue, which flush uses: the window does not matter.
try_dequeue ==
    /\ waiting = "idle"
    /\ \E r \in Tops : Feed(r)
    /\ flushed' = TRUE
    /\ UNCHANGED <<interrupts, capacity, interrupted, waiting, deadline, now, logged>>

call_dequeue_ready ==
    /\ waiting = "idle"
    /\ waiting' = "running"
    /\ UNCHANGED <<interrupts, capacity, ordered, interrupted, deadline, now, logged, output, flushed>>

\* Mutant: the thread waits a whole window.
DequeueReadyWaitsWindow ==
    /\ waiting = "running"
    /\ \/ /\ interrupted
          /\ interrupted' = FALSE /\ waiting' = "idle"
          /\ UNCHANGED <<ordered, output, deadline>>
       \/ /\ ~interrupted
          /\ \E r \in Tops :
                \/ Ready(r) /\ Feed(r) /\ waiting' = "idle" /\ UNCHANGED deadline
                \/ /\ ~Ready(r)
                   /\ waiting' = "timed_wait" /\ deadline' = now + Window
                   /\ UNCHANGED <<ordered, output>>
          /\ UNCHANGED interrupted
       \/ /\ ~interrupted /\ ordered = {}
          /\ waiting' = "wait"
          /\ UNCHANGED <<ordered, output, interrupted, deadline>>
    /\ UNCHANGED <<interrupts, capacity, now, logged, flushed>>

\* One turn of the loop in dequeue_ready: interruption, a record that is ready,
\* or a wait until the record at the top becomes ready or the first one comes.
dequeue_ready ==
    /\ waiting = "running"
    /\ \/ /\ interrupted
          /\ interrupted' = FALSE /\ waiting' = "idle"
          /\ UNCHANGED <<ordered, output, deadline>>
       \/ /\ ~interrupted
          /\ \E r \in Tops :
                \/ Ready(r) /\ Feed(r) /\ waiting' = "idle" /\ UNCHANGED deadline
                \/ /\ ~Ready(r)
                   /\ waiting' = "timed_wait" /\ deadline' = r.timestamp + Window
                   /\ UNCHANGED <<ordered, output>>
          /\ UNCHANGED interrupted
       \/ /\ ~interrupted /\ ordered = {}
          /\ waiting' = "wait"
          /\ UNCHANGED <<ordered, output, interrupted, deadline>>
    /\ UNCHANGED <<interrupts, capacity, now, logged, flushed>>

interrupt_dequeue ==
    /\ interrupts < OrderInterrupts
    /\ interrupts' = interrupts + 1
    /\ interrupted' = TRUE
    /\ Notify
    /\ UNCHANGED <<capacity, ordered, deadline, now, logged, output, flushed>>

\* timed_wait returns at its deadline.
TimedOut ==
    /\ waiting = "timed_wait" /\ now >= deadline
    /\ waiting' = "running"
    /\ UNCHANGED <<interrupts, capacity, ordered, interrupted, deadline, now, logged, output, flushed>>

\* Either wait may end early.
WakesEarly ==
    /\ waiting \in {"wait", "timed_wait"}
    /\ waiting' = "running"
    /\ UNCHANGED <<interrupts, capacity, ordered, interrupted, deadline, now, logged, output, flushed>>

Tick ==
    /\ now < MaxTime
    /\ now' = now + 1
    /\ UNCHANGED <<interrupts, capacity, ordered, interrupted, waiting, deadline, logged, output, flushed>>

OQNext ==
    \/ \E value \in Values : enqueue(value)
    \/ try_dequeue_ready \/ try_dequeue
    \/ call_dequeue_ready \/ dequeue_ready
    \/ interrupt_dequeue
    \/ TimedOut \/ WakesEarly
    \/ Tick

OQSpec == OQInit /\ [][OQNext]_oqVars

-------------------------------------------------------------------------------
\* "Records are ordered within the latency window": unless the queue was
\* flushed, a record is fed behind one with a greater value only if it was
\* logged a whole window after it.
OrderedWithinWindow ==
    ~flushed =>
        \A i, j \in DOMAIN output :
            i < j /\ Before(output[j], output[i])
                => output[j].timestamp >= output[i].timestamp + Window

\* The feeding thread oversleeps no record: a wait without end is for an
\* empty queue, a timed wait ends no later than a record at the top is ready,
\* and it waits through no interruption.
NeverOversleeps ==
    /\ waiting = "wait" => ordered = {} /\ ~interrupted
    /\ waiting = "timed_wait" =>
          /\ ~interrupted
          /\ \E r \in Tops : deadline <= r.timestamp + Window

\* Records are held back for the window, and no longer than it takes.
HeldBackForTheWindow == OrderedWithinWindow /\ NeverOversleeps

\* "The queue performs stable record ordering": of two records with
\* the same value the one that was logged first is fed first.
StableOrder ==
    \A i, j \in DOMAIN output :
        i < j /\ output[i].value = output[j].value => output[i].id < output[j].id
===============================================================================
