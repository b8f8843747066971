------------------------------ MODULE AsyncSink -------------------------------
(***************************************************************************)
(* sinks::asynchronous_sink: logging threads pass records to a queue, one  *)
(* thread at a time feeds them to the backend (a dedicated thread, or one  *)
(* of the user inside run, feed_records or flush), and any thread may call *)
(* flush and stop.                                                         *)
(*                                                                         *)
(* An action is a critical section of the frontend mutex, a call of the    *)
(* queue, or an unlocked read of m_StopRequested or m_FlushRequested.  The *)
(* queueing strategy is what BoundedFifoQueue and UnboundedFifoQueue show  *)
(* of theirs: an atomic FIFO whose dequeue_ready sleeps only while there   *)
(* is neither a record nor an interruption.  It is unbounded here.         *)
(***************************************************************************)
EXTENDS Naturals, Sequences, Functions, FiniteSets

CONSTANTS
    Threads,         \* every thread that uses the sink
    NoThread,        \* thread::id()
    StartThread,     \* the threads start_thread may create; NoThread for FALSE
    NoRecord,        \* a record_type that holds no record
    Calls(_, _),     \* the member functions a thread calls, given the
                     \* dedicated thread the sink was constructed with
    MaxCalls,        \* bound: calls each thread makes
    BackendThrows    \* may feeding a record throw past the exception handler?

ASSUME NoThreadAssumption == NoThread \notin Threads
ASSUME StartThreadAssumption == StartThread \subseteq Threads \cup {NoThread}
ASSUME BoundsAssumption == MaxCalls \in Nat /\ BackendThrows \in BOOLEAN

Records == Threads \X (1..MaxCalls)
ASSUME NoRecordAssumption == NoRecord \notin Records

VARIABLES
    queue,           \* the records in the queueing strategy
    interruption,    \* its interruption flag
    dedicated,       \* the dedicated feeding thread, or NoThread
    feedingThread,   \* m_FeedingThreadID
    stopRequested,   \* m_StopRequested
    flushRequested,  \* m_FlushRequested
    joined,          \* has m_DedicatedFeedingThread been joined?
    terminated,      \* has an exception left the dedicated thread?
    pc,              \* where each thread stands
    op,              \* the member function it is in
    calls,           \* how many calls it has made; also numbers its records
    hand,            \* the record a feeding thread has dequeued
    fed,             \* history: the records given to the backend
    owed             \* history: the records buffered when flush was called

vars == <<queue, interruption, dedicated, feedingThread, stopRequested, flushRequested,
          joined, terminated, pc, op, calls, hand, fed, owed>>

Blocking == {"consumeWait", "flushWait", "stopWait"}
Feeding == {"loop", "pop", "feed", "served", "flushBackend", "runCheck",
            "ready", "release", "unwind"}
Locations == Blocking \cup Feeding \cup
             {"idle", "start", "dead", "consumeLock", "enqueue", "flushWoken",
              "stopWoken", "join"}
Operations == {"none", "consume", "run", "feed_records", "flush", "stop"}

TypeOK ==
    /\ queue \in Seq(Records)
    /\ interruption \in BOOLEAN
    /\ dedicated \in StartThread
    /\ feedingThread \in Threads \cup {NoThread}
    /\ stopRequested \in BOOLEAN
    /\ flushRequested \in BOOLEAN
    /\ joined \in BOOLEAN
    /\ terminated \in BOOLEAN
    /\ pc \in [Threads -> Locations]
    /\ op \in [Threads -> Operations]
    /\ calls \in [Threads -> 0..MaxCalls]
    /\ hand \in [Threads -> Records \cup {NoRecord}]
    /\ fed \in Seq(Records)
    /\ owed \in [Threads -> SUBSET Records]

\* The flags as every constructor sets them.
InitFlags == stopRequested = FALSE /\ flushRequested = FALSE

Init ==
    /\ queue = <<>>
    /\ interruption = FALSE
    /\ dedicated \in StartThread
    /\ feedingThread = NoThread
    /\ InitFlags
    /\ joined = FALSE
    /\ terminated = FALSE
    /\ pc = [t \in Threads |-> IF t = dedicated THEN "start" ELSE "idle"]
    /\ op = [t \in Threads |-> IF t = dedicated THEN "run" ELSE "none"]
    /\ calls = [t \in Threads |-> 0]
    /\ hand = [t \in Threads |-> NoRecord]
    /\ fed = <<>>
    /\ owed = [t \in Threads |-> {}]

-------------------------------------------------------------------------------
(***************************************************************************)
(* Calls, returns and the condition variable m_BlockCond.                  *)
(***************************************************************************)
queueVars == <<queue, interruption, hand, fed>>
flagVars == <<feedingThread, stopRequested, flushRequested>>
threadVars == <<dedicated, joined, terminated>>

\* Thread t stands at the location, in a program that has not been terminated.
At(t, location) == ~terminated /\ pc[t] = location

GoTo(t, location) == pc' = [pc EXCEPT ![t] = location]

\* Thread t, which is idle, enters a member function at the given location.
Call(t, name, location) ==
    /\ At(t, "idle")
    /\ name \in Calls(t, dedicated)
    /\ calls[t] < MaxCalls
    /\ calls' = [calls EXCEPT ![t] = @ + 1]
    /\ op' = [op EXCEPT ![t] = name]
    /\ GoTo(t, location)

Return(t) ==
    /\ GoTo(t, "idle")
    /\ op' = [op EXCEPT ![t] = "none"]

\* A call that returns within its first critical section.
CallAndReturn(t, name) ==
    /\ At(t, "idle")
    /\ name \in Calls(t, dedicated)
    /\ calls[t] < MaxCalls
    /\ calls' = [calls EXCEPT ![t] = @ + 1]
    /\ UNCHANGED <<pc, op>>

Woken(location) ==
    CASE location = "consumeWait" -> "consumeLock"
      [] location = "flushWait" -> "flushWoken"
      [] location = "stopWait" -> "stopWoken"
      [] OTHER -> location

\* m_BlockCond.notify_all() by thread t, which then stands at the location.
NotifyAllAndGoTo(t, location) ==
    pc' = [u \in Threads |-> IF u = t THEN location ELSE Woken(pc[u])]

SpuriousWakeup(t) ==
    /\ ~terminated /\ pc[t] \in Blocking
    /\ GoTo(t, Woken(pc[t]))
    /\ UNCHANGED <<queueVars, flagVars, threadVars, op, calls, owed>>

-------------------------------------------------------------------------------
(***************************************************************************)
(* consume and try_consume.                                                *)
(***************************************************************************)

\* The flag is read without the mutex.  Enqueueing is a later step.
consume(t) ==
    /\ Call(t, "consume", IF flushRequested THEN "consumeLock" ELSE "enqueue")
    /\ UNCHANGED <<queueVars, flagVars, threadVars, owed>>

\* During a flush it returns false and the record stays with the caller.
try_consume(t) ==
    /\ ~flushRequested
    /\ Call(t, "consume", "enqueue")
    /\ UNCHANGED <<queueVars, flagVars, threadVars, owed>>

\* consume waits under the mutex until the flush is done.
AwaitFlush(t) ==
    /\ At(t, "consumeLock")
    /\ GoTo(t, IF flushRequested THEN "consumeWait" ELSE "enqueue")
    /\ UNCHANGED <<queueVars, flagVars, threadVars, op, calls, owed>>

enqueue(t) ==
    /\ At(t, "enqueue")
    /\ queue' = Append(queue, <<t, calls[t]>>)
    /\ Return(t)
    /\ UNCHANGED <<interruption, hand, fed, flagVars, threadVars, calls, owed>>

-------------------------------------------------------------------------------
(***************************************************************************)
(* The feeding thread.                                                     *)
(***************************************************************************)

\* Mutant: run does not look for another feeding thread.
RunUnchecked(t) ==
    /\ dedicated = NoThread
    /\ feedingThread' = t
    /\ Call(t, "run", "loop")
    /\ UNCHANGED <<queueVars, stopRequested, flushRequested, threadVars, owed>>

\* scoped_thread_id: with a thread feeding already it throws instead, which
\* run and feed_records pass on to a user who called them.  Their precondition
\* is a sink without a dedicated thread.
run(t) ==
    /\ dedicated = NoThread
    /\ feedingThread = NoThread
    /\ feedingThread' = t
    /\ Call(t, "run", "loop")
    /\ UNCHANGED <<queueVars, stopRequested, flushRequested, threadVars, owed>>

feed_records(t) ==
    /\ dedicated = NoThread
    /\ feedingThread = NoThread
    /\ feedingThread' = t
    /\ Call(t, "feed_records", "loop")
    /\ UNCHANGED <<queueVars, stopRequested, flushRequested, threadVars, owed>>

\* The dedicated thread enters run.  An exception that leaves it terminates
\* the program.
DedicatedRun(t) ==
    /\ At(t, "start")
    /\ IF feedingThread = NoThread
          THEN feedingThread' = t /\ GoTo(t, "loop") /\ UNCHANGED terminated
          ELSE terminated' = TRUE /\ GoTo(t, "dead") /\ UNCHANGED feedingThread
    /\ UNCHANGED <<queueVars, stopRequested, flushRequested, dedicated, joined, op, calls, owed>>

\* do_feed_records: the loop goes on until a stop or an empty queue.
LoopCheck(t) ==
    /\ At(t, "loop")
    /\ GoTo(t, IF stopRequested THEN "served" ELSE "pop")
    /\ UNCHANGED <<queueVars, flagVars, threadVars, op, calls, owed>>

\* Mutant: the record stays in the queue.
DequeuePeeks(t) ==
    /\ queue # <<>>
    /\ hand' = [hand EXCEPT ![t] = Head(queue)]
    /\ UNCHANGED queue
    /\ GoTo(t, "feed")

\* Takes the front record into the hand of thread t.
Dequeue(t) ==
    /\ queue # <<>>
    /\ hand' = [hand EXCEPT ![t] = Head(queue)]
    /\ queue' = Tail(queue)
    /\ GoTo(t, "feed")

\* try_dequeue_ready and try_dequeue, which are the same for a FIFO queue.
LoopDequeue(t) ==
    /\ At(t, "pop")
    /\ \/ Dequeue(t)
       \/ queue = <<>> /\ GoTo(t, "served") /\ UNCHANGED <<queue, hand>>
    /\ UNCHANGED <<interruption, fed, flagVars, threadVars, op, calls, owed>>

\* feed_record: both callers, do_feed_records and run, go on at the top of
\* do_feed_records.  An exception unwinds the guard instead.
FeedRecord(t) ==
    /\ At(t, "feed")
    /\ fed' = Append(fed, hand[t])
    /\ hand' = [hand EXCEPT ![t] = NoRecord]
    /\ \/ GoTo(t, "loop")
       \/ BackendThrows /\ GoTo(t, "unwind")
    /\ UNCHANGED <<queue, interruption, flagVars, threadVars, op, calls, owed>>

\* Mutant: run ends with the first round.
AfterFeedingReturns(t) == "release"

\* Where do_feed_records returns to.
AfterFeeding(t) == IF op[t] = "run" THEN "runCheck" ELSE "release"

\* do_feed_records, the test of the flush flag after the loop.
FlushCheck(t) ==
    /\ At(t, "served")
    /\ GoTo(t, IF flushRequested THEN "flushBackend" ELSE AfterFeeding(t))
    /\ UNCHANGED <<queueVars, flagVars, threadVars, op, calls, owed>>

\* Mutant: scoped_flag does not notify.
FlushBackendWithoutNotify(t) ==
    /\ At(t, "flushBackend")
    /\ flushRequested' = FALSE
    /\ GoTo(t, AfterFeeding(t))
    /\ UNCHANGED <<queueVars, feedingThread, stopRequested, threadVars, op, calls, owed>>

\* flush_backend, which may throw as well; scoped_flag resets the flag and
\* notifies either way.
FlushBackend(t) ==
    /\ At(t, "flushBackend")
    /\ flushRequested' = FALSE
    /\ \/ NotifyAllAndGoTo(t, AfterFeeding(t))
       \/ BackendThrows /\ NotifyAllAndGoTo(t, "unwind")
    /\ UNCHANGED <<queueVars, feedingThread, stopRequested, threadVars, op, calls, owed>>

\* run, the test of the stop flag between two rounds.
RunCheck(t) ==
    /\ At(t, "runCheck")
    /\ GoTo(t, IF stopRequested THEN "release" ELSE "ready")
    /\ UNCHANGED <<queueVars, flagVars, threadVars, op, calls, owed>>

\* dequeue_ready; with a record and an interruption both outcomes exist, as
\* one strategy looks at the queue first and the other at the flag.
DequeueReady(t) ==
    /\ At(t, "ready")
    /\ \/ /\ Dequeue(t)
          /\ UNCHANGED interruption
       \/ /\ interruption
          /\ interruption' = FALSE
          /\ GoTo(t, "loop")
          /\ UNCHANGED <<queue, hand>>
    /\ UNCHANGED <<fed, flagVars, threadVars, op, calls, owed>>

\* Mutant: scoped_thread_id does not notify.
ReleaseWithoutNotify(t) ==
    /\ ~terminated /\ pc[t] \in {"release", "unwind"}
    /\ stopRequested' = FALSE
    /\ feedingThread' = NoThread
    /\ GoTo(t, IF t = dedicated THEN "dead" ELSE "idle")
    /\ op' = [op EXCEPT ![t] = "none"]
    /\ terminated' = (terminated \/ (t = dedicated /\ pc[t] = "unwind"))
    /\ UNCHANGED <<queueVars, flushRequested, dedicated, joined, calls, owed>>

\* ~scoped_thread_id, then the return from run, feed_records or flush.
ReleaseFeeding(t) ==
    /\ ~terminated /\ pc[t] \in {"release", "unwind"}
    /\ stopRequested' = FALSE
    /\ feedingThread' = NoThread
    /\ NotifyAllAndGoTo(t, IF t = dedicated THEN "dead" ELSE "idle")
    /\ op' = [op EXCEPT ![t] = "none"]
    /\ terminated' = (terminated \/ (t = dedicated /\ pc[t] = "unwind"))
    /\ UNCHANGED <<queueVars, flushRequested, dedicated, joined, calls, owed>>

-------------------------------------------------------------------------------
(***************************************************************************)
(* flush and stop.                                                         *)
(***************************************************************************)

\* The records a call of flush is to feed: all that are buffered by now.
Buffered == (Range(queue) \cup Range(hand)) \ {NoRecord}

\* flush with nobody feeding: the caller takes over the queue.
flush_ourselves(t) ==
    /\ feedingThread = NoThread
    /\ Call(t, "flush", "loop")
    /\ flushRequested' = TRUE
    /\ feedingThread' = t
    /\ owed' = [owed EXCEPT ![t] = Buffered]
    /\ UNCHANGED <<queueVars, stopRequested, threadVars>>

\* Mutant: flush does not wake the feeding thread.
FlushWithoutInterrupt(t) ==
    /\ feedingThread # NoThread
    /\ IF stopRequested THEN CallAndReturn(t, "flush") ELSE Call(t, "flush", "flushWait")
    /\ flushRequested' = TRUE
    /\ owed' = [owed EXCEPT ![t] = Buffered]
    /\ UNCHANGED <<queueVars, feedingThread, stopRequested, threadVars>>

\* flush with a thread feeding: that thread is asked and waited for, but with
\* a stop under way flush does not wait.
flush(t) ==
    /\ feedingThread # NoThread
    /\ IF stopRequested THEN CallAndReturn(t, "flush") ELSE Call(t, "flush", "flushWait")
    /\ flushRequested' = TRUE
    /\ interruption' = TRUE
    /\ owed' = [owed EXCEPT ![t] = Buffered]
    /\ UNCHANGED <<queue, hand, fed, feedingThread, stopRequested, threadVars>>

\* flush after a wakeup: wait on, return, or take over the queue.
FlushResume(t) ==
    /\ At(t, "flushWoken")
    /\ \/ /\ ~stopRequested /\ flushRequested
          /\ GoTo(t, "flushWait")
          /\ UNCHANGED <<flagVars, op>>
       \/ /\ stopRequested \/ ~flushRequested
          /\ feedingThread # NoThread
          /\ Return(t)
          /\ UNCHANGED flagVars
       \/ /\ stopRequested \/ ~flushRequested
          /\ feedingThread = NoThread
          /\ flushRequested' = TRUE
          /\ feedingThread' = t
          /\ GoTo(t, "loop")
          /\ UNCHANGED <<stopRequested, op>>
    /\ UNCHANGED <<queueVars, threadVars, calls, owed>>

Joinable == dedicated # NoThread /\ ~joined

\* Mutant: stop does not wake the feeding thread.
StopWithoutInterrupt(t) ==
    /\ feedingThread # NoThread \/ Joinable
    /\ Call(t, "stop", "stopWait")
    /\ stopRequested' = TRUE
    /\ UNCHANGED <<queueVars, feedingThread, flushRequested, threadVars, owed>>

\* Without a thread feeding or to be joined, stop returns at once.
stop(t) ==
    /\ feedingThread # NoThread \/ Joinable
    /\ Call(t, "stop", "stopWait")
    /\ stopRequested' = TRUE
    /\ interruption' = TRUE
    /\ UNCHANGED <<queue, hand, fed, feedingThread, flushRequested, threadVars, owed>>

StopResume(t) ==
    /\ At(t, "stopWoken")
    /\ GoTo(t, IF stopRequested THEN "stopWait" ELSE "join")
    /\ UNCHANGED <<queueVars, flagVars, threadVars, op, calls, owed>>

\* m_DedicatedFeedingThread.join(), which returns at once for no thread.
Join(t) ==
    /\ At(t, "join")
    /\ dedicated # NoThread => pc[dedicated] = "dead"
    /\ joined' = (dedicated # NoThread)
    /\ Return(t)
    /\ UNCHANGED <<queueVars, flagVars, dedicated, terminated, calls, owed>>

-------------------------------------------------------------------------------
\* A new call, which a thread may make or not.
Enter(t) ==
    \/ consume(t) \/ try_consume(t)
    \/ run(t) \/ feed_records(t)
    \/ flush_ourselves(t) \/ flush(t)
    \/ stop(t)

\* A step of a call under way.
Step(t) ==
    \/ AwaitFlush(t) \/ enqueue(t)
    \/ DedicatedRun(t)
    \/ LoopCheck(t) \/ LoopDequeue(t) \/ FeedRecord(t)
    \/ FlushCheck(t) \/ FlushBackend(t)
    \/ RunCheck(t) \/ DequeueReady(t) \/ ReleaseFeeding(t)
    \/ FlushResume(t)
    \/ StopResume(t) \/ Join(t)

Next == \E t \in Threads : Enter(t) \/ Step(t) \/ SpuriousWakeup(t)

\* Every thread that can go on with its call does.
Fairness == \A t \in Threads : WF_vars(Step(t))

Spec == Init /\ [][Next]_vars
FairSpec == Spec /\ Fairness

-------------------------------------------------------------------------------
\* At most one thread feeds the backend, and it is the one whose identifier is
\* in m_FeedingThreadID: the queues allow one dequeuing thread only.
OneFeedingThread ==
    \A t \in Threads : pc[t] \in Feeding <=> feedingThread = t

\* A thread waiting in stop keeps m_StopRequested raised, or has been woken.
StopWaitsForStop ==
    (\E t \in Threads : pc[t] = "stopWait") => stopRequested

\* A thread waiting for a flush, in flush or in consume, waits for a raised flag.
WaitsForRaisedFlag ==
    (\E t \in Threads : pc[t] \in {"consumeWait", "flushWait"}) => flushRequested

\* A raised m_StopRequested has somebody to reset it: the thread that feeds now,
\* or the dedicated thread that is about to.  Only where the dedicated thread
\* has already ended may there be nobody (StopReturns shows how that hangs).
StopHasAnswerer ==
    stopRequested =>
        \/ feedingThread # NoThread
        \/ dedicated # NoThread /\ pc[dedicated] \in {"start", "dead"}

\* The thread in run does not sleep in dequeue_ready beside a request.
SleepsUnasked ==
    \A t \in Threads :
        pc[t] = "ready" /\ ~interruption => ~stopRequested /\ ~flushRequested

\* Requests are neither lost nor slept over: whoever waits in stop, flush or
\* consume has the flag raised that it waits for, every reset waking all of
\* them; a stop has a thread to answer it, unless the dedicated one has ended;
\* and run, whatever it had tested when the request came, does not go to sleep
\* before it has tested again.  That a flush is answered is not claimed: the
\* feeding thread may end by an exception, by a stop or with feed_records.
RequestsAreHeard ==
    StopWaitsForStop /\ WaitsForRaisedFlag /\ StopHasAnswerer /\ SleepsUnasked

\* Records reach the backend in the order they were enqueued, each once, with
\* the record in hand still counted as buffered.
InHand ==
    IF feedingThread # NoThread /\ hand[feedingThread] # NoRecord
       THEN <<hand[feedingThread]>> ELSE <<>>
Channel == INSTANCE RecordChannel WITH
    buffer <- InHand \o queue, output <- fed, lost <- {}, Lossy <- FALSE
ImplementsChannel == Channel!Spec

\* "feeds all log records that may have been buffered to the backend and
\* returns": whatever was buffered when flush was called is fed when it returns.
FlushFeedsEverything ==
    [][\A t \in Threads : op[t] = "flush" /\ op'[t] = "none"
           => owed[t] \subseteq Range(fed)]_vars

\* Calls that wait come to an end.
FlushReturns == \A t \in Threads : op[t] = "flush" ~> op[t] = "none"
StopReturns == \A t \in Threads : op[t] = "stop" ~> op[t] = "none"
ConsumeReturns == \A t \in Threads : op[t] = "consume" ~> op[t] = "none"
CallsReturn == FlushReturns /\ StopReturns /\ ConsumeReturns

\* With a dedicated thread every record in the queue reaches the backend,
\* unless stop has returned.
EveryRecordIsFed ==
    \A r \in Records :
        dedicated # NoThread /\ r \in Range(queue) ~> r \in Range(fed) \/ joined

===============================================================================
