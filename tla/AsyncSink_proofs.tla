--------------------------- MODULE AsyncSink_proofs ---------------------------
(***************************************************************************)
(* Theorems of AsyncSink for every set of threads, every choice of calls,  *)
(* with and without a dedicated thread and a backend that throws.          *)
(***************************************************************************)
EXTENDS AsyncSink, SequenceLemmas

USE NoThreadAssumption, StartThreadAssumption, BoundsAssumption, NoRecordAssumption
USE DEF threadVars

-------------------------------------------------------------------------------
(***************************************************************************)
(* Where threads stand after a step.                                       *)
(***************************************************************************)

\* The locations of a thread with a record to enqueue, which it has counted.
Logging == {"consumeWait", "consumeLock", "enqueue"}

\* A wakeup takes threads out of the waiting locations and leaves everything
\* else about their locations as it was.
LEMMA WokenLocations ==
    ASSUME NEW location \in Locations
    PROVE  /\ Woken(location) \in Locations \ Blocking
           /\ Woken(location) \in Feeding <=> location \in Feeding
           /\ Woken(location) \in Logging <=> location \in Logging
           /\ Woken(location) = "feed" <=> location = "feed"
BY DEF Woken, Locations, Blocking, Feeding, Logging

\* A step of thread t moves that thread only.
LEMMA GoToLocations ==
    ASSUME pc \in [Threads -> Locations], NEW t \in Threads,
           NEW location \in Locations, GoTo(t, location)
    PROVE  /\ pc' \in [Threads -> Locations]
           /\ pc'[t] = location
           /\ \A u \in Threads : u # t => pc'[u] = pc[u]
BY DEF GoTo

\* A notification by thread t moves that thread, and nobody waits after it.
LEMMA NotifyLocations ==
    ASSUME pc \in [Threads -> Locations], NEW t \in Threads,
           NEW location \in Locations \ Blocking, NotifyAllAndGoTo(t, location)
    PROVE  /\ pc' \in [Threads -> Locations]
           /\ pc'[t] = location
           /\ \A u \in Threads : pc'[u] \notin Blocking
           /\ \A u \in Threads : u # t =>
                 /\ pc'[u] \in Feeding <=> pc[u] \in Feeding
                 /\ pc'[u] \in Logging <=> pc[u] \in Logging
                 /\ pc'[u] = "feed" <=> pc[u] = "feed"
<1>1. \A u \in Threads : pc'[u] = IF u = t THEN location ELSE Woken(pc[u])
  BY DEF NotifyAllAndGoTo
<1>2. pc' \in [Threads -> Locations]
  BY WokenLocations DEF NotifyAllAndGoTo
<1> QED BY <1>1, <1>2, WokenLocations

-------------------------------------------------------------------------------
(***************************************************************************)
(* Type correctness.  A thread with a record to enqueue has counted the    *)
(* call, so that the number of the record is at least one.                 *)
(***************************************************************************)
LoggersHaveCounted ==
    \A t \in Threads : pc[t] \in Logging => calls[t] >= 1

TInv == TypeOK /\ LoggersHaveCounted

\* The constructor of the sink establishes the type invariant.
LEMMA TInvInit == Init => TInv
<1> SUFFICES ASSUME Init
             PROVE  TInv
  OBVIOUS
<1>1. <<>> \in Seq(Records)
  BY EmptySeq
<1>2. 0 \in 0..MaxCalls
  OBVIOUS
<1>3. pc \in [Threads -> Locations] /\ \A t \in Threads : pc[t] \notin Logging
  BY DEF Init, Locations, Logging, Blocking, Feeding
<1>4. op \in [Threads -> Operations]
  BY DEF Init, Operations
<1> QED BY <1>1, <1>2, <1>3, <1>4 DEF Init, InitFlags, TInv, TypeOK, LoggersHaveCounted

\* Entering a member function keeps the types, wherever the thread goes.
LEMMA CallTypes ==
    ASSUME TInv, NEW t \in Threads, NEW name \in Operations,
           NEW location \in Locations, Call(t, name, location)
    PROVE  /\ pc' \in [Threads -> Locations]
           /\ op' \in [Threads -> Operations]
           /\ calls' \in [Threads -> 0..MaxCalls]
           /\ LoggersHaveCounted'
<1>1. /\ pc' \in [Threads -> Locations]
      /\ \A u \in Threads : u # t => pc'[u] = pc[u]
  BY GoToLocations DEF Call, TInv, TypeOK
<1>2. /\ calls' = [calls EXCEPT ![t] = @ + 1]
      /\ calls \in [Threads -> 0..MaxCalls]
      /\ calls[t] < MaxCalls
  BY DEF Call, TInv, TypeOK
<1>3. calls[t] + 1 \in 1..MaxCalls
  BY <1>2
<1>4. /\ calls' \in [Threads -> 0..MaxCalls]
      /\ calls'[t] >= 1
      /\ \A u \in Threads : u # t => calls'[u] = calls[u]
  BY <1>2, <1>3
<1>5. op' \in [Threads -> Operations]
  BY DEF Call, TInv, TypeOK
<1> QED BY <1>1, <1>4, <1>5 DEF TInv, LoggersHaveCounted

\* A call that returns at once keeps them too.
LEMMA CallAndReturnTypes ==
    ASSUME TInv, NEW t \in Threads, NEW name, CallAndReturn(t, name)
    PROVE  /\ pc' = pc /\ op' = op
           /\ calls' \in [Threads -> 0..MaxCalls]
           /\ LoggersHaveCounted'
<1>1. /\ calls' = [calls EXCEPT ![t] = @ + 1]
      /\ calls \in [Threads -> 0..MaxCalls]
      /\ calls[t] < MaxCalls
      /\ pc' = pc /\ op' = op
  BY DEF CallAndReturn, TInv, TypeOK
<1>2. calls[t] + 1 \in 1..MaxCalls
  BY <1>1
<1>3. /\ calls' \in [Threads -> 0..MaxCalls]
      /\ calls'[t] >= 1
      /\ \A u \in Threads : u # t => calls'[u] = calls[u]
  BY <1>1, <1>2
<1> QED BY <1>1, <1>3 DEF TInv, LoggersHaveCounted

\* What is buffered is a set of records.
LEMMA BufferedAreRecords == TInv => Buffered \subseteq Records
BY DEF TInv, TypeOK, Buffered, Range

\* Every new call keeps the type invariant.
LEMMA TInvEnter ==
    ASSUME TInv, NEW t \in Threads, Enter(t)
    PROVE  TInv'
<1> USE DEF Operations, Locations, Blocking, Feeding
<1>1. CASE consume(t)
  <2>1. PICK location \in {"consumeLock", "enqueue"} : Call(t, "consume", location)
    BY <1>1 DEF consume
  <2> QED BY <1>1, <2>1, CallTypes DEF consume, queueVars, flagVars, TInv, TypeOK
<1>2. CASE try_consume(t)
  BY <1>2, CallTypes DEF try_consume, queueVars, flagVars, TInv, TypeOK
<1>3. CASE run(t)
  BY <1>3, CallTypes DEF run, queueVars, TInv, TypeOK
<1>4. CASE feed_records(t)
  BY <1>4, CallTypes DEF feed_records, queueVars, TInv, TypeOK
<1>5. CASE flush_ourselves(t)
  BY <1>5, CallTypes, BufferedAreRecords DEF flush_ourselves, queueVars, TInv, TypeOK
<1>6. CASE flush(t)
  BY <1>6, CallTypes, CallAndReturnTypes, BufferedAreRecords DEF flush, TInv, TypeOK
<1>7. CASE stop(t)
  BY <1>7, CallTypes DEF stop, TInv, TypeOK
<1> QED BY <1>1, <1>2, <1>3, <1>4, <1>5, <1>6, <1>7 DEF Enter

\* A step that goes to a location, counts nothing and does not become a
\* logging thread keeps the types of the locations.
LEMMA StepTypes ==
    ASSUME TInv, NEW t \in Threads, NEW location \in Locations,
           \/ GoTo(t, location)
           \/ location \notin Blocking /\ NotifyAllAndGoTo(t, location),
           location \in Logging => pc[t] \in Logging,
           calls' = calls
    PROVE  pc' \in [Threads -> Locations] /\ LoggersHaveCounted'
<1>0. /\ pc \in [Threads -> Locations]
      /\ \A u \in Threads : pc[u] \in Logging => calls[u] >= 1
  BY DEF TInv, TypeOK, LoggersHaveCounted
<1>1. CASE GoTo(t, location)
  BY <1>0, <1>1, GoToLocations DEF LoggersHaveCounted
<1>2. CASE location \notin Blocking /\ NotifyAllAndGoTo(t, location)
  BY <1>0, <1>2, NotifyLocations DEF LoggersHaveCounted
<1> QED BY <1>1, <1>2

\* Taking the front record keeps the types of the queue and of the hand.
LEMMA DequeueTypes ==
    ASSUME TInv, NEW t \in Threads, Dequeue(t)
    PROVE  /\ queue' \in Seq(Records)
           /\ hand' \in [Threads -> Records \cup {NoRecord}]
           /\ GoTo(t, "feed")
<1>1. Head(queue) \in Records /\ Tail(queue) \in Seq(Records)
  BY HeadTailProperties DEF Dequeue, TInv, TypeOK
<1> QED BY <1>1 DEF Dequeue, TInv, TypeOK

\* A record is out of the queue only in the hand of the thread about to feed
\* it: none is left behind by a stop, a flush or an exception.
HandIsFed ==
    \A t \in Threads : hand[t] # NoRecord <=> pc[t] = "feed"

\* Every step of a call under way keeps the type invariant, as a thread that
\* is about to feed a record has one.
LEMMA TInvStep ==
    ASSUME TInv, HandIsFed, NEW t \in Threads, Step(t)
    PROVE  TInv'
<1> USE DEF At
<1>0. /\ TypeOK
      /\ \A location \in Feeding \cup {"idle", "dead", "flushWoken", "join"} :
            location \in Locations \ Blocking /\ location \notin Logging
      /\ {"enqueue", "consumeLock", "consumeWait", "flushWait", "stopWait"} \subseteq Locations
      /\ "none" \in Operations
  BY DEF TInv, Locations, Blocking, Feeding, Logging, Operations
<1>1. CASE AwaitFlush(t)
  <2>1. PICK location \in {"consumeWait", "enqueue"} : GoTo(t, location)
    BY <1>1 DEF AwaitFlush
  <2>2. pc[t] \in Logging
    BY <1>1 DEF AwaitFlush, Logging
  <2> QED BY <1>0, <1>1, <2>1, <2>2, StepTypes DEF AwaitFlush, queueVars, flagVars, TInv, TypeOK
<1>2. CASE enqueue(t)
  <2>1. <<t, calls[t]>> \in Records
    BY <1>0, <1>2 DEF enqueue, TInv, LoggersHaveCounted, Logging, TypeOK, Records
  <2>2. "idle" \in Feeding \cup {"idle"} /\ GoTo(t, "idle")
    BY <1>2 DEF enqueue, Return
  <2>3. op' \in [Threads -> Operations]
    BY <1>0, <1>2 DEF enqueue, Return, TypeOK
  <2>4. queue' \in Seq(Records)
    BY <1>0, <1>2, <2>1 DEF enqueue, TypeOK
  <2> QED BY <1>0, <1>2, <2>1, <2>2, <2>3, <2>4, StepTypes DEF enqueue, flagVars, TInv, TypeOK
<1>3. CASE DedicatedRun(t)
  <2>1. PICK location \in {"loop", "dead"} : GoTo(t, location)
    BY <1>3 DEF DedicatedRun
  <2>2. location \in Feeding \cup {"dead"}
    BY <2>1 DEF Feeding
  <2> QED BY <1>0, <1>3, <2>1, <2>2, StepTypes DEF DedicatedRun, queueVars, TInv, TypeOK
<1>4. CASE LoopCheck(t) \/ RunCheck(t) \/ FlushCheck(t)
  <2>1. PICK location \in Feeding : GoTo(t, location)
    BY <1>4 DEF LoopCheck, RunCheck, FlushCheck, AfterFeeding, Feeding
  <2> QED BY <1>0, <1>4, <2>1, StepTypes
          DEF LoopCheck, RunCheck, FlushCheck, queueVars, flagVars, TInv, TypeOK
<1>5. CASE LoopDequeue(t)
  <2>1. PICK location \in {"feed", "served"} : GoTo(t, location)
    BY <1>5, DequeueTypes DEF LoopDequeue
  <2>2. location \in Feeding
    BY <2>1 DEF Feeding
  <2>3. queue' \in Seq(Records) /\ hand' \in [Threads -> Records \cup {NoRecord}]
    BY <1>0, <1>5, DequeueTypes DEF LoopDequeue, TypeOK
  <2> QED BY <1>0, <1>5, <2>1, <2>2, <2>3, StepTypes DEF LoopDequeue, flagVars, TInv, TypeOK
<1>7. CASE DequeueReady(t)
  <2>1. PICK location \in {"feed", "loop"} : GoTo(t, location)
    BY <1>7, DequeueTypes DEF DequeueReady
  <2>2. location \in Feeding
    BY <2>1 DEF Feeding
  <2>3. /\ queue' \in Seq(Records) /\ hand' \in [Threads -> Records \cup {NoRecord}]
        /\ interruption' \in BOOLEAN
    BY <1>0, <1>7, DequeueTypes DEF DequeueReady, TypeOK
  <2> QED BY <1>0, <1>7, <2>1, <2>2, <2>3, StepTypes DEF DequeueReady, flagVars, TInv, TypeOK
<1>8. CASE FlushBackend(t)
  <2>1. PICK location \in Feeding : NotifyAllAndGoTo(t, location)
    BY <1>8 DEF FlushBackend, AfterFeeding, Feeding
  <2> QED BY <1>0, <1>8, <2>1, StepTypes DEF FlushBackend, queueVars, TInv, TypeOK
<1>9. CASE ReleaseFeeding(t)
  <2>1. PICK location \in {"dead", "idle"} : NotifyAllAndGoTo(t, location)
    BY <1>9 DEF ReleaseFeeding
  <2>2. location \in Locations \ Blocking /\ location \notin Logging
    BY <1>0, <2>1
  <2>3. op' \in [Threads -> Operations]
    BY <1>0, <1>9 DEF ReleaseFeeding, TypeOK
  <2>4. terminated' \in BOOLEAN
    BY <1>0, <1>9 DEF ReleaseFeeding, TypeOK
  <2> QED BY <1>0, <1>9, <2>1, <2>2, <2>3, <2>4, StepTypes
          DEF ReleaseFeeding, queueVars, TInv, TypeOK
<1>10. CASE FlushResume(t)
  <2>1. PICK location \in {"flushWait", "idle", "loop"} : GoTo(t, location)
    BY <1>10 DEF FlushResume, Return
  <2>2. location \in Locations /\ location \notin Logging
    BY <2>1 DEF Locations, Blocking, Feeding, Logging
  <2>3. op' \in [Threads -> Operations]
    BY <1>0, <1>10 DEF FlushResume, Return, TypeOK
  <2>4. /\ feedingThread' \in Threads \cup {NoThread}
        /\ stopRequested' \in BOOLEAN /\ flushRequested' \in BOOLEAN
    BY <1>0, <1>10 DEF FlushResume, flagVars, TypeOK
  <2> QED BY <1>0, <1>10, <2>1, <2>2, <2>3, <2>4, StepTypes
          DEF FlushResume, queueVars, TInv, TypeOK
<1>11. CASE StopResume(t)
  <2>1. PICK location \in {"stopWait", "join"} : GoTo(t, location)
    BY <1>11 DEF StopResume
  <2>2. location \in Locations /\ location \notin Logging
    BY <2>1 DEF Locations, Blocking, Feeding, Logging
  <2> QED BY <1>0, <1>11, <2>1, <2>2, StepTypes
          DEF StopResume, queueVars, flagVars, TInv, TypeOK
<1>12. CASE Join(t)
  <2>1. GoTo(t, "idle") /\ op' \in [Threads -> Operations]
    BY <1>0, <1>12 DEF Join, Return, TypeOK
  <2>2. joined' \in BOOLEAN
    BY <1>12 DEF Join
  <2> QED BY <1>0, <1>12, <2>1, <2>2, StepTypes DEF Join, queueVars, flagVars, TInv, TypeOK
<1>6. CASE FeedRecord(t)
  <2>1. PICK location \in {"loop", "unwind"} : GoTo(t, location)
    BY <1>6 DEF FeedRecord
  <2>2. location \in Feeding
    BY <2>1 DEF Feeding
  <2>3. hand[t] \in Records
    BY <1>0, <1>6 DEF FeedRecord, HandIsFed, TypeOK
  <2>4. fed' \in Seq(Records) /\ hand' \in [Threads -> Records \cup {NoRecord}]
    BY <1>0, <1>6, <2>3 DEF FeedRecord, TypeOK
  <2> QED BY <1>0, <1>6, <2>1, <2>2, <2>4, StepTypes DEF FeedRecord, flagVars, TInv, TypeOK
<1> QED BY <1>1, <1>2, <1>3, <1>4, <1>5, <1>6, <1>7, <1>8, <1>9, <1>10, <1>11, <1>12
        DEF Step

-------------------------------------------------------------------------------
(***************************************************************************)
(* The feeding thread, its hand and the threads that wait.  The four parts *)
(* of Control are inductive together.                                      *)
(***************************************************************************)
Control == OneFeedingThread /\ HandIsFed /\ StopWaitsForStop /\ WaitsForRaisedFlag

IInv == TInv /\ Control

\* A step that keeps the roles of the threads: whoever fed goes on feeding, no
\* record is picked up or put down, and nobody starts to wait for a lowered flag.
LEMMA SameRoles ==
    ASSUME IInv,
           \A u \in Threads :
              /\ pc'[u] \in Feeding <=> pc[u] \in Feeding
              /\ pc'[u] = "feed" <=> pc[u] = "feed"
              /\ pc'[u] = "stopWait" => stopRequested'
              /\ pc'[u] \in {"consumeWait", "flushWait"} => flushRequested',
           UNCHANGED <<feedingThread, hand>>
    PROVE  Control'
BY DEF IInv, Control, OneFeedingThread, HandIsFed, StopWaitsForStop, WaitsForRaisedFlag

\* Every operation keeps the roles or hands the feeding over.
LEMMA ControlStep ==
    ASSUME IInv, [Next]_vars
    PROVE  Control'
<1>0. /\ TInv /\ pc \in [Threads -> Locations]
      /\ hand \in [Threads -> Records \cup {NoRecord}]
      /\ \A u \in Threads :
            /\ pc[u] \in Feeding <=> feedingThread = u
            /\ hand[u] # NoRecord <=> pc[u] = "feed"
            /\ pc[u] = "stopWait" => stopRequested
            /\ pc[u] \in {"consumeWait", "flushWait"} => flushRequested
  BY DEF IInv, Control, TInv, TypeOK, OneFeedingThread, HandIsFed, StopWaitsForStop,
         WaitsForRaisedFlag
<1>1. ASSUME NEW t \in Threads, NEW location \in Locations, GoTo(t, location),
             pc[t] \in Feeding <=> location \in Feeding,
             pc[t] # "feed", location # "feed",
             location = "stopWait" => stopRequested',
             location \in {"consumeWait", "flushWait"} => flushRequested',
             stopRequested => stopRequested', flushRequested => flushRequested',
             UNCHANGED <<feedingThread, hand>>
      PROVE  Control'
  <2>1. /\ pc'[t] = location
        /\ \A u \in Threads : u # t => pc'[u] = pc[u]
    BY <1>0, <1>1, GoToLocations
  <2> QED BY <1>0, <1>1, <2>1, SameRoles
<1>2. ASSUME NEW t \in Threads, NEW location \in Locations, GoTo(t, location),
             feedingThread = NoThread, feedingThread' = t, location \in Feeding,
             location # "feed", stopRequested => stopRequested',
             flushRequested => flushRequested', UNCHANGED hand
      PROVE  Control'
  <2>1. /\ pc'[t] = location
        /\ \A u \in Threads : u # t => pc'[u] = pc[u]
    BY <1>0, <1>2, GoToLocations
  <2>2. location \notin {"stopWait", "consumeWait", "flushWait"} /\ pc[t] \notin Feeding
    BY <1>0, <1>2 DEF Feeding
  <2>3. hand[t] = NoRecord
    BY <1>0, <2>2 DEF Feeding
  <2> QED BY <1>0, <1>2, <2>1, <2>2, <2>3
          DEF Control, OneFeedingThread, HandIsFed, StopWaitsForStop, WaitsForRaisedFlag
<1>3. ASSUME NEW t \in Threads, pc[t] \in Feeding, Dequeue(t), UNCHANGED flagVars
      PROVE  Control'
  <2>1. /\ pc'[t] = "feed" /\ "feed" \in Feeding
        /\ \A u \in Threads : u # t => pc'[u] = pc[u]
    BY <1>0, <1>3, GoToLocations DEF Dequeue, Locations, Feeding
  <2>2. Head(queue) \in Records
    BY <1>0, <1>3, HeadTailProperties DEF TInv, TypeOK, Dequeue
  <2>3. hand'[t] # NoRecord /\ \A u \in Threads : u # t => hand'[u] = hand[u]
    BY <1>0, <1>3, <2>2 DEF Dequeue
  <2> QED BY <1>0, <1>3, <2>1, <2>3
          DEF flagVars, Control, OneFeedingThread, HandIsFed, StopWaitsForStop,
              WaitsForRaisedFlag
<1>4. ASSUME NEW t \in Threads, Enter(t)
      PROVE  Control'
  <2> USE DEF Call, CallAndReturn, At, queueVars, flagVars
  <2>1. pc[t] = "idle" /\ "idle" \notin Feeding /\ "idle" # "feed"
    BY <1>4 DEF Enter, consume, try_consume, run, feed_records, flush_ourselves, flush,
                stop, Feeding
  <2>2. {"consumeLock", "enqueue", "loop", "flushWait", "stopWait"} \subseteq Locations
    BY DEF Locations, Blocking, Feeding
  <2>3. CASE consume(t) \/ try_consume(t)
    <3>1. PICK location \in {"consumeLock", "enqueue"} : GoTo(t, location)
      BY <2>3 DEF consume, try_consume
    <3> QED BY <1>1, <2>1, <2>2, <2>3, <3>1 DEF consume, try_consume, Feeding
  <2>4. CASE run(t) \/ feed_records(t)
    BY <1>2, <2>2, <2>4 DEF run, feed_records, Feeding
  <2>5. CASE flush_ourselves(t)
    BY <1>2, <2>2, <2>5 DEF flush_ourselves, Feeding
  <2>6. CASE flush(t)
    <3>1. CASE GoTo(t, "flushWait")
      BY <1>1, <2>1, <2>2, <2>6, <3>1 DEF flush, Feeding
    <3>2. CASE pc' = pc
      BY <1>0, <2>6, <3>2, SameRoles DEF flush
    <3> QED BY <2>6, <3>1, <3>2 DEF flush
  <2>7. CASE stop(t)
    BY <1>1, <2>1, <2>2, <2>7 DEF stop, Feeding
  <2> QED BY <1>4, <2>3, <2>4, <2>5, <2>6, <2>7 DEF Enter
<1>5. ASSUME NEW t \in Threads, Step(t)
      PROVE  Control'
  <2> USE DEF At, queueVars, flagVars
  <2>1. CASE AwaitFlush(t)
    <3>1. PICK location \in {"consumeWait", "enqueue"} :
             GoTo(t, location) /\ (location = "consumeWait" => flushRequested)
      BY <2>1 DEF AwaitFlush
    <3> QED BY <1>1, <2>1, <3>1 DEF AwaitFlush, Locations, Blocking, Feeding
  <2>2. CASE enqueue(t)
    BY <1>1, <2>2 DEF enqueue, Return, Locations, Feeding
  <2>3. CASE DedicatedRun(t)
    <3>1. CASE feedingThread = NoThread
      BY <1>2, <2>3, <3>1 DEF DedicatedRun, Locations, Feeding
    <3>2. CASE feedingThread # NoThread
      BY <1>1, <2>3, <3>2 DEF DedicatedRun, Locations, Feeding
    <3> QED BY <3>1, <3>2
  <2>4. CASE LoopCheck(t) \/ RunCheck(t) \/ FlushCheck(t)
    <3>1. PICK location \in Feeding \ {"feed"} : GoTo(t, location)
      BY <2>4 DEF LoopCheck, RunCheck, FlushCheck, AfterFeeding, Feeding
    <3>2. pc[t] \in Feeding \ {"feed"}
      BY <2>4 DEF LoopCheck, RunCheck, FlushCheck, Feeding
    <3>3. location \in Locations /\ location \notin {"stopWait", "consumeWait", "flushWait"}
      BY <3>1 DEF Locations, Feeding
    <3>4. UNCHANGED <<feedingThread, hand, stopRequested, flushRequested>>
      BY <2>4 DEF LoopCheck, RunCheck, FlushCheck
    <3> QED BY <1>1, <3>1, <3>2, <3>3, <3>4
  <2>5. CASE LoopDequeue(t)
    <3>1. pc[t] \in Feeding /\ pc[t] # "feed"
      BY <2>5 DEF LoopDequeue, Feeding
    <3>2. CASE GoTo(t, "served") /\ UNCHANGED hand
      BY <1>1, <2>5, <3>1, <3>2 DEF LoopDequeue, Locations, Feeding
    <3> QED BY <1>3, <2>5, <3>1, <3>2 DEF LoopDequeue
  <2>6. CASE DequeueReady(t)
    <3>1. pc[t] \in Feeding /\ pc[t] # "feed"
      BY <2>6 DEF DequeueReady, Feeding
    <3>2. CASE GoTo(t, "loop") /\ UNCHANGED hand
      BY <1>1, <2>6, <3>1, <3>2 DEF DequeueReady, Locations, Feeding
    <3> QED BY <1>3, <2>6, <3>1, <3>2 DEF DequeueReady
  <2>7. CASE FeedRecord(t)
    <3>1. PICK location \in {"loop", "unwind"} : GoTo(t, location)
      BY <2>7 DEF FeedRecord
    <3>2. /\ pc'[t] = location /\ location \in Feeding
          /\ location \notin {"feed", "stopWait", "consumeWait", "flushWait"}
          /\ \A u \in Threads : u # t => pc'[u] = pc[u]
      BY <1>0, <3>1, GoToLocations DEF Locations, Feeding
    <3>3. pc[t] \in Feeding
      BY <2>7 DEF FeedRecord, Feeding
    <3>4. hand'[t] = NoRecord /\ \A u \in Threads : u # t => hand'[u] = hand[u]
      BY <1>0, <2>7 DEF FeedRecord
    <3> QED BY <1>0, <2>7, <3>2, <3>3, <3>4
            DEF FeedRecord, Control, OneFeedingThread, HandIsFed, StopWaitsForStop,
                WaitsForRaisedFlag
  <2>8. CASE FlushBackend(t)
    <3>1. PICK location \in Feeding \ {"feed"} : NotifyAllAndGoTo(t, location)
      BY <2>8 DEF FlushBackend, AfterFeeding, Feeding
    <3>2. location \in Locations \ Blocking
      BY <3>1 DEF Locations, Blocking, Feeding
    <3>3. pc[t] \in Feeding \ {"feed"}
      BY <2>8 DEF FlushBackend, Feeding
    <3>4. /\ pc'[t] = location
          /\ \A u \in Threads : pc'[u] \notin {"stopWait", "consumeWait", "flushWait"}
          /\ \A u \in Threads : u # t =>
                /\ pc'[u] \in Feeding <=> pc[u] \in Feeding
                /\ pc'[u] = "feed" <=> pc[u] = "feed"
      BY <1>0, <3>1, <3>2, NotifyLocations DEF Blocking
    <3> QED BY <2>8, <3>1, <3>3, <3>4, SameRoles DEF FlushBackend
  <2>9. CASE ReleaseFeeding(t)
    <3>1. PICK location \in {"dead", "idle"} : NotifyAllAndGoTo(t, location)
      BY <2>9 DEF ReleaseFeeding
    <3>2. location \in Locations \ Blocking /\ location \notin Feeding /\ location # "feed"
      BY <3>1 DEF Locations, Blocking, Feeding
    <3>3. pc[t] \in Feeding \ {"feed"}
      BY <2>9 DEF ReleaseFeeding, Feeding
    <3>4. /\ pc'[t] = location
          /\ \A u \in Threads : pc'[u] \notin {"stopWait", "consumeWait", "flushWait"}
          /\ \A u \in Threads : u # t =>
                /\ pc'[u] \in Feeding <=> pc[u] \in Feeding
                /\ pc'[u] = "feed" <=> pc[u] = "feed"
      BY <1>0, <3>1, <3>2, NotifyLocations DEF Blocking
    <3> QED BY <1>0, <2>9, <3>2, <3>3, <3>4
            DEF ReleaseFeeding, Control, OneFeedingThread, HandIsFed, StopWaitsForStop,
                WaitsForRaisedFlag
  <2>10. CASE FlushResume(t)
    <3>1. pc[t] \notin Feeding /\ pc[t] # "feed"
      BY <2>10 DEF FlushResume, Feeding
    <3>2. {"flushWait", "idle", "loop"} \subseteq Locations
      BY DEF Locations, Blocking, Feeding
    <3>3. CASE GoTo(t, "flushWait") /\ flushRequested /\ UNCHANGED flagVars
      BY <1>1, <2>10, <3>1, <3>2, <3>3 DEF FlushResume, Feeding
    <3>4. CASE Return(t) /\ UNCHANGED flagVars
      BY <1>1, <2>10, <3>1, <3>2, <3>4 DEF FlushResume, Return, Feeding
    <3>5. CASE feedingThread = NoThread /\ feedingThread' = t /\ GoTo(t, "loop")
               /\ flushRequested' /\ UNCHANGED stopRequested
      BY <1>2, <2>10, <3>2, <3>5 DEF FlushResume, Feeding
    <3> QED BY <2>10, <3>3, <3>4, <3>5 DEF FlushResume
  <2>11. CASE StopResume(t)
    <3>1. PICK location \in {"stopWait", "join"} :
             GoTo(t, location) /\ (location = "stopWait" => stopRequested)
      BY <2>11 DEF StopResume
    <3> QED BY <1>1, <2>11, <3>1 DEF StopResume, Locations, Blocking, Feeding
  <2>12. CASE Join(t)
    BY <1>1, <2>12 DEF Join, Return, Locations, Feeding
  <2> QED BY <1>5, <2>1, <2>2, <2>3, <2>4, <2>5, <2>6, <2>7, <2>8, <2>9, <2>10, <2>11, <2>12
          DEF Step
<1>6. ASSUME NEW t \in Threads, SpuriousWakeup(t)
      PROVE  Control'
  <2>1. /\ Woken(pc[t]) \in Locations \ Blocking
        /\ Woken(pc[t]) \notin Feeding /\ pc[t] \notin Feeding
        /\ Woken(pc[t]) # "feed" /\ pc[t] # "feed"
    BY <1>0, <1>6, WokenLocations DEF SpuriousWakeup, Blocking, Feeding
  <2>2. Woken(pc[t]) \notin {"stopWait", "consumeWait", "flushWait"}
    BY <2>1 DEF Blocking
  <2> QED BY <1>1, <1>6, <2>1, <2>2 DEF SpuriousWakeup, queueVars, flagVars
<1>7. CASE UNCHANGED vars
  BY <1>0, <1>7, SameRoles DEF vars
<1> QED BY <1>4, <1>5, <1>6, <1>7 DEF Next

\* Every step keeps the inductive invariant.
LEMMA IInvStep == IInv /\ [Next]_vars => IInv'
<1> SUFFICES ASSUME IInv, [Next]_vars
             PROVE  TInv'
  BY ControlStep DEF IInv
<1>1. ASSUME NEW t \in Threads, Enter(t)
      PROVE  TInv'
  BY <1>1, TInvEnter DEF IInv
<1>2. ASSUME NEW t \in Threads, Step(t)
      PROVE  TInv'
  BY <1>2, TInvStep DEF IInv, Control
<1>3. ASSUME NEW t \in Threads, SpuriousWakeup(t)
      PROVE  TInv'
  <2>1. /\ Woken(pc[t]) \in Locations
        /\ Woken(pc[t]) \in Logging => pc[t] \in Logging
    BY WokenLocations DEF IInv, TInv, TypeOK
  <2> QED BY <1>3, <2>1, StepTypes
          DEF IInv, SpuriousWakeup, queueVars, flagVars, TInv, TypeOK
<1>4. CASE UNCHANGED vars
  BY <1>4 DEF vars, IInv, TInv, TypeOK, LoggersHaveCounted
<1> QED BY <1>1, <1>2, <1>3, <1>4 DEF Next

\* The sink starts with nobody feeding and nobody waiting.
LEMMA IInvInit == Init => IInv
<1>1. Init => Control
  BY DEF Init, InitFlags, Control, OneFeedingThread, HandIsFed, StopWaitsForStop,
         WaitsForRaisedFlag, Feeding
<1> QED BY <1>1, TInvInit DEF IInv

LEMMA IInvAlways == Spec => []IInv
BY IInvInit, IInvStep, PTL DEF Spec

\* The variables of the sink always have their types.
THEOREM TypeCorrect == Spec => []TypeOK
BY IInvAlways, PTL DEF IInv, TInv

\* At most one thread at a time feeds the backend, whichever way it came to
\* feed: scoped_thread_id is a lock on the consuming end of the queue.
THEOREM OneThreadFeeds == Spec => []OneFeedingThread
BY IInvAlways, PTL DEF IInv, Control

-------------------------------------------------------------------------------
(***************************************************************************)
(* Requests to the feeding thread.  On top of IInv: the dedicated thread   *)
(* is about to feed, feeding or at its end, so that a stop that finds it   *)
(* unjoined finds somebody to answer it; and a thread about to sleep in    *)
(* dequeue_ready that has missed a request finds the interruption.         *)
(***************************************************************************)
Ends == {"start", "dead"}

DedicatedStands == dedicated # NoThread => pc[dedicated] \in Ends \cup Feeding

FlushInterrupts ==
    \A t \in Threads : pc[t] = "runCheck" /\ ~interruption => ~flushRequested

Heard == StopHasAnswerer /\ SleepsUnasked /\ DedicatedStands /\ FlushInterrupts

\* A step by which thread t alone enters or leaves a location that matters here.
OneMoves(t) ==
    \A u \in Threads : u # t =>
        /\ pc'[u] \in Ends <=> pc[u] \in Ends
        /\ pc'[u] \in Feeding <=> pc[u] \in Feeding
        /\ pc'[u] = "ready" <=> pc[u] = "ready"
        /\ pc'[u] = "runCheck" <=> pc[u] = "runCheck"

\* What such a step has to see to: thread t goes neither to sleep nor to its
\* last test with a request unheard, requests of others come with an
\* interruption, and a stop keeps its answerer.
LEMMA HeardKept ==
    ASSUME IInv, Heard, NEW t \in Threads, OneMoves(t), UNCHANGED dedicated,
           t = dedicated => pc'[t] \in Ends \cup Feeding,
           pc'[t] = "ready" /\ ~interruption' => ~stopRequested' /\ ~flushRequested',
           pc'[t] = "runCheck" /\ ~interruption' => ~flushRequested',
           feedingThread \notin {t, NoThread} =>
              /\ stopRequested' => stopRequested \/ interruption'
              /\ flushRequested' => flushRequested \/ interruption'
              /\ interruption => interruption',
           stopRequested' =>
              \/ feedingThread' # NoThread
              \/ dedicated # NoThread /\ pc'[dedicated] \in Ends
    PROVE  Heard'
<1>1. /\ dedicated # NoThread => dedicated \in Threads
      /\ \A u \in Threads : pc[u] \in Feeding => feedingThread = u
      /\ \A u \in Threads :
            /\ pc[u] = "ready" /\ ~interruption => ~stopRequested /\ ~flushRequested
            /\ pc[u] = "runCheck" /\ ~interruption => ~flushRequested
      /\ interruption \in BOOLEAN /\ stopRequested \in BOOLEAN /\ flushRequested \in BOOLEAN
  BY DEF IInv, TInv, TypeOK, Control, OneFeedingThread, Heard, SleepsUnasked, FlushInterrupts
<1>2. StopHasAnswerer'
  BY DEF StopHasAnswerer, Ends
<1>3. DedicatedStands'
  BY <1>1 DEF DedicatedStands, OneMoves, Heard
<1>4. ASSUME NEW u \in Threads, u # t, pc'[u] \in {"ready", "runCheck"}
      PROVE  /\ pc[u] = pc'[u]
             /\ feedingThread = u /\ feedingThread \notin {t, NoThread}
  BY <1>1, <1>4 DEF OneMoves, Feeding
<1>5. SleepsUnasked'
  BY <1>1, <1>4 DEF SleepsUnasked
<1>6. FlushInterrupts'
  BY <1>1, <1>4 DEF FlushInterrupts
<1> QED BY <1>2, <1>3, <1>5, <1>6 DEF Heard

\* A thread that moves by itself.
LEMMA GoToMoves ==
    ASSUME IInv, NEW t \in Threads, NEW location \in Locations, GoTo(t, location)
    PROVE  OneMoves(t) /\ pc'[t] = location
BY GoToLocations DEF OneMoves, IInv, TInv, TypeOK

\* A thread that wakes the others.
LEMMA NotifyMoves ==
    ASSUME IInv, NEW t \in Threads, NEW location \in Locations \ Blocking,
           NotifyAllAndGoTo(t, location)
    PROVE  OneMoves(t) /\ pc'[t] = location
<1>1. \A u \in Threads : pc'[u] = IF u = t THEN location ELSE Woken(pc[u])
  BY DEF NotifyAllAndGoTo, IInv, TInv, TypeOK
<1>2. \A u \in Threads : u # t =>
         \/ pc'[u] = pc[u]
         \/ pc[u] \in Blocking /\ pc'[u] \in {"consumeLock", "flushWoken", "stopWoken"}
  BY <1>1 DEF Woken, Blocking
<1> QED BY <1>1, <1>2 DEF OneMoves, Ends, Feeding, Blocking

\* Every operation keeps the requests heard.
LEMMA HeardStep ==
    ASSUME IInv, Heard, [Next]_vars
    PROVE  Heard'
<1>0. /\ pc \in [Threads -> Locations]
      /\ dedicated # NoThread => dedicated \in Threads
      /\ \A u \in Threads : pc[u] \in Feeding <=> feedingThread = u
      /\ NoThread \notin Threads
      /\ stopRequested =>
            feedingThread # NoThread \/ (dedicated # NoThread /\ pc[dedicated] \in Ends)
      /\ dedicated # NoThread => pc[dedicated] \in Ends \cup Feeding
      /\ \A u \in Threads :
            /\ pc[u] = "ready" /\ ~interruption => ~stopRequested /\ ~flushRequested
            /\ pc[u] = "runCheck" /\ ~interruption => ~flushRequested
      /\ interruption \in BOOLEAN /\ stopRequested \in BOOLEAN /\ flushRequested \in BOOLEAN
  BY DEF IInv, TInv, TypeOK, Control, OneFeedingThread, Heard, StopHasAnswerer, SleepsUnasked,
         DedicatedStands, FlushInterrupts, Ends
<1>1. ASSUME NEW t \in Threads, NEW location \in Locations, OneMoves(t), pc'[t] = location,
             pc[t] \notin Ends, pc[t] \notin Feeding, location \notin Ends \cup {"ready", "runCheck"},
             feedingThread' \in {feedingThread, t}, UNCHANGED <<dedicated, interruption>>,
             stopRequested' = stopRequested,
             feedingThread # NoThread => flushRequested' = flushRequested
      PROVE  Heard'
  BY <1>0, <1>1, HeardKept DEF OneMoves
<1>2. ASSUME NEW t \in Threads, OneMoves(t), pc[t] \in Feeding, pc'[t] \in Feeding,
             UNCHANGED <<dedicated, feedingThread, stopRequested>>,
             pc'[t] = "ready" /\ ~interruption' => ~stopRequested' /\ ~flushRequested',
             pc'[t] = "runCheck" /\ ~interruption' => ~flushRequested'
      PROVE  Heard'
  <2>1. feedingThread = t /\ t # NoThread
    BY <1>0, <1>2
  <2> QED BY <1>0, <1>2, <2>1, HeardKept
<1>3. ASSUME NEW t \in Threads, Enter(t)
      PROVE  Heard'
  <2> USE DEF Call, CallAndReturn, At, queueVars, flagVars
  <2>1. /\ pc[t] = "idle" /\ "idle" \notin Feeding /\ "idle" \notin Ends /\ t # dedicated
        /\ UNCHANGED dedicated
    BY <1>0, <1>3 DEF Enter, consume, try_consume, run, feed_records, flush_ourselves, flush,
                stop, Feeding, Ends
  <2>2. {"consumeLock", "enqueue", "loop", "flushWait", "stopWait"}
            \subseteq Locations \ (Ends \cup {"ready", "runCheck"})
    BY DEF Locations, Blocking, Feeding, Ends
  <2>3. CASE consume(t) \/ try_consume(t)
    <3>1. PICK location \in {"consumeLock", "enqueue"} : GoTo(t, location)
      BY <2>3 DEF consume, try_consume
    <3> QED BY <1>1, <2>1, <2>2, <2>3, <3>1, GoToMoves DEF consume, try_consume
  <2>4. CASE run(t) \/ feed_records(t)
    BY <1>1, <2>1, <2>2, <2>4, GoToMoves DEF run, feed_records
  <2>5. CASE flush_ourselves(t)
    BY <1>1, <2>1, <2>2, <2>5, GoToMoves DEF flush_ourselves
  <2>6. CASE flush(t)
    <3>1. OneMoves(t) /\ pc'[t] \in {"idle", "flushWait"}
      <4>1. CASE GoTo(t, "flushWait")
        BY <2>2, <4>1, GoToMoves
      <4>2. CASE pc' = pc
        BY <2>1, <4>2 DEF OneMoves
      <4> QED BY <2>6, <4>1, <4>2 DEF flush
    <3>2. \A u \in Threads : u # t => pc'[u] \in Ends <=> pc[u] \in Ends
      BY <3>1 DEF OneMoves
    <3> QED BY <1>0, <2>1, <2>6, <3>1, <3>2, HeardKept DEF flush
  <2>7. CASE stop(t)
    <3>1. OneMoves(t) /\ pc'[t] = "stopWait"
      BY <2>2, <2>7, GoToMoves DEF stop
    <3>2. \A u \in Threads : u # t => (pc'[u] \in Ends <=> pc[u] \in Ends)
      BY <3>1 DEF OneMoves
    <3>3. feedingThread # NoThread \/ (dedicated # NoThread /\ pc'[dedicated] \in Ends)
      BY <1>0, <2>1, <2>7, <3>2 DEF stop, Joinable
    <3> QED BY <1>0, <2>1, <2>7, <3>1, <3>3, HeardKept DEF stop
  <2> QED BY <1>3, <2>3, <2>4, <2>5, <2>6, <2>7 DEF Enter
<1>4. ASSUME NEW t \in Threads, Step(t)
      PROVE  Heard'
  <2> USE DEF At, queueVars, flagVars
  <2>1. CASE AwaitFlush(t)
    <3>1. PICK location \in {"consumeWait", "enqueue"} : GoTo(t, location)
      BY <2>1 DEF AwaitFlush
    <3> QED BY <1>1, <2>1, <3>1, GoToMoves DEF AwaitFlush, Locations, Blocking, Feeding, Ends
  <2>2. CASE enqueue(t)
    BY <1>1, <2>2, GoToMoves DEF enqueue, Return, Locations, Blocking, Feeding, Ends
  <2>3. CASE DedicatedRun(t)
    <3>1. CASE feedingThread = NoThread
      <4>1. OneMoves(t) /\ pc'[t] = "loop" /\ "loop" \in Feeding
        BY <2>3, <3>1, GoToMoves DEF DedicatedRun, Locations, Feeding
      <4> QED BY <1>0, <2>3, <3>1, <4>1, HeardKept DEF DedicatedRun
    <3>2. CASE feedingThread # NoThread
      <4>1. OneMoves(t) /\ pc'[t] = "dead" /\ "dead" \in Ends
        BY <2>3, <3>2, GoToMoves DEF DedicatedRun, Locations, Ends
      <4> QED BY <1>0, <2>3, <3>2, <4>1, HeardKept DEF DedicatedRun
    <3> QED BY <3>1, <3>2
  <2>4. CASE LoopCheck(t)
    <3>1. PICK location \in {"served", "pop"} : GoTo(t, location)
      BY <2>4 DEF LoopCheck
    <3> QED BY <1>2, <2>4, <3>1, GoToMoves DEF LoopCheck, Locations, Feeding
  <2>5. CASE LoopDequeue(t)
    <3>1. PICK location \in {"served", "feed"} : GoTo(t, location)
      BY <2>5 DEF LoopDequeue, Dequeue
    <3> QED BY <1>2, <2>5, <3>1, GoToMoves DEF LoopDequeue, Locations, Feeding
  <2>6. CASE FeedRecord(t)
    <3>1. PICK location \in {"loop", "unwind"} : GoTo(t, location)
      BY <2>6 DEF FeedRecord
    <3> QED BY <1>2, <2>6, <3>1, GoToMoves DEF FeedRecord, Locations, Feeding
  <2>7. CASE FlushCheck(t)
    <3>1. PICK location \in {"flushBackend", "runCheck", "release"} :
             GoTo(t, location) /\ (location = "runCheck" => ~flushRequested)
      BY <2>7 DEF FlushCheck, AfterFeeding
    <3> QED BY <1>2, <2>7, <3>1, GoToMoves DEF FlushCheck, Locations, Feeding
  <2>8. CASE FlushBackend(t)
    <3>1. PICK location \in {"runCheck", "release", "unwind"} : NotifyAllAndGoTo(t, location)
      BY <2>8 DEF FlushBackend, AfterFeeding
    <3>2. ~flushRequested'
      BY <2>8 DEF FlushBackend
    <3> QED BY <1>2, <2>8, <3>1, <3>2, NotifyMoves DEF FlushBackend, Locations, Blocking, Feeding
  <2>9. CASE RunCheck(t)
    <3>1. PICK location \in {"release", "ready"} :
             GoTo(t, location) /\ (location = "ready" => ~stopRequested)
      BY <2>9 DEF RunCheck
    <3> QED BY <1>0, <1>2, <2>9, <3>1, GoToMoves DEF RunCheck, Locations, Feeding
  <2>10. CASE DequeueReady(t)
    <3>1. PICK location \in {"loop", "feed"} : GoTo(t, location)
      BY <2>10 DEF DequeueReady, Dequeue
    <3> QED BY <1>2, <2>10, <3>1, GoToMoves DEF DequeueReady, Locations, Feeding
  <2>11. CASE ReleaseFeeding(t)
    <3>1. PICK location \in {"dead", "idle"} :
             NotifyAllAndGoTo(t, location) /\ (t = dedicated => location = "dead")
      BY <2>11 DEF ReleaseFeeding
    <3>2. feedingThread = t
      BY <1>0, <2>11 DEF ReleaseFeeding, Feeding
    <3>3. ~stopRequested'
      BY <2>11 DEF ReleaseFeeding
    <3>4. OneMoves(t) /\ pc'[t] = location
      BY <3>1, NotifyMoves DEF Locations, Blocking
    <3>5. location \notin {"ready", "runCheck"} /\ "dead" \in Ends
      BY DEF Ends
    <3> QED BY <2>11, <3>1, <3>2, <3>3, <3>4, <3>5, HeardKept DEF ReleaseFeeding
  <2>12. CASE FlushResume(t)
    <3>1. pc[t] \notin Feeding /\ pc[t] \notin Ends
      BY <2>12 DEF FlushResume, Feeding, Ends
    <3>2. PICK location \in {"flushWait", "idle", "loop"} : GoTo(t, location)
      BY <2>12 DEF FlushResume, Return
    <3>3. location \in Locations \ (Ends \cup {"ready", "runCheck"})
      BY DEF Locations, Blocking, Feeding, Ends
    <3>4. OneMoves(t) /\ pc'[t] = location
      BY <3>2, <3>3, GoToMoves
    <3> QED BY <1>1, <2>12, <3>1, <3>3, <3>4 DEF FlushResume
  <2>13. CASE StopResume(t)
    <3>1. PICK location \in {"stopWait", "join"} : GoTo(t, location)
      BY <2>13 DEF StopResume
    <3> QED BY <1>1, <2>13, <3>1, GoToMoves DEF StopResume, Locations, Blocking, Feeding, Ends
  <2>14. CASE Join(t)
    BY <1>1, <2>14, GoToMoves DEF Join, Return, Locations, Blocking, Feeding, Ends
  <2> QED BY <1>4, <2>1, <2>2, <2>3, <2>4, <2>5, <2>6, <2>7, <2>8, <2>9, <2>10, <2>11, <2>12,
             <2>13, <2>14 DEF Step
<1>5. ASSUME NEW t \in Threads, SpuriousWakeup(t)
      PROVE  Heard'
  <2>1. pc[t] \in Blocking /\ GoTo(t, Woken(pc[t]))
        /\ Woken(pc[t]) \in {"consumeLock", "flushWoken", "stopWoken"}
    BY <1>5 DEF SpuriousWakeup, Woken, Blocking
  <2> QED BY <1>1, <1>5, <2>1, GoToMoves
          DEF SpuriousWakeup, queueVars, flagVars, Locations, Blocking, Feeding, Ends
<1>6. CASE UNCHANGED vars
  BY <1>6 DEF vars, Heard, StopHasAnswerer, SleepsUnasked, DedicatedStands, FlushInterrupts
<1> QED BY <1>3, <1>4, <1>5, <1>6 DEF Next

\* Requests stand until they are answered and the feeding thread never sleeps
\* beside one, for every set of threads, with every choice of their calls.
THEOREM RequestsStand == Spec => []RequestsAreHeard
<1>1. Init => Heard
  BY NoThreadAssumption DEF Init, InitFlags, Heard, StopHasAnswerer, SleepsUnasked, DedicatedStands,
         FlushInterrupts, Ends
<1>2. IInv /\ Heard => RequestsAreHeard
  BY DEF IInv, Control, Heard, RequestsAreHeard
<1>3. IInv /\ Heard /\ [Next]_vars => Heard'
  BY HeardStep
<1> QED BY <1>1, <1>2, <1>3, IInvAlways, PTL DEF Spec

-------------------------------------------------------------------------------
(***************************************************************************)
(* The sink implements the record channel.  Pending is its buffer.  The    *)
(* invariant behind it: every record given away was counted before, and    *)
(* the one a logging thread is about to enqueue was not given away yet.    *)
(***************************************************************************)
Pending == InHand \o queue

Given == Range(Pending) \cup Range(fed)

Accounting ==
    /\ Given \subseteq Records
    /\ \A r \in Given : r[2] <= calls[r[1]]
    /\ \A t \in Threads : pc[t] \in Logging => <<t, calls[t]>> \notin Given

ChannelStep == [Channel!Next]_(Channel!channel)

\* A record in hand is in the hand of the feeding thread.
LEMMA HandOfFeedingThread ==
    ASSUME IInv
    PROVE  /\ \A t \in Threads : pc[t] = "feed" =>
                 InHand = <<hand[t]>> /\ hand[t] \in Records /\ feedingThread = t
           /\ (\A t \in Threads : pc[t] # "feed") => InHand = <<>>
           /\ InHand \in Seq(Records)
<1>1. /\ \A t \in Threads : hand[t] # NoRecord <=> pc[t] = "feed"
      /\ \A t \in Threads : pc[t] = "feed" => feedingThread = t
      /\ hand \in [Threads -> Records \cup {NoRecord}]
      /\ feedingThread \in Threads \cup {NoThread}
  BY DEF IInv, TInv, TypeOK, Control, HandIsFed, OneFeedingThread, Feeding
<1>2. ASSUME NEW t \in Threads, pc[t] = "feed"
      PROVE  InHand = <<hand[t]>> /\ hand[t] \in Records /\ feedingThread = t
  BY <1>1, <1>2 DEF InHand
<1>3. ASSUME \A t \in Threads : pc[t] # "feed"
      PROVE  InHand = <<>>
  BY <1>1, <1>3 DEF InHand
<1>4. InHand \in Seq(Records)
  <2>1. CASE \E t \in Threads : pc[t] = "feed"
    <3>1. PICK t \in Threads : pc[t] = "feed"
      BY <2>1
    <3>2. InHand = <<hand[t]>> /\ hand[t] \in Records
      BY <1>2, <3>1
    <3>3. <<hand[t]>> \in Seq(Records)
      BY <3>2
    <3> QED BY <3>2, <3>3
  <2>2. CASE \A t \in Threads : pc[t] # "feed"
    <3>1. <<>> \in Seq(Records)
      BY EmptySeq
    <3> QED BY <1>3, <2>2, <3>1
  <2> QED BY <2>1, <2>2
<1> QED BY <1>2, <1>3, <1>4

\* Whoever feeds, what is in hand stays in hand as long as no thread picks a
\* record up or feeds one.
LEMMA SameHands ==
    ASSUME IInv, IInv', UNCHANGED hand
    PROVE  InHand' = InHand
<1>1. /\ \A t \in Threads : hand[t] # NoRecord => feedingThread = t /\ feedingThread' = t
      /\ feedingThread \in Threads \cup {NoThread}
      /\ feedingThread' \in Threads \cup {NoThread}
  BY DEF IInv, TInv, TypeOK, Control, HandIsFed, OneFeedingThread, Feeding
<1> QED BY <1>1 DEF InHand

\* A record enters the buffer at its end.
LEMMA EnqueueIsAccept ==
    ASSUME IInv, IInv', NEW r \in Records, r \notin Given,
           queue' = Append(queue, r), UNCHANGED <<hand, fed>>
    PROVE  Channel!Accept(r) /\ Given' = Given \cup {r}
<1>1. InHand' = InHand /\ InHand \in Seq(Records) /\ queue \in Seq(Records)
  BY SameHands, HandOfFeedingThread DEF IInv, TInv, TypeOK
<1>2. Pending \in Seq(Records) /\ Pending' = Append(Pending, r)
  <2>1. /\ Append(queue, r) = queue \o <<r>>
        /\ Pending \in Seq(Records)
        /\ Append(Pending, r) = Pending \o <<r>>
        /\ <<r>> \in Seq(Records)
    BY <1>1, AppendIsConcat, ConcatProperties DEF Pending
  <2> QED BY <1>1, <2>1, ConcatAssociative DEF Pending
<1>3. Range(Pending') = Range(Pending) \cup {r}
  BY <1>2, RangeOfAppend
<1> QED BY <1>2, <1>3 DEF Given, Pending, Channel!Accept, Channel!Seen, Channel!Range, Range

\* Taking a record into the hand leaves the buffer as it was.
LEMMA DequeueKeepsPending ==
    ASSUME IInv, NEW t \in Threads, Dequeue(t), pc[t] \in Feeding, pc[t] # "feed",
           UNCHANGED feedingThread
    PROVE  Pending' = Pending
<1>1. /\ queue \in Seq(Records) /\ queue # <<>> /\ queue' = Tail(queue)
      /\ hand \in [Threads -> Records \cup {NoRecord}]
      /\ hand' = [hand EXCEPT ![t] = Head(queue)]
      /\ feedingThread = t
      /\ hand[t] = NoRecord
  BY DEF Dequeue, IInv, TInv, TypeOK, Control, OneFeedingThread, HandIsFed
<1>2. Head(queue) \in Records
  BY <1>1, HeadTailProperties
<1>3. InHand = <<>> /\ InHand' = <<Head(queue)>>
  BY <1>1, <1>2 DEF InHand
<1> QED BY <1>1, <1>3, FrontAndRest, ConcatEmptySeq DEF Pending

\* Feeding the record in hand takes it from the front of the buffer.
LEMMA FeedIsDeliver ==
    ASSUME IInv, IInv', NEW t \in Threads, FeedRecord(t)
    PROVE  Channel!Deliver /\ Given' = Given
<1>1. /\ pc[t] = "feed" /\ fed' = Append(fed, hand[t])
      /\ hand' = [hand EXCEPT ![t] = NoRecord]
      /\ queue' = queue /\ feedingThread' = feedingThread
      /\ queue \in Seq(Records) /\ fed \in Seq(Records)
      /\ hand \in [Threads -> Records \cup {NoRecord}]
  BY DEF FeedRecord, At, flagVars, IInv, TInv, TypeOK
<1>2. InHand = <<hand[t]>> /\ hand[t] \in Records /\ feedingThread = t
  BY <1>1, HandOfFeedingThread
<1>3. InHand' = <<>>
  BY <1>1, <1>2 DEF InHand
<1>4. /\ Pending # <<>> /\ Head(Pending) = hand[t] /\ Tail(Pending) = queue
      /\ Range(Pending) = Range(queue) \cup {hand[t]}
  BY <1>1, <1>2, ElementInFront DEF Pending
<1>5. Pending' = queue
  BY <1>1, <1>3, ConcatEmptySeq DEF Pending
<1>6. Range(fed') = Range(fed) \cup {hand[t]}
  BY <1>1, <1>2, RangeOfAppend
<1> QED BY <1>1, <1>4, <1>5, <1>6 DEF Given, Pending, Channel!Deliver

\* Every step of the sink is a step of the channel or leaves it alone, and
\* keeps the account of the records.
LEMMA RefinementStep ==
    ASSUME IInv, IInv', Accounting, [Next]_vars
    PROVE  Accounting' /\ ChannelStep
<1>0. /\ pc \in [Threads -> Locations] /\ calls \in [Threads -> 0..MaxCalls]
      /\ pc' \in [Threads -> Locations] /\ calls' \in [Threads -> 0..MaxCalls]
      /\ Given \subseteq Records
      /\ \A r \in Given : r[2] <= calls[r[1]]
      /\ \A t \in Threads : pc[t] \in Logging => <<t, calls[t]>> \notin Given
      /\ \A t \in Threads : pc[t] \in Logging => calls[t] >= 1
  BY DEF IInv, TInv, TypeOK, Accounting, LoggersHaveCounted
<1>1. ASSUME UNCHANGED <<queue, hand, fed>>
      PROVE  ChannelStep /\ Given' = Given
  <2>1. Pending' = Pending
    BY <1>1, SameHands DEF Pending
  <2> QED BY <1>1, <2>1 DEF Given, Pending, ChannelStep, Channel!channel
<1>2. ASSUME Given' = Given, calls' = calls,
             \A u \in Threads : pc'[u] \in Logging => pc[u] \in Logging
      PROVE  Accounting'
  BY <1>0, <1>2 DEF Accounting
<1>3. ASSUME NEW t \in Threads, Enter(t)
      PROVE  Accounting' /\ ChannelStep
  <2>1. /\ calls' = [calls EXCEPT ![t] = @ + 1]
        /\ UNCHANGED <<queue, hand, fed>>
        /\ \A u \in Threads : u # t => pc'[u] = pc[u]
    BY <1>0, <1>3
    DEF Enter, consume, try_consume, run, feed_records, flush_ourselves, flush, stop, Call,
        CallAndReturn, GoTo, queueVars
  <2>2. Given' = Given /\ ChannelStep
    BY <1>1, <2>1
  <2>3. /\ calls'[t] = calls[t] + 1 /\ calls[t] \in Nat
        /\ \A u \in Threads : u # t => calls'[u] = calls[u]
    BY <1>0, <2>1
  <2>4. ASSUME NEW r \in Given
        PROVE  r[2] <= calls'[r[1]]
    <3>1. r[1] \in Threads /\ r[2] \in Nat /\ r[2] <= calls[r[1]]
      BY <1>0 DEF Records
    <3>2. calls[r[1]] \in Nat
      BY <1>0, <3>1
    <3> QED BY <2>3, <3>1, <3>2
  <2>5. <<t, calls'[t]>> \notin Given
    <3> SUFFICES ASSUME <<t, calls'[t]>> \in Given
                 PROVE  FALSE
      OBVIOUS
    <3>1. <<t, calls'[t]>>[2] <= calls[<<t, calls'[t]>>[1]]
      BY <1>0
    <3> QED BY <2>3, <3>1
  <2>6. ASSUME NEW u \in Threads, pc'[u] \in Logging
        PROVE  <<u, calls'[u]>> \notin Given
    BY <1>0, <2>1, <2>3, <2>5, <2>6
  <2> QED BY <1>0, <2>2, <2>4, <2>6 DEF Accounting
<1>4. ASSUME NEW t \in Threads, enqueue(t)
      PROVE  Accounting' /\ ChannelStep
  <2> DEFINE r == <<t, calls[t]>>
  <2>1. /\ pc[t] \in Logging /\ queue' = Append(queue, r) /\ GoTo(t, "idle")
        /\ UNCHANGED <<hand, fed, calls>>
    BY <1>4 DEF enqueue, At, Return, Logging
  <2>2. r \in Records /\ r \notin Given
    BY <1>0, <2>1 DEF Records
  <2>3. Channel!Accept(r) /\ Given' = Given \cup {r}
    BY <2>1, <2>2, EnqueueIsAccept
  <2>4. /\ pc'[t] \notin Logging
        /\ \A u \in Threads : u # t => pc'[u] = pc[u]
    BY <1>0, <2>1, GoToLocations DEF Locations, Logging
  <2>5. \A u \in Threads : pc'[u] \in Logging => <<u, calls[u]>> \notin Given'
    BY <1>0, <2>3, <2>4
  <2>6. \A s \in Given' : s[2] <= calls[s[1]]
    BY <1>0, <2>3
  <2> QED BY <2>1, <2>2, <2>3, <2>5, <2>6, <1>0 DEF Accounting, ChannelStep, Channel!Next
<1>5. ASSUME NEW t \in Threads, Dequeue(t), pc[t] \in Feeding, pc[t] # "feed",
             UNCHANGED <<feedingThread, fed, calls>>
      PROVE  Accounting' /\ ChannelStep
  <2>1. Pending' = Pending
    BY <1>5, DequeueKeepsPending
  <2>2. \A u \in Threads : pc'[u] \in Logging => pc[u] \in Logging
    BY <1>0, <1>5, GoToLocations DEF Dequeue, Locations, Feeding, Logging
  <2>3. Given' = Given /\ ChannelStep
    BY <1>5, <2>1 DEF Given, Pending, ChannelStep, Channel!channel
  <2> QED BY <1>2, <1>5, <2>2, <2>3
<1>6. ASSUME NEW t \in Threads, FeedRecord(t)
      PROVE  Accounting' /\ ChannelStep
  <2>1. Channel!Deliver /\ Given' = Given
    BY <1>6, FeedIsDeliver
  <2>2. calls' = calls /\ \A u \in Threads : pc'[u] \in Logging => pc[u] \in Logging
    BY <1>0, <1>6 DEF FeedRecord, GoTo, Logging
  <2> QED BY <1>2, <2>1, <2>2 DEF ChannelStep, Channel!Next
<1>7. ASSUME UNCHANGED <<queue, hand, fed, calls>>,
             \A u \in Threads : pc'[u] \in Logging => pc[u] \in Logging
      PROVE  Accounting' /\ ChannelStep
  BY <1>1, <1>2, <1>7
<1>8. ASSUME NEW t \in Threads, Step(t), ~enqueue(t), ~FeedRecord(t)
      PROVE  Accounting' /\ ChannelStep
  <2> USE DEF At, queueVars
  <2>1. CASE LoopDequeue(t) \/ DequeueReady(t)
    <3>1. /\ pc[t] \in Feeding /\ pc[t] # "feed"
          /\ UNCHANGED <<feedingThread, fed, calls>>
          /\ Dequeue(t) \/ UNCHANGED <<queue, hand>>
      BY <2>1 DEF LoopDequeue, DequeueReady, Feeding, flagVars
    <3>2. CASE UNCHANGED <<queue, hand>>
      <4>1. \A u \in Threads : pc'[u] \in Logging => pc[u] \in Logging
        BY <1>0, <2>1 DEF LoopDequeue, DequeueReady, Dequeue, GoTo, Logging
      <4> QED BY <1>7, <3>1, <3>2, <4>1
    <3> QED BY <1>5, <3>1, <3>2
  <2>2. CASE AwaitFlush(t)
    BY <1>0, <1>7, <2>2 DEF AwaitFlush, GoTo, Logging
  <2>3. CASE DedicatedRun(t) \/ FlushResume(t) \/ StopResume(t) \/ Join(t)
    <3>1. \A u \in Threads : pc'[u] \in Logging => pc[u] \in Logging
      BY <1>0, <2>3 DEF DedicatedRun, FlushResume, StopResume, Join, Return, GoTo, Logging
    <3> QED BY <1>7, <2>3, <3>1 DEF DedicatedRun, FlushResume, StopResume, Join
  <2>4. CASE LoopCheck(t) \/ FlushCheck(t) \/ RunCheck(t)
    <3>1. \A u \in Threads : pc'[u] \in Logging => pc[u] \in Logging
      BY <1>0, <2>4 DEF LoopCheck, FlushCheck, RunCheck, AfterFeeding, GoTo, Logging
    <3> QED BY <1>7, <2>4, <3>1 DEF LoopCheck, FlushCheck, RunCheck
  <2>5. CASE FlushBackend(t) \/ ReleaseFeeding(t)
    <3>1. PICK location \in {"runCheck", "release", "unwind", "dead", "idle"} :
             NotifyAllAndGoTo(t, location)
      BY <2>5 DEF FlushBackend, ReleaseFeeding, AfterFeeding
    <3>2. location \in Locations \ Blocking /\ location \notin Logging
      BY <3>1 DEF Locations, Blocking, Feeding, Logging
    <3>3. \A u \in Threads : pc'[u] \in Logging => pc[u] \in Logging
      BY <1>0, <3>1, <3>2, NotifyLocations
    <3> QED BY <1>7, <2>5, <3>3 DEF FlushBackend, ReleaseFeeding
  <2> QED BY <1>8, <2>1, <2>2, <2>3, <2>4, <2>5 DEF Step
<1>9. ASSUME NEW t \in Threads, SpuriousWakeup(t)
      PROVE  Accounting' /\ ChannelStep
  <2>1. \A u \in Threads : pc'[u] \in Logging => pc[u] \in Logging
    BY <1>0, <1>9, WokenLocations DEF SpuriousWakeup, GoTo
  <2> QED BY <1>7, <1>9, <2>1 DEF SpuriousWakeup, queueVars
<1>10. CASE UNCHANGED vars
  BY <1>7, <1>10 DEF vars
<1> QED BY <1>3, <1>4, <1>6, <1>8, <1>9, <1>10 DEF Next

\* With any mixture of run, feed_records, flush and stop, and a backend that
\* throws, the records reach the backend first in first out and each once.
THEOREM SinkImplementsChannel == Spec => ImplementsChannel
<1>1. Init => Accounting /\ Channel!Init
  <2> SUFFICES ASSUME Init
               PROVE  Accounting /\ Channel!Init
    OBVIOUS
  <2>1. InHand = <<>> /\ queue = <<>> /\ fed = <<>>
    BY DEF Init, InHand
  <2>2. Pending = <<>>
    BY <2>1 DEF Pending
  <2> QED BY <2>1, <2>2 DEF Accounting, Given, Pending, Range, Channel!Init
<1>2. IInv /\ IInv' /\ Accounting /\ [Next]_vars => Accounting' /\ ChannelStep
  BY RefinementStep
<1>3. Spec => Channel!Init /\ [][Channel!Next]_(Channel!channel)
  BY <1>1, <1>2, IInvInit, IInvStep, PTL DEF Spec, ChannelStep
<1> QED BY <1>3 DEF ImplementsChannel, Channel!Spec
===============================================================================
