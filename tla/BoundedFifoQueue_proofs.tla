------------------------ MODULE BoundedFifoQueue_proofs -----------------------
(***************************************************************************)
(* Theorems of BoundedFifoQueue for every set of producers, every limit,   *)
(* both overflow strategies and every number of records and interruptions. *)
(***************************************************************************)
EXTENDS BoundedFifoQueue, SequenceLemmas, TLAPS

-------------------------------------------------------------------------------
(***************************************************************************)
(* Type correctness.  It needs to know that a blocked producer has already *)
(* counted the record it carries, and only block_on_overflow blocks one.   *)
(***************************************************************************)
BlockedCarryRecords ==
    \A p \in Producers : Blocked(p) => sent[p] >= 1 /\ Strategy = "block"

TInv == TypeOK /\ BlockedCarryRecords

USE MaxQueueSizeAssumption, StrategyAssumption, BoundsAssumption

\* The constructor of the queue establishes the type invariant.
LEMMA TInvInit == Init => TInv
<1> SUFFICES ASSUME Init
             PROVE  TInv
  OBVIOUS
<1>1. <<>> \in Seq(Records) /\ <<>> \in Seq(Producers)
  BY EmptySeq
<1>2. result \in [Producers -> BOOLEAN]
  BY Zenon DEF Init
<1>3. 0 \in 0..NumRecords /\ 0 \in 0..MaxInterrupts
  OBVIOUS
<1> QED BY <1>1, <1>2, <1>3 DEF Init, TInv, TypeOK, BlockedCarryRecords, Blocked

\* One turn of the loop in enqueue keeps the types, for any record it carries.
LEMMA EnqueueLoopTypes ==
    ASSUME TypeOK, NEW p \in Producers, NEW r \in Records, EnqueueLoop(p, r)
    PROVE  /\ queue' \in Seq(Records)
           /\ contexts' \in Seq(Producers)
           /\ result' \in [Producers -> BOOLEAN]
           /\ pc' \in [Producers -> {"idle", "blocked"}]
           /\ \A q \in Producers : q # p => pc'[q] = pc[q]
           /\ pc'[p] = "blocked" => pc[p] = "blocked" \/ Strategy = "block"
           /\ feeder' \in {"idle", "waiting", "woken"}
           /\ discarded' \in SUBSET Records
<1>1. CASE Push(r) /\ pc' = [pc EXCEPT ![p] = "idle"]
                   /\ UNCHANGED <<contexts, result, discarded>>
  BY <1>1 DEF TypeOK, Push, NotifyFeeder
<1>2. CASE BlockOnOverflow(p)
  BY <1>2 DEF TypeOK, BlockOnOverflow
<1>3. CASE DropOnOverflow(p, r)
  BY <1>3 DEF TypeOK, DropOnOverflow
<1> QED BY <1>1, <1>2, <1>3 DEF EnqueueLoop

\* Popping keeps the types.
LEMMA PopTypes ==
    ASSUME TypeOK, Pop
    PROVE  /\ queue' \in Seq(Records)
           /\ fed' \in Seq(Records)
           /\ contexts' \in Seq(Producers)
<1>1. Head(queue) \in Records /\ Tail(queue) \in Seq(Records)
  BY HeadTailProperties DEF TypeOK, Pop
<1>2. contexts # <<>> => Tail(contexts) \in Seq(Producers)
  BY HeadTailProperties DEF TypeOK
<1>3. Append(fed, Head(queue)) \in Seq(Records)
  BY <1>1 DEF TypeOK
<1>4. contexts' \in Seq(Producers)
  BY <1>2 DEF TypeOK, Pop, OnQueueSpaceAvailable
<1> QED BY <1>1, <1>3, <1>4 DEF Pop

\* Every operation of the queue keeps the types.
LEMMA TInvStep == TInv /\ [Next]_vars => TInv'
<1> SUFFICES ASSUME TInv, [Next]_vars
             PROVE  TInv'
  OBVIOUS
<1>1. ASSUME NEW p \in Producers, enqueue(p)
      PROVE  TInv'
  <2> USE DEF TInv
  <2>1. NextRecord(p) \in Records
    BY <1>1 DEF enqueue, NextRecord, Records, TypeOK
  <2>2. EnqueueLoop(p, NextRecord(p))
    BY <1>1 DEF enqueue
  <2>3. sent' \in [Producers -> 0..NumRecords] /\ sent'[p] >= 1
        /\ \A q \in Producers : q # p => sent'[q] = sent[q]
    BY <1>1 DEF enqueue, TypeOK
  <2> QED BY <1>1, <2>1, <2>2, <2>3, EnqueueLoopTypes
          DEF enqueue, TypeOK, BlockedCarryRecords, Blocked
<1>2. ASSUME NEW p \in Producers, on_overflow_return(p)
      PROVE  TInv'
  <2> USE DEF TInv
  <2>1. Carried(p) \in Records
    BY <1>2 DEF on_overflow_return, Carried, Records, TypeOK, BlockedCarryRecords
  <2>2. CASE EnqueueLoop(p, Carried(p))
    BY <1>2, <2>1, <2>2, EnqueueLoopTypes
    DEF on_overflow_return, TypeOK, BlockedCarryRecords, Blocked
  <2>3. CASE ~EnqueueLoop(p, Carried(p))
    BY <1>2, <2>1, <2>3
    DEF on_overflow_return, TypeOK, BlockedCarryRecords, Blocked
  <2> QED BY <2>2, <2>3
<1>3. ASSUME NEW p \in Producers, try_enqueue(p)
      PROVE  TInv'
  <2> USE DEF TInv
  <2>1. NextRecord(p) \in Records
    BY <1>3 DEF try_enqueue, NextRecord, Records, TypeOK
  <2> QED BY <1>3, <2>1
          DEF try_enqueue, Push, NotifyFeeder, TypeOK, BlockedCarryRecords, Blocked
<1>4. CASE try_dequeue
  BY <1>4, PopTypes DEF try_dequeue, TInv, TypeOK, BlockedCarryRecords, Blocked
<1>5. CASE dequeue_ready
  <2>1. CASE Pop
    BY <1>5, <2>1, PopTypes DEF dequeue_ready, TInv, TypeOK, BlockedCarryRecords, Blocked
  <2>2. CASE ~Pop
    BY <1>5, <2>2 DEF dequeue_ready, TInv, TypeOK, BlockedCarryRecords, Blocked
  <2> QED BY <2>1, <2>2
<1>6. CASE SpuriousWakeup
  BY <1>6 DEF SpuriousWakeup, TInv, TypeOK, BlockedCarryRecords, Blocked
<1>7. CASE interrupt_dequeue
  <2>1. result' \in [Producers -> BOOLEAN]
    BY <1>7, Zenon DEF interrupt_dequeue, TInv, TypeOK
  <2>2. contexts' \in Seq(Producers) /\ interrupted' \in BOOLEAN
    BY <1>7, EmptySeq DEF interrupt_dequeue
  <2>3. interrupts' \in 0..MaxInterrupts
    BY <1>7 DEF interrupt_dequeue, TInv, TypeOK
  <2> QED BY <1>7, <2>1, <2>2, <2>3
          DEF interrupt_dequeue, TInv, NotifyFeeder, TypeOK, BlockedCarryRecords, Blocked
<1>8. CASE UNCHANGED vars
  BY <1>8 DEF vars, TInv, TypeOK, BlockedCarryRecords, Blocked
<1> QED BY <1>1, <1>2, <1>3, <1>4, <1>5, <1>6, <1>7, <1>8 DEF Next

\* The queue, its flags and the threads waiting on it always have their types.
THEOREM TypeCorrect == Spec => []TypeOK
<1>1. Spec => []TInv
  BY TInvInit, TInvStep, PTL DEF Spec
<1> QED BY <1>1, PTL DEF TInv

-------------------------------------------------------------------------------
(***************************************************************************)
(* The feeding thread and the limit of the queue.                          *)
(***************************************************************************)

\* Pushing to an empty queue wakes the feeding thread, popping or an
\* interruption never puts it to sleep, and no push passes the limit.
LEMMA FeederStep ==
    ASSUME TInv, NeverSleepsOnRecords, Bounded, [Next]_vars
    PROVE  NeverSleepsOnRecords' /\ Bounded'
<1> USE DEF NeverSleepsOnRecords, Bounded, NotifyFeeder
<1> DEFINE Goal == NeverSleepsOnRecords /\ Bounded
<1>0. Len(queue) \in Nat
  BY DEF TInv, TypeOK
<1>1. ASSUME NEW r, Push(r)
      PROVE  /\ feeder' = "waiting" => queue' = <<>> /\ ~interrupted
             /\ Len(queue') <= MaxQueueSize
  <2>1. Len(Append(queue, r)) = Len(queue) + 1
    OBVIOUS
  <2> QED BY <1>0, <1>1, <2>1 DEF Push, TInv, TypeOK
<1>2. ASSUME Pop
      PROVE  Len(queue') <= MaxQueueSize
  <2>1. Len(queue') = Len(queue) - 1
    BY <1>2, HeadTailProperties DEF Pop, TInv, TypeOK
  <2> QED BY <1>0, <2>1
<1>3. ASSUME NEW p \in Producers, NEW r, EnqueueLoop(p, r), interrupted' = interrupted
      PROVE  Goal'
  BY <1>1, <1>3 DEF EnqueueLoop, BlockOnOverflow, DropOnOverflow
<1>4. ASSUME NEW p \in Producers, enqueue(p) \/ on_overflow_return(p) \/ try_enqueue(p)
      PROVE  Goal'
  BY <1>1, <1>3, <1>4 DEF enqueue, on_overflow_return, try_enqueue
<1>5. CASE try_dequeue
  BY <1>2, <1>5 DEF try_dequeue
<1>6. CASE dequeue_ready
  BY <1>2, <1>6 DEF dequeue_ready
<1>7. CASE SpuriousWakeup \/ interrupt_dequeue
  BY <1>7 DEF SpuriousWakeup, interrupt_dequeue
<1>8. CASE UNCHANGED vars
  BY <1>8 DEF vars
<1> QED BY <1>4, <1>5, <1>6, <1>7, <1>8 DEF Next

\* The feeding thread never sleeps next to a record or an interruption, for
\* any number of producers, any limit and both overflow strategies.
THEOREM FeederNeverSleepsOnRecords == Spec => []NeverSleepsOnRecords
<1>1. Init => NeverSleepsOnRecords /\ Bounded
  BY EmptySeq DEF Init, NeverSleepsOnRecords, Bounded
<1>2. TInv /\ NeverSleepsOnRecords /\ Bounded /\ [Next]_vars
      => NeverSleepsOnRecords' /\ Bounded'
  BY FeederStep
<1> QED BY <1>1, <1>2, TInvInit, TInvStep, PTL DEF Spec

\* The queue stays within MaxQueueSizeV.
THEOREM QueueIsBounded == Spec => []Bounded
<1>1. Init => NeverSleepsOnRecords /\ Bounded
  BY EmptySeq DEF Init, NeverSleepsOnRecords, Bounded
<1>2. TInv /\ NeverSleepsOnRecords /\ Bounded /\ [Next]_vars
      => NeverSleepsOnRecords' /\ Bounded'
  BY FeederStep
<1> QED BY <1>1, <1>2, TInvInit, TInvStep, PTL DEF Spec

-------------------------------------------------------------------------------
(***************************************************************************)
(* The list of blocked threads.                                            *)
(***************************************************************************)

\* Linking a thread that is not linked, and unlinking the first one, leave a
\* list without duplicates whose members are all inside on_overflow.
LEMMA ContextsStep ==
    ASSUME TInv, LinkedContextsAreLive, [Next]_vars
    PROVE  LinkedContextsAreLive'
<1> USE DEF LinkedContextsAreLive, Blocked
<1>0. /\ contexts \in Seq(Producers)
      /\ pc \in [Producers -> {"idle", "blocked"}]
      /\ DOMAIN contexts = 1..Len(contexts)
      /\ Len(contexts) \in Nat
  BY DEF TInv, TypeOK
<1>1. ASSUME NEW p \in Producers, ~Linked(p), pc' = [pc EXCEPT ![p] = "blocked"],
             contexts' = Append(contexts, p)
      PROVE  LinkedContextsAreLive'
  <2>1. /\ DOMAIN contexts' = 1..(Len(contexts) + 1)
        /\ contexts'[Len(contexts) + 1] = p
        /\ \A i \in 1..Len(contexts) : contexts'[i] = contexts[i]
    BY <1>0, <1>1
  <2>2. \A i \in 1..Len(contexts) : contexts[i] # p
    BY <1>0, <1>1 DEF Linked, Range
  <2>3. \A i \in 1..(Len(contexts) + 1) : pc'[contexts'[i]] = "blocked"
    BY <1>0, <1>1, <2>1
  <2>4. \A i, j \in 1..(Len(contexts) + 1) : contexts'[i] = contexts'[j] => i = j
    BY <1>0, <2>1, <2>2
  <2> QED BY <2>1, <2>3, <2>4
<1>2. ASSUME NEW p \in Producers, ~Linked(p), pc' = [pc EXCEPT ![p] = "idle"],
             contexts' = contexts
      PROVE  LinkedContextsAreLive'
  BY <1>0, <1>2 DEF Linked, Range
<1>3. ASSUME OnQueueSpaceAvailable \/ UNCHANGED contexts, pc' = pc
      PROVE  LinkedContextsAreLive'
  <2>1. CASE contexts # <<>> /\ contexts' = Tail(contexts)
    <3>1. /\ DOMAIN contexts' = 1..(Len(contexts) - 1)
          /\ \A i \in 1..(Len(contexts) - 1) : contexts'[i] = contexts[i + 1]
          /\ \A i \in 1..(Len(contexts) - 1) : i + 1 \in 1..Len(contexts)
      BY <1>0, <2>1, HeadTailProperties
    <3>2. \A i \in 1..(Len(contexts) - 1) : pc'[contexts'[i]] = "blocked"
      BY <1>0, <1>3, <3>1
    <3>3. ASSUME NEW i \in 1..(Len(contexts) - 1), NEW j \in 1..(Len(contexts) - 1),
                 contexts'[i] = contexts'[j]
          PROVE  i = j
      <4>1. contexts[i + 1] = contexts[j + 1]
        BY <3>1, <3>3
      <4>2. i + 1 = j + 1
        BY <1>0, <3>1, <4>1
      <4> QED BY <1>0, <4>2
    <3> QED BY <3>1, <3>2, <3>3
  <2>2. CASE contexts' = contexts
    BY <1>3, <2>2
  <2> QED BY <1>3, <2>1, <2>2 DEF OnQueueSpaceAvailable
<1>4. ASSUME NEW p \in Producers, NEW r, ~Linked(p), EnqueueLoop(p, r)
      PROVE  LinkedContextsAreLive'
  <2>1. CASE BlockOnOverflow(p)
    BY <1>1, <1>4, <2>1 DEF BlockOnOverflow
  <2>2. CASE DropOnOverflow(p, r)
    BY <2>2 DEF DropOnOverflow
  <2> QED BY <1>2, <1>4, <2>1, <2>2 DEF EnqueueLoop
<1>5. \A p \in Producers : ~Blocked(p) => ~Linked(p)
  BY <1>0 DEF Linked, Range
<1>6. ASSUME NEW p \in Producers, enqueue(p) \/ on_overflow_return(p)
      PROVE  LinkedContextsAreLive'
  BY <1>2, <1>4, <1>5, <1>6 DEF enqueue, on_overflow_return
<1>7. ASSUME NEW p \in Producers, try_enqueue(p)
      PROVE  LinkedContextsAreLive'
  BY <1>7 DEF try_enqueue
<1>8. CASE try_dequeue \/ dequeue_ready
  BY <1>3, <1>8 DEF try_dequeue, dequeue_ready, Pop
<1>9. CASE SpuriousWakeup \/ UNCHANGED vars
  BY <1>9 DEF SpuriousWakeup, vars
<1>10. CASE interrupt_dequeue
  BY <1>10, EmptySeq DEF interrupt_dequeue
<1> QED BY <1>6, <1>7, <1>8, <1>9, <1>10 DEF Next

\* No context outlives the call of on_overflow it lives in.
THEOREM ContextsNeverDangle == Spec => []LinkedContextsAreLive
<1>1. Init => LinkedContextsAreLive
  BY EmptySeq DEF Init, LinkedContextsAreLive
<1>2. TInv /\ LinkedContextsAreLive /\ [Next]_vars => LinkedContextsAreLive'
  BY ContextsStep
<1> QED BY <1>1, <1>2, TInvInit, TInvStep, PTL DEF Spec

-------------------------------------------------------------------------------
(***************************************************************************)
(* The queue implements the record channel.  The invariant behind it: a    *)
(* record is queued, fed or discarded only after its producer counted it,  *)
(* and the one a blocked producer carries is still in none of the three.   *)
(***************************************************************************)
Accounted(given) ==
    /\ \A r \in given : r[2] <= sent[r[1]]
    /\ \A p \in Producers : Blocked(p) => Carried(p) \notin given

Accounting == Accounted(Range(queue) \cup Range(fed) \cup discarded)

ChannelStep == [Channel!Next]_(Channel!channel)

\* The members of the three places stay records.
LEMMA GivenAreRecords ==
    ASSUME TInv
    PROVE  Range(queue) \cup Range(fed) \cup discarded \subseteq Records
BY DEF TInv, TypeOK, Range

\* A push of a record that is in none of the three places is an Accept, and
\* adds that record to them.
LEMMA PushIsAccept ==
    ASSUME TInv, NEW r \in Records, Push(r), UNCHANGED <<fed, discarded>>,
           r \notin Range(queue) \cup Range(fed) \cup discarded
    PROVE  /\ Channel!Accept(r)
           /\ (Range(queue) \cup Range(fed) \cup discarded)'
              = (Range(queue) \cup Range(fed) \cup discarded) \cup {r}
<1>1. queue \in Seq(Records) /\ queue' = Append(queue, r)
  BY DEF TInv, TypeOK, Push
<1>2. Range(queue') = Range(queue) \cup {r}
  BY <1>1, RangeOfAppend
<1> QED BY <1>1, <1>2 DEF Channel!Accept, Channel!Seen, Channel!Range, Range

\* A pop is a Deliver, and leaves the union of the three places as it was.
LEMMA PopIsDeliver ==
    ASSUME TInv, Pop, UNCHANGED discarded
    PROVE  /\ Channel!Deliver
           /\ (Range(queue) \cup Range(fed) \cup discarded)'
              = Range(queue) \cup Range(fed) \cup discarded
<1>1. /\ queue \in Seq(Records) /\ fed \in Seq(Records) /\ queue # <<>>
      /\ queue' = Tail(queue) /\ fed' = Append(fed, Head(queue))
      /\ Head(queue) \in Records
  BY HeadTailProperties DEF TInv, TypeOK, Pop
<1>2. Range(queue) = Range(queue') \cup {Head(queue)}
  BY <1>1, RangeOfTail
<1>3. Range(fed') = Range(fed) \cup {Head(queue)}
  BY <1>1, RangeOfAppend
<1> QED BY <1>1, <1>2, <1>3 DEF Channel!Deliver

\* One turn of the enqueue loop with a fresh record accepts it, gives it up,
\* or leaves the channel alone with the producer blocked.
LEMMA EnqueueLoopRefines ==
    ASSUME TInv, NEW p \in Producers, NEW r \in Records, EnqueueLoop(p, r),
           UNCHANGED fed,
           r \notin Range(queue) \cup Range(fed) \cup discarded
    PROVE  /\ ChannelStep
           /\ \/ /\ (Range(queue) \cup Range(fed) \cup discarded)'
                    = (Range(queue) \cup Range(fed) \cup discarded) \cup {r}
                 /\ pc'[p] = "idle"
              \/ /\ UNCHANGED <<queue, fed, discarded>>
                 /\ pc'[p] = "blocked"
           /\ \A q \in Producers : q # p => pc'[q] = pc[q]
<1>0. pc \in [Producers -> {"idle", "blocked"}]
  BY DEF TInv, TypeOK
<1>1. CASE Push(r) /\ pc' = [pc EXCEPT ![p] = "idle"]
                   /\ UNCHANGED <<contexts, result, discarded>>
  BY <1>0, <1>1, PushIsAccept DEF ChannelStep, Channel!Next
<1>2. CASE BlockOnOverflow(p)
  BY <1>0, <1>2 DEF BlockOnOverflow, ChannelStep, Channel!channel
<1>3. CASE DropOnOverflow(p, r)
  <2>1. Channel!GiveUp(r)
    BY <1>3 DEF DropOnOverflow, Channel!GiveUp, Channel!Seen, Channel!Range, Range
  <2>2. pc[p] = "idle"
    BY <1>0, <1>3 DEF DropOnOverflow, TInv, BlockedCarryRecords, Blocked
  <2> QED BY <1>3, <2>1, <2>2 DEF DropOnOverflow, ChannelStep, Channel!Next
<1> QED BY <1>1, <1>2, <1>3 DEF EnqueueLoop

\* Counting a record, passing it to the queue or blocking with it keeps the
\* account: the record is fresh before, and in at most one place after.
LEMMA RefinementStep ==
    ASSUME TInv, Accounting, [Next]_vars
    PROVE  Accounting' /\ ChannelStep
<1> DEFINE Given == Range(queue) \cup Range(fed) \cup discarded
<1>0. /\ Given \subseteq Records
      /\ \A r \in Given : r[2] <= sent[r[1]]
      /\ \A p \in Producers : Blocked(p) => Carried(p) \notin Given
      /\ pc \in [Producers -> {"idle", "blocked"}]
      /\ sent \in [Producers -> 0..NumRecords]
  BY GivenAreRecords DEF Accounting, Accounted, TInv, TypeOK
<1>1. \A p \in Producers : NextRecord(p) \notin Given
  <2> SUFFICES ASSUME NEW p \in Producers, <<p, sent[p] + 1>> \in Given
               PROVE  FALSE
    BY DEF NextRecord
  <2>1. <<p, sent[p] + 1>>[2] <= sent[<<p, sent[p] + 1>>[1]]
    BY <1>0
  <2>2. sent[p] \in Nat
    BY <1>0
  <2> QED BY <2>1, <2>2
<1>2. ASSUME NEW p \in Producers, enqueue(p) \/ try_enqueue(p)
      PROVE  Accounting' /\ ChannelStep
  <2>1. /\ NextRecord(p) \in Records
        /\ sent' = [sent EXCEPT ![p] = @ + 1]
        /\ fed' = fed
    BY <1>0, <1>2 DEF enqueue, try_enqueue, NextRecord, Records
  <2>2. /\ ChannelStep
        /\ \/ Given' = Given \cup {NextRecord(p)} /\ pc'[p] = "idle"
           \/ Given' = Given /\ pc'[p] = "blocked"
        /\ \A q \in Producers : q # p => pc'[q] = pc[q]
    <3>1. CASE enqueue(p)
      BY <1>1, <2>1, <3>1, EnqueueLoopRefines DEF enqueue
    <3>2. CASE try_enqueue(p)
      <4>1. pc'[p] = "idle" /\ pc' = pc
        BY <1>0, <3>2 DEF try_enqueue, Blocked
      <4> QED BY <1>1, <2>1, <3>2, <4>1, PushIsAccept
              DEF try_enqueue, ChannelStep, Channel!Next
    <3> QED BY <1>2, <3>1, <3>2
  <2>3. ASSUME NEW r \in Given'
        PROVE  r[2] <= sent'[r[1]]
    <3>1. CASE r \in Given
      <4>1. r \in Records /\ r[2] <= sent[r[1]]
        BY <1>0, <3>1
      <4>2. r[1] \in Producers /\ r[2] \in Nat
        BY <4>1 DEF Records
      <4> QED BY <1>0, <2>1, <4>1, <4>2
    <3>2. CASE r = NextRecord(p)
      BY <1>0, <2>1, <3>2 DEF NextRecord
    <3> QED BY <2>2, <2>3, <3>1, <3>2
  <2>4. ASSUME NEW q \in Producers, Blocked(q)'
        PROVE  Carried(q)' \notin Given'
    <3>1. CASE q = p
      BY <1>0, <1>1, <2>1, <2>2, <2>4, <3>1 DEF Blocked, Carried, NextRecord
    <3>2. CASE q # p
      <4>1. Carried(q)' = Carried(q) /\ Blocked(q) /\ Carried(q) # NextRecord(p)
        BY <1>0, <2>1, <2>2, <2>4, <3>2 DEF Blocked, Carried, NextRecord
      <4> QED BY <1>0, <2>2, <4>1
    <3> QED BY <3>1, <3>2
  <2> QED BY <2>2, <2>3, <2>4 DEF Accounting, Accounted
<1>3. ASSUME NEW p \in Producers, on_overflow_return(p)
      PROVE  Accounting' /\ ChannelStep
  <2>1. Carried(p) \in Records /\ Carried(p) \notin Given /\ sent' = sent /\ fed' = fed
    BY <1>0, <1>3
    DEF on_overflow_return, Carried, Records, TInv, BlockedCarryRecords
  <2>2. /\ ChannelStep
        /\ \/ Given' = Given \cup {Carried(p)} /\ pc'[p] = "idle"
           \/ Given' = Given
        /\ \A q \in Producers : q # p => pc'[q] = pc[q]
    <3>1. CASE EnqueueLoop(p, Carried(p))
      BY <2>1, <3>1, EnqueueLoopRefines
    <3>2. CASE /\ discarded' = discarded \cup {Carried(p)}
               /\ pc' = [pc EXCEPT ![p] = "idle"]
               /\ UNCHANGED <<queue, contexts, result, feeder>>
      <4>1. Channel!GiveUp(Carried(p))
        BY <2>1, <3>2 DEF Channel!GiveUp, Channel!Seen, Channel!Range, Range
      <4> QED BY <1>0, <2>1, <3>2, <4>1 DEF ChannelStep, Channel!Next
    <3> QED BY <1>3, <3>1, <3>2 DEF on_overflow_return
  <2>3. \A r \in Given' : r[2] <= sent'[r[1]]
    <3>1. Carried(p)[2] <= sent[Carried(p)[1]]
      BY <1>0 DEF Carried
    <3> QED BY <1>0, <2>1, <2>2, <3>1
  <2>4. ASSUME NEW q \in Producers, Blocked(q)'
        PROVE  Carried(q)' \notin Given'
    <3>1. CASE q = p
      BY <2>1, <2>2, <2>4, <3>1 DEF Blocked, Carried
    <3>2. CASE q # p
      <4>1. Carried(q)' = Carried(q) /\ Blocked(q) /\ Carried(q) # Carried(p)
        BY <2>1, <2>2, <2>4, <3>2 DEF Blocked, Carried
      <4> QED BY <1>0, <2>2, <4>1
    <3> QED BY <3>1, <3>2
  <2> QED BY <2>2, <2>3, <2>4 DEF Accounting, Accounted
<1>4. ASSUME Pop, UNCHANGED <<pc, sent, discarded>>
      PROVE  Accounting' /\ ChannelStep
  <2>1. Given' = Given /\ ChannelStep
    BY <1>4, PopIsDeliver DEF ChannelStep, Channel!Next
  <2> QED BY <1>0, <1>4, <2>1 DEF Accounting, Accounted, Blocked, Carried
<1>5. ASSUME UNCHANGED <<queue, fed, discarded, pc, sent>>
      PROVE  Accounting' /\ ChannelStep
  BY <1>0, <1>5 DEF Accounting, Accounted, Blocked, Carried, ChannelStep, Channel!channel
<1>6. CASE try_dequeue
  BY <1>4, <1>6 DEF try_dequeue
<1>7. CASE dequeue_ready
  BY <1>4, <1>5, <1>7 DEF dequeue_ready
<1>8. CASE SpuriousWakeup
  BY <1>5, <1>8 DEF SpuriousWakeup
<1>9. CASE interrupt_dequeue
  BY <1>5, <1>9 DEF interrupt_dequeue
<1>10. CASE UNCHANGED vars
  BY <1>5, <1>10 DEF vars
<1> QED BY <1>2, <1>3, <1>6, <1>7, <1>8, <1>9, <1>10 DEF Next

\* Whatever the strategy, the limit and the interruptions, the queue is a
\* record channel: first in first out, and every record at most once.
THEOREM QueueImplementsChannel == Spec => ImplementsChannel
<1>1. Init => Accounting /\ Channel!Init
  BY DEF Init, Accounting, Accounted, Blocked, Range, Channel!Init
<1>2. TInv /\ Accounting /\ [Next]_vars => Accounting' /\ ChannelStep
  BY RefinementStep
<1>3. Spec => Channel!Init /\ [][Channel!Next]_(Channel!channel)
  BY <1>1, <1>2, TInvInit, TInvStep, PTL DEF Spec, ChannelStep
<1> QED BY <1>3 DEF ImplementsChannel, Channel!Spec

-------------------------------------------------------------------------------
(***************************************************************************)
(* block_on_overflow without interruptions.                                *)
(***************************************************************************)

\* As long as nobody interrupts, a blocked thread always comes back with TRUE.
Patient == interrupts = 0 => \A p \in Producers : result[p]

\* Blocking producers lose nothing while nobody calls interrupt_dequeue.
THEOREM BlockingLosesNothing == Spec => []BlockingIsLossless
<1> DEFINE Inv == Patient /\ BlockingIsLossless
<1>1. Init => Inv
  BY DEF Init, Patient, BlockingIsLossless
<1>2. TInv /\ Inv /\ [Next]_vars => Inv'
  <2> SUFFICES ASSUME TInv, Inv, [Next]_vars
               PROVE  Inv'
    OBVIOUS
  <2> USE DEF Patient, BlockingIsLossless
  <2>0. interrupts \in Nat /\ result \in [Producers -> BOOLEAN]
    BY DEF TInv, TypeOK
  <2>1. ASSUME NEW p \in Producers, NEW r, EnqueueLoop(p, r), UNCHANGED interrupts
        PROVE  Inv'
    BY <2>0, <2>1, Zenon DEF EnqueueLoop, BlockOnOverflow, DropOnOverflow
  <2>2. ASSUME NEW p \in Producers, enqueue(p) \/ on_overflow_return(p) \/ try_enqueue(p)
        PROVE  Inv'
    BY <2>1, <2>2 DEF enqueue, on_overflow_return, try_enqueue
  <2>3. CASE try_dequeue \/ dequeue_ready \/ SpuriousWakeup \/ UNCHANGED vars
    BY <2>3 DEF try_dequeue, dequeue_ready, SpuriousWakeup, vars
  <2>4. CASE interrupt_dequeue
    BY <2>0, <2>4 DEF interrupt_dequeue
  <2> QED BY <2>2, <2>3, <2>4 DEF Next
<1> QED BY <1>1, <1>2, TInvInit, TInvStep, PTL DEF Spec
===============================================================================
