----------------------- MODULE UnboundedFifoQueue_proofs -----------------------
(***************************************************************************)
(* Theorems of UnboundedFifoQueue for any logging and interrupting threads *)
(* and any number of records and interruptions, over both implementations  *)
(* of the queue below and with the stores of the feeding thread delayed.   *)
(***************************************************************************)
EXTENDS UnboundedFifoQueue, SequenceLemmas, TLAPS

\* The stores of the feeding thread that can be in its buffer together.
Buffers == {<<>>, <<"state">>, <<"interruption">>, <<"state", "interruption">>}

\* When a look at the queue cannot overtake a store that precedes it.
Ordered == implementation = "generic"

\* The buffer is empty after sem_wait, and holds at most the reset of the
\* event until the interruption flag is cleared.
Delayed ==
    /\ pending \in Buffers
    /\ feeder = "reset" => pending = <<>>
    /\ feeder \in {"check", "clear", "pop"} => pending \in {<<>>, <<"state">>}
    /\ Ordered /\ feeder = "wait" => pending = <<>>

TInv == TypeOK /\ Delayed

-------------------------------------------------------------------------------
(***************************************************************************)
(* The event.  A signalled event is one token that travels from the thread *)
(* that set it through the semaphore to the feeding thread, and from there *)
(* through the store buffer back to memory.                                *)
(***************************************************************************)
Posting == {t \in Threads : pc[t] = "post"}

ResetPending == pending \in {<<"state">>, <<"state", "interruption">>}

OneToken ==
    /\ semaphore \in {0, 1}
    /\ \A t, u \in Posting : t = u
    /\ Posting # {} => semaphore = 0 /\ feeder # "reset" /\ ~ResetPending
    /\ semaphore = 1 => feeder # "reset" /\ ~ResetPending
    /\ state <=> semaphore = 1 \/ Posting # {} \/ feeder = "reset" \/ ResetPending

\* Is there a wakeup on its way that the feeding thread has not received?
Coming == semaphore = 1 \/ Signalling

\* Whoever left a record behind the back of the feeding thread owes it a wakeup,
\* where the pop that missed the record waited for the reset of the event.
Owed == Ordered /\ feeder = "wait" /\ queue # <<>> => Coming

IInv == TInv /\ OneToken /\ Owed

\* Records that are queued or fed were counted by the thread that logged them.
Accounting == \A r \in Range(queue) \cup Range(fed) : r[2] <= sent[r[1]]

ChannelStep == [Channel!Next]_(Channel!channel)

-------------------------------------------------------------------------------
(***************************************************************************)
(* Type correctness, together with what the store buffer may hold.         *)
(***************************************************************************)
LEMMA TInvInit == ASSUME ConstantsAreSound, Init PROVE TInv
<1>1. <<>> \in Seq(Records) /\ <<>> \in Seq({"state", "interruption"})
  BY EmptySeq
<1>2. 0 \in 0..NumRecords /\ 0 \in 0..MaxInterrupts
  BY DEF ConstantsAreSound
<1>. QED  BY <1>1, <1>2 DEF Init, TInv, TypeOK, Delayed, Buffers

\* The four contents of the buffer are sequences, and differ.
LEMMA BufferFacts ==
    /\ Buffers \subseteq Seq({"state", "interruption"})
    /\ <<"state">> # <<>> /\ <<"interruption">> # <<>>
    /\ <<"state", "interruption">> # <<>>
    /\ <<"state">> # <<"interruption">>
    /\ <<"state", "interruption">> # <<"state">>
    /\ <<"state", "interruption">> # <<"interruption">>
    /\ Append(<<"state">>, "interruption") = <<"state", "interruption">>
<1>1. ASSUME NEW a, NEW b
      PROVE  /\ <<a>> # <<>> /\ <<a, b>> # <<>> /\ <<a, b>> # <<a>> /\ <<a, b>> # <<b>>
             /\ a # b => <<a>> # <<b>>
             /\ Append(<<a>>, b) = <<a, b>>
  <2>1. /\ Len(<<>>) = 0 /\ Len(<<a>>) = 1 /\ Len(<<b>>) = 1 /\ Len(<<a, b>>) = 2
        /\ <<a>>[1] = a /\ <<b>>[1] = b
    OBVIOUS
  <2>2. Append(<<a>>, b) = <<a, b>>
    <3>. DEFINE S == {a, b}
    <3>1. <<a>> \in Seq(S) /\ <<a, b>> \in Seq(S) /\ b \in S
      OBVIOUS
    <3>2. /\ Append(<<a>>, b) \in Seq(S)
          /\ Len(Append(<<a>>, b)) = 2
          /\ Append(<<a>>, b)[1] = a
          /\ Append(<<a>>, b)[2] = b
      BY <3>1, <2>1
    <3>3. <<a, b>>[1] = a /\ <<a, b>>[2] = b
      OBVIOUS
    <3>4. \A i \in 1..2 : i = 1 \/ i = 2
      OBVIOUS
    <3>. HIDE DEF S
    <3>. QED  BY <2>1, <3>1, <3>2, <3>3, <3>4, SeqEqual
  <2>. QED  BY <2>1, <2>2
<1>2. ASSUME NEW S, NEW a \in S, NEW b \in S
      PROVE  <<>> \in Seq(S) /\ <<a>> \in Seq(S) /\ <<a, b>> \in Seq(S)
  OBVIOUS
<1>3. "state" # "interruption"
  OBVIOUS
<1>4. Buffers \subseteq Seq({"state", "interruption"})
  <2>. DEFINE S == {"state", "interruption"}
  <2>1. "state" \in S /\ "interruption" \in S
    OBVIOUS
  <2>. HIDE DEF S
  <2>2. <<>> \in Seq(S) /\ <<"state">> \in Seq(S) /\ <<"interruption">> \in Seq(S)
        /\ <<"state", "interruption">> \in Seq(S)
    BY <1>2, <2>1
  <2>3. Buffers \subseteq Seq(S)
    BY <2>2 DEF Buffers
  <2>. QED  BY <2>3 DEF S
<1>. QED  BY <1>1, <1>3, <1>4

\* A store of the feeding thread right after sem_wait, or after the reset.
LEMMA StoreDelays ==
    ASSUME TInv, NEW v \in {"state", "interruption"}, Store(v),
           pending = <<>> \/ (pending = <<"state">> /\ v = "interruption")
    PROVE  \/ pending = <<>> /\ pending' = <<v>>
           \/ pending = <<"state">> /\ pending' = <<"state", "interruption">>
<1>1. Append(<<>>, v) = <<v>>
  OBVIOUS
<1>2. Append(<<"state">>, "interruption") = <<"state", "interruption">>
  BY BufferFacts
<1>. QED  BY <1>1, <1>2 DEF Store

\* A drain makes the oldest store of the buffer visible.
LEMMA DrainShortens ==
    ASSUME TInv, Drain
    PROVE  \/ /\ pending = <<"state">> /\ pending' = <<>>
              /\ state' = FALSE /\ interruption' = interruption
           \/ /\ pending = <<"interruption">> /\ pending' = <<>>
              /\ state' = state /\ interruption' = FALSE
           \/ /\ pending = <<"state", "interruption">> /\ pending' = <<"interruption">>
              /\ state' = FALSE /\ interruption' = interruption
<1>0. pending \in Buffers /\ state \in BOOLEAN /\ interruption \in BOOLEAN
  BY DEF TInv, TypeOK, Delayed
<1>1. \A v : Head(<<v>>) = v /\ Tail(<<v>>) = <<>>
  OBVIOUS
<1>2. /\ Head(<<"state", "interruption">>) = "state"
      /\ Tail(<<"state", "interruption">>) = <<"interruption">>
  OBVIOUS
<1>3. CASE pending = <<"state">>
  BY <1>0, <1>1, <1>3 DEF Drain
<1>4. CASE pending = <<"interruption">>
  BY <1>0, <1>1, <1>4 DEF Drain
<1>5. CASE pending = <<"state", "interruption">>
  BY <1>0, <1>2, <1>5 DEF Drain
<1>. QED  BY <1>0, <1>3, <1>4, <1>5 DEF Drain, Buffers

\* Popping a record keeps the types.
LEMMA PopTypes ==
    ASSUME TInv, TryPop
    PROVE  queue' \in Seq(Records) /\ fed' \in Seq(Records)
<1>1. Head(queue) \in Records /\ Tail(queue) \in Seq(Records)
  BY HeadTailProperties DEF TInv, TypeOK, TryPop
<1>. QED  BY <1>1 DEF TInv, TypeOK, TryPop

LEMMA TInvStep == ASSUME ConstantsAreSound, TInv, [Next]_vars PROVE TInv'
<1>0. UNCHANGED implementation
  BY DEF Next, vars
<1>. USE <1>0 DEF Ordered
<1>1. ASSUME NEW p \in Producers, enqueue(p) PROVE TInv'
  <2>1. sent[p] + 1 \in 1..NumRecords
    BY <1>1 DEF enqueue, TInv, TypeOK, ConstantsAreSound
  <2>2. <<p, sent[p] + 1>> \in Records
    BY <2>1 DEF Records
  <2>3. queue' \in Seq(Records)
    BY <1>1, <2>2 DEF enqueue, TInv, TypeOK
  <2>4. sent' \in [Producers -> 0..NumRecords] /\ pc' \in [Threads -> {"idle", "set", "post"}]
    BY <1>1, <2>1 DEF enqueue, TInv, TypeOK, Threads
  <2>. QED  BY <1>1, <2>3, <2>4 DEF enqueue, TInv, TypeOK, Delayed
<1>2. ASSUME NEW i \in Interrupters, interrupt_dequeue(i) PROVE TInv'
  <2>1. interrupts' \in 0..MaxInterrupts
    BY <1>2 DEF interrupt_dequeue, TInv, TypeOK, ConstantsAreSound
  <2>. QED  BY <1>2, <2>1 DEF interrupt_dequeue, TInv, TypeOK, Delayed, Threads
<1>3. ASSUME NEW t \in Threads, TrySet(t) PROVE TInv'
  BY <1>3 DEF TrySet, TInv, TypeOK, Delayed
<1>4. ASSUME NEW t \in Threads, SemPost(t) PROVE TInv'
  BY <1>4 DEF SemPost, TInv, TypeOK, Delayed
<1>5. CASE try_dequeue
  BY <1>5, PopTypes DEF try_dequeue, TInv, TypeOK, Delayed
<1>6. CASE dequeue_ready
  <2>1. CASE TryPop /\ feeder' = "idle" /\ unanswered' = FALSE
    BY <1>6, <2>1, PopTypes DEF dequeue_ready, TInv, TypeOK, Delayed
  <2>2. CASE TryPopEmpty /\ feeder' = "wait" /\ UNCHANGED unanswered
    BY <1>6, <2>2 DEF dequeue_ready, TryPopEmpty, LockedInstruction, Ordered,
                      TInv, TypeOK, Delayed
  <2>. QED  BY <1>6, <2>1, <2>2 DEF dequeue_ready
<1>7. CASE SemWait
  BY <1>7 DEF SemWait, LockedInstruction, TInv, TypeOK, Delayed
<1>8. CASE EventReset
  <2>1. pending = <<>> /\ Store("state")
    BY <1>8 DEF EventReset, TInv, Delayed
  <2>2. pending' = <<"state">>
    BY <2>1, StoreDelays, BufferFacts
  <2>3. pending' \in Seq({"state", "interruption"})
    BY <2>2, BufferFacts DEF Buffers
  <2>. QED  BY <1>8, <2>2, <2>3 DEF EventReset, TInv, TypeOK, Delayed, Buffers
<1>9. CASE CheckInterruption
  BY <1>9 DEF CheckInterruption, TInv, TypeOK, Delayed
<1>10. CASE ClearInterruption
  <2>1. pending \in {<<>>, <<"state">>} /\ Store("interruption")
    BY <1>10 DEF ClearInterruption, TInv, Delayed
  <2>2. pending' \in {<<"interruption">>, <<"state", "interruption">>}
    BY <2>1, StoreDelays
  <2>3. pending' \in Seq({"state", "interruption"})
    BY <2>2, BufferFacts DEF Buffers
  <2>. QED  BY <1>10, <2>2, <2>3 DEF ClearInterruption, TInv, TypeOK, Delayed, Buffers
<1>11. CASE Drain
  <2>1. \/ pending' = <<>>
        \/ pending = <<"state", "interruption">> /\ pending' = <<"interruption">>
    BY <1>11, DrainShortens
  <2>2. pending \notin {<<>>, <<"state">>} \/ pending' = <<>>
    BY <1>11, DrainShortens, BufferFacts
  <2>3. state' \in BOOLEAN /\ interruption' \in BOOLEAN
    BY <1>11, DrainShortens DEF TInv, TypeOK
  <2>4. pending' \in Seq({"state", "interruption"})
    BY <2>1, BufferFacts DEF Buffers
  <2>5. pending # <<>>
    BY <1>11 DEF Drain
  <2>. QED  BY <1>11, <2>1, <2>2, <2>3, <2>4, <2>5 DEF Drain, TInv, TypeOK, Delayed, Buffers
<1>12. CASE UNCHANGED vars
  BY <1>12 DEF vars, TInv, TypeOK, Delayed
<1>. QED
  BY <1>1, <1>2, <1>3, <1>4, <1>5, <1>6, <1>7, <1>8, <1>9, <1>10, <1>11, <1>12
  DEF Next, FeederStep

\* The state of the queue, of its event and of its threads keeps its type.
THEOREM TypeCorrect == ASSUME ConstantsAreSound PROVE Spec => []TypeOK
<1>1. Init => TInv
  BY TInvInit
<1>2. TInv /\ [Next]_vars => TInv'
  BY TInvStep
<1>3. TInv => TypeOK
  BY DEF TInv
<1>. QED  BY <1>1, <1>2, <1>3, PTL DEF Spec

-------------------------------------------------------------------------------
(***************************************************************************)
(* The token and what is owed are kept by every step.                      *)
(***************************************************************************)
LEMMA IInvInit == ASSUME ConstantsAreSound, Init PROVE IInv
<1>1. TInv
  BY TInvInit
<1>2. Posting = {} /\ ~ResetPending
  BY BufferFacts DEF Init, Posting, ResetPending
<1>. QED  BY <1>1, <1>2 DEF Init, IInv, OneToken, Owed

\* A thread that leaves the place "idle" signals, and so does one that is in
\* another place.
LEMMA EnteringSignals ==
    ASSUME TInv, NEW t \in Threads, pc[t] = "idle", pc' = [pc EXCEPT ![t] = "set"]
    PROVE  Posting' = Posting /\ Signalling'
BY DEF TInv, TypeOK, Posting, Signalling

\* The test and set puts the token into the hands of the thread that finds the
\* event not signalled; any other thread leaves it where it is.
LEMMA TrySetKeeps ==
    ASSUME IInv, NEW t \in Threads, TrySet(t), UNCHANGED implementation
    PROVE  OneToken' /\ Owed'
<1>0. state \in BOOLEAN /\ pc \in [Threads -> {"idle", "set", "post"}]
  BY DEF IInv, TInv, TypeOK
<1>1. /\ pc[t] = "set" /\ state' = TRUE
      /\ UNCHANGED <<queue, semaphore, interruption, feeder, pending, unanswered>>
  BY DEF TrySet
<1>2. ResetPending' = ResetPending
  BY <1>1 DEF ResetPending
<1>3. CASE state
  <2>1. Posting' = Posting
    BY <1>0, <1>1, <1>3 DEF TrySet, Posting
  <2>2. OneToken'
    BY <1>1, <1>2, <1>3, <2>1 DEF OneToken, IInv
  <2>3. Posting # {} => Signalling'
    BY <2>1 DEF Posting, Signalling
  <2>4. Ordered /\ feeder = "wait" => Coming'
    <3>1. Ordered /\ feeder = "wait" => ~ResetPending
      BY BufferFacts DEF IInv, TInv, Delayed, ResetPending
    <3>. QED  BY <1>1, <1>3, <2>3, <3>1 DEF IInv, OneToken, Coming
  <2>. QED  BY <1>1, <2>2, <2>4 DEF IInv, Owed, Ordered
<1>4. CASE ~state
  <2>1. pc' = [pc EXCEPT ![t] = "post"]
    BY <1>4 DEF TrySet
  <2>2. Posting = {} /\ semaphore = 0 /\ feeder # "reset" /\ ~ResetPending
    BY <1>4 DEF IInv, OneToken
  <2>3. Posting' = {t} /\ Signalling'
    BY <1>0, <2>1, <2>2 DEF Posting, Signalling
  <2>. QED  BY <1>1, <1>2, <2>2, <2>3 DEF IInv, OneToken, Owed, Coming, Ordered
<1>. QED  BY <1>0, <1>3, <1>4

\* The post moves the token into the semaphore.
LEMMA SemPostKeeps ==
    ASSUME IInv, NEW t \in Threads, SemPost(t), UNCHANGED implementation
    PROVE  OneToken' /\ Owed'
<1>1. /\ t \in Posting /\ pc' = [pc EXCEPT ![t] = "idle"] /\ semaphore' = semaphore + 1
      /\ UNCHANGED <<queue, state, interruption, feeder, pending, unanswered>>
  BY DEF SemPost, Posting
<1>2. ResetPending' = ResetPending
  BY <1>1 DEF ResetPending
<1>3. semaphore = 0 /\ feeder # "reset" /\ ~ResetPending /\ Posting = {t}
  BY <1>1 DEF IInv, OneToken
<1>4. Posting' = {}
  BY <1>1, <1>3 DEF IInv, TInv, TypeOK, Posting
<1>5. semaphore' = 1
  BY <1>1, <1>3
<1>. QED  BY <1>1, <1>2, <1>3, <1>4, <1>5 DEF IInv, OneToken, Owed, Coming

\* Steps that touch neither the event nor the threads that signal it.
LEMMA TokenStays ==
    ASSUME IInv, UNCHANGED <<state, semaphore, pc, pending>>,
           (feeder = "reset") <=> (feeder' = "reset")
    PROVE  OneToken' /\ Coming' = Coming
<1>1. Posting' = Posting /\ ResetPending' = ResetPending /\ Signalling' = Signalling
  BY DEF Posting, ResetPending, Signalling
<1>. QED  BY <1>1 DEF IInv, OneToken, Coming

LEMMA IInvStep == ASSUME ConstantsAreSound, IInv, [Next]_vars PROVE IInv'
<1>0. TInv /\ TInv' /\ UNCHANGED implementation
  BY TInvStep DEF IInv, Next, vars
<1>. USE <1>0 DEF Ordered
<1>1. ASSUME NEW p \in Producers, enqueue(p) PROVE IInv'
  <2>1. Posting' = Posting /\ Signalling'
    BY <1>0, <1>1, EnteringSignals DEF enqueue, Threads
  <2>2. ResetPending' = ResetPending
    BY <1>1 DEF enqueue, ResetPending
  <2>. QED  BY <1>0, <1>1, <2>1, <2>2 DEF enqueue, IInv, OneToken, Owed, Coming
<1>2. ASSUME NEW i \in Interrupters, interrupt_dequeue(i) PROVE IInv'
  <2>1. Posting' = Posting /\ Signalling'
    BY <1>0, <1>2, EnteringSignals DEF interrupt_dequeue, Threads
  <2>2. ResetPending' = ResetPending
    BY <1>2 DEF interrupt_dequeue, ResetPending
  <2>. QED  BY <1>0, <1>2, <2>1, <2>2 DEF interrupt_dequeue, IInv, OneToken, Owed, Coming
<1>3. ASSUME NEW t \in Threads, TrySet(t) PROVE IInv'
  BY <1>0, <1>3, TrySetKeeps DEF IInv
<1>4. ASSUME NEW t \in Threads, SemPost(t) PROVE IInv'
  BY <1>0, <1>4, SemPostKeeps DEF IInv
<1>5. CASE try_dequeue
  <2>1. OneToken' /\ Coming' = Coming
    BY <1>5, TokenStays DEF try_dequeue
  <2>. QED  BY <1>0, <1>5, <2>1 DEF try_dequeue, IInv, Owed
<1>6. CASE dequeue_ready
  <2>1. OneToken' /\ Coming' = Coming
    BY <1>6, TokenStays DEF dequeue_ready
  <2>2. CASE TryPop /\ feeder' = "idle" /\ unanswered' = FALSE
    BY <1>0, <1>6, <2>1, <2>2 DEF dequeue_ready, IInv, Owed
  <2>3. CASE TryPopEmpty /\ feeder' = "wait" /\ UNCHANGED unanswered
    BY <1>0, <1>6, <2>1, <2>3 DEF dequeue_ready, TryPopEmpty, IInv, Owed
  <2>. QED  BY <1>6, <2>2, <2>3 DEF dequeue_ready
<1>7. CASE SemWait
  <2>1. semaphore = 1 /\ semaphore' = 0 /\ feeder' = "reset"
    BY <1>7 DEF SemWait, IInv, OneToken
  <2>2. Posting' = Posting /\ ~ResetPending /\ ResetPending' = ResetPending
    BY <1>7, <2>1 DEF SemWait, IInv, OneToken, Posting, ResetPending
  <2>. QED  BY <1>0, <1>7, <2>1, <2>2 DEF SemWait, IInv, OneToken, Owed
<1>8. CASE EventReset
  <2>1. /\ feeder = "reset" /\ feeder' = "check" /\ state /\ Posting = {} /\ semaphore = 0
        /\ Posting' = Posting /\ UNCHANGED <<queue, semaphore, unanswered>>
    BY <1>8 DEF EventReset, IInv, OneToken, Posting
  <2>2. pending = <<>> /\ Store("state")
    BY <1>0, <1>8, <2>1 DEF EventReset, TInv, Delayed
  <2>3. ResetPending' /\ UNCHANGED state
    BY <1>0, <1>8, <2>2, StoreDelays, BufferFacts DEF EventReset, ResetPending
  <2>4. OneToken'
    BY <2>1, <2>3 DEF OneToken
  <2>5. Owed'
    BY <2>1 DEF IInv, Owed
  <2>. QED  BY <1>0, <2>4, <2>5 DEF IInv
<1>9. CASE CheckInterruption
  <2>1. OneToken' /\ Coming' = Coming
    BY <1>9, TokenStays DEF CheckInterruption
  <2>. QED  BY <1>0, <1>9, <2>1 DEF CheckInterruption, IInv, Owed
<1>10. CASE ClearInterruption
  <2>1. /\ feeder' = "idle" /\ ~unanswered' /\ Posting' = Posting /\ feeder = "clear"
        /\ semaphore' = semaphore
    BY <1>10 DEF ClearInterruption, Posting
  <2>2. pending \in {<<>>, <<"state">>} /\ Store("interruption")
    BY <1>0, <1>10 DEF ClearInterruption, TInv, Delayed
  <2>3. state' = state /\ (ResetPending' <=> ResetPending)
    BY <1>0, <1>10, <2>2, StoreDelays, BufferFacts DEF ClearInterruption, ResetPending
  <2>. QED  BY <1>0, <2>1, <2>3 DEF IInv, OneToken, Owed
<1>11. CASE Drain
  <2>1. /\ UNCHANGED <<queue, semaphore, pc, feeder, unanswered>> /\ pending # <<>>
        /\ Posting' = Posting /\ Signalling' = Signalling
    BY <1>11 DEF Drain, Posting, Signalling
  <2>2. \/ ResetPending /\ ~ResetPending' /\ ~state'
        \/ ~ResetPending /\ ~ResetPending' /\ state' = state
    BY <1>0, <1>11, DrainShortens, BufferFacts DEF ResetPending
  <2>3. feeder # "reset"
    BY <1>0, <2>1 DEF TInv, Delayed
  <2>. QED  BY <1>0, <2>1, <2>2, <2>3 DEF IInv, OneToken, Owed, Coming
<1>12. CASE UNCHANGED vars
  <2>1. OneToken' /\ Coming' = Coming
    BY <1>12, TokenStays DEF vars
  <2>. QED  BY <1>0, <1>12, <2>1 DEF vars, IInv, Owed
<1>. QED
  BY <1>1, <1>2, <1>3, <1>4, <1>5, <1>6, <1>7, <1>8, <1>9, <1>10, <1>11, <1>12
  DEF Next, FeederStep

\* What the invariant means to the feeding thread.
LEMMA IInvMeans ==
    ASSUME IInv
    PROVE  SemaphoreIsBinary /\ SignalIsNeverStuck /\ Wakes
<1>1. SemaphoreIsBinary
  BY DEF IInv, OneToken, SemaphoreIsBinary
<1>2. ResetPending => "state" \in Range(pending)
  BY DEF ResetPending, Range
<1>3. SignalIsNeverStuck
  BY <1>1, <1>2 DEF IInv, OneToken, Posting, SignalIsNeverStuck
<1>4. NextSignalWakes
  <2>1. Asleep => Posting = {} /\ ~ResetPending
    BY BufferFacts DEF Asleep, Signalling, Posting, ResetPending
  <2>. QED  BY <2>1 DEF IInv, OneToken, Asleep, NextSignalWakes
<1>5. Ordered => SleepsOnlyWhenEmpty
  BY DEF IInv, Owed, Coming, Asleep, SleepsOnlyWhenEmpty
<1>. QED  BY <1>1, <1>3, <1>4, <1>5 DEF Wakes, Ordered

\* sem_post never overflows the semaphore, and an event that is signalled has a
\* post to wake the feeding thread or is about to be reset: neither an enqueue
\* nor an interruption meets an event that swallows its signal.
THEOREM SignalsAreDelivered ==
    ASSUME ConstantsAreSound PROVE Spec => [](SemaphoreIsBinary /\ SignalIsNeverStuck)
<1>1. Init => IInv
  BY IInvInit
<1>2. IInv /\ [Next]_vars => IInv'
  BY IInvStep
<1>3. IInv => SemaphoreIsBinary /\ SignalIsNeverStuck
  BY IInvMeans
<1>. QED  BY <1>1, <1>2, <1>3, PTL DEF Spec

\* A feeding thread that sleeps is woken by the next signal in either build, and
\* on the queue that takes a lock to find itself empty it never stays blocked
\* over a record whose enqueue returned: "blocks if the queue is empty".
THEOREM SleepersAreWoken ==
    ASSUME ConstantsAreSound PROVE Spec => []Wakes
<1>1. Init => IInv
  BY IInvInit
<1>2. IInv /\ [Next]_vars => IInv'
  BY IInvStep
<1>3. IInv => Wakes
  BY IInvMeans
<1>. QED  BY <1>1, <1>2, <1>3, PTL DEF Spec

-------------------------------------------------------------------------------
(***************************************************************************)
(* The queue is a channel that loses nothing.                              *)
(***************************************************************************)
LEMMA RefinementStep ==
    ASSUME ConstantsAreSound, TInv, Accounting, [Next]_vars
    PROVE  Accounting' /\ ChannelStep
<1> DEFINE Given == Range(queue) \cup Range(fed)
<1>0. /\ queue \in Seq(Records) /\ fed \in Seq(Records)
      /\ Given \subseteq Producers \X Nat
      /\ sent \in [Producers -> Nat]
      /\ \A r \in Given : r[2] <= sent[r[1]]
  BY SMTT(40) DEF TInv, TypeOK, Range, Records, Accounting
<1>1. ASSUME NEW p \in Producers, enqueue(p)
      PROVE  Accounting' /\ ChannelStep
  <2>. DEFINE r == <<p, sent[p] + 1>>
  <2>1. r \in Records /\ sent' = [sent EXCEPT ![p] = @ + 1] /\ queue' = Append(queue, r)
        /\ fed' = fed
    <3>1. sent[p] + 1 \in 1..NumRecords
      BY <1>0, <1>1 DEF enqueue, TInv, TypeOK, ConstantsAreSound
    <3>. QED  BY <1>1, <3>1 DEF enqueue, Records
  <2>2. r \notin Given
    <3>. SUFFICES ASSUME r \in Given PROVE FALSE
      OBVIOUS
    <3>1. r[2] <= sent[r[1]]
      BY <1>0
    <3>2. r[1] = p /\ r[2] = sent[p] + 1 /\ sent[p] \in Nat
      BY <1>0
    <3>. QED  BY <3>1, <3>2
  <2>3. Range(queue') = Range(queue) \cup {r}
    BY <1>0, <2>1, RangeOfAppend
  <2>4. Channel!Accept(r)
    BY <2>1, <2>2 DEF Channel!Accept, Channel!Seen, Channel!Range, Range
  <2>5. ChannelStep
    BY <2>1, <2>4 DEF ChannelStep, Channel!Next
  <2>6. ASSUME NEW q \in Given' PROVE q[2] <= sent'[q[1]]
    <3>1. CASE q \in Given
      <4>1. q[1] \in Producers /\ q[2] \in Nat /\ q[2] <= sent[q[1]]
        BY <1>0, <3>1
      <4>. QED  BY <1>0, <2>1, <4>1
    <3>2. CASE q = r
      <4>1. q[1] = p /\ q[2] = sent[p] + 1 /\ sent'[p] = sent[p] + 1 /\ sent'[p] \in Nat
        BY <1>0, <2>1, <3>2
      <4>. QED  BY <4>1
    <3>. QED  BY <2>1, <2>3, <2>6, <3>1, <3>2
  <2>. QED  BY <2>5, <2>6 DEF Accounting
<1>2. ASSUME TryPop, sent' = sent
      PROVE  Accounting' /\ ChannelStep
  <2>1. /\ queue # <<>> /\ queue' = Tail(queue) /\ fed' = Append(fed, Head(queue))
        /\ Head(queue) \in Records
    BY <1>0, <1>2, HeadTailProperties DEF TryPop
  <2>2. Range(queue) = Range(queue') \cup {Head(queue)}
    BY <1>0, <2>1, RangeOfTail
  <2>3. Range(fed') = Range(fed) \cup {Head(queue)}
    BY <1>0, <2>1, RangeOfAppend
  <2>4. ChannelStep
    BY <2>1 DEF ChannelStep, Channel!Next, Channel!Deliver
  <2>. QED  BY <1>0, <1>2, <2>2, <2>3, <2>4 DEF Accounting
<1>3. ASSUME UNCHANGED <<queue, fed, sent>>
      PROVE  Accounting' /\ ChannelStep
  BY <1>3 DEF Accounting, ChannelStep, Channel!channel
<1>4. CASE dequeue_ready
  BY <1>2, <1>3, <1>4 DEF dequeue_ready, TryPopEmpty
<1>5. CASE UNCHANGED vars
  BY <1>3, <1>5 DEF vars
<1>6. CASE Next /\ ~dequeue_ready
  BY <1>1, <1>2, <1>3, <1>6
  DEF Next, FeederStep, interrupt_dequeue, TrySet, SemPost, try_dequeue, SemWait,
      EventReset, CheckInterruption, ClearInterruption, Drain
<1>. QED  BY <1>4, <1>5, <1>6

\* Every record that was enqueued is received once, in the order of the pushes,
\* whatever the event does and however the stores are delayed.
THEOREM UnboundedQueueImplementsChannel ==
    ASSUME ConstantsAreSound PROVE Spec => ImplementsChannel
<1>1. Init => Accounting /\ Channel!Init
  BY EmptySeq DEF Init, Accounting, Range, Channel!Init
<1>2. Init => TInv
  BY TInvInit
<1>3. TInv /\ [Next]_vars => TInv'
  BY TInvStep
<1>4. TInv /\ Accounting /\ [Next]_vars => Accounting' /\ ChannelStep
  BY RefinementStep
<1>5. Spec => Channel!Init /\ [][Channel!Next]_(Channel!channel)
  BY <1>1, <1>2, <1>3, <1>4, PTL DEF Spec, ChannelStep
<1>. QED  BY <1>5 DEF ImplementsChannel, Channel!Spec
===============================================================================
