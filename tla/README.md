# A verification development for boost-log

Boost.Log v2 passes log records from *loggers* through a *core* to *sinks*. What
makes it hard is not the text it writes but who may be where at the same time:
threads log, feed, flush, stop and change the configuration concurrently, over
queues with semaphores, intrusive wait lists, unlocked flags and once blocks, and
every callback of the user may throw. This directory holds TLA+ modules for that
part of the library, TLC configurations that model-check them on small instances,
and proofs for every value of the constants.

Source paths below are relative to `src/boost-log/`; `H/` stands for `boost/log/`
and `L/` for `libs/log/src/`. `PROJECT.json` maps each definition to the lines it
models and lists the hazards of the code.

## 1. Inventory

How a record travels:

    logger.open_record -> core.open_record (filters, weak list of accepting sinks)
    logger.push_record -> core.push_record -> for each sink that still exists:
        synchronous sink:   try_consume / consume -> lock of the backend -> backend.consume
        asynchronous sink:  try_consume / consume -> queue.enqueue
                            feeding thread: queue.dequeue -> lock of the backend -> backend.consume
    core.flush -> sink.flush -> backend.flush;   asynchronous_sink.stop joins the feeding thread

| Component | State | Operations | Hard behaviour | What must hold |
|---|---|---|---|---|
| logging core (`L/core.cpp`) | sinks, default sink, filter, exception handler, enabled flag, global and per-thread attributes, under one read-write mutex | `open_record`, `push_record`, `add_sink`, `remove_sink`, `flush`, setters | a record outlives the lock it was opened under; busy sinks are retried in rounds with a shuffle in between; sinks throw | each accepting sink that still exists gets the record once, or threw; every call returns |
| synchronous frontend (`H/sinks/sync_frontend.hpp`) | backend mutex | `try_consume`, `consume`, `flush` | the mutex while a backend throws, and the handler called under it | one thread in a backend; the lock is always given back |
| asynchronous frontend (`H/sinks/async_frontend.hpp`) | frontend mutex, `m_BlockCond`, feeding thread id, stop and flush flags, dedicated thread | `consume`, `run`, `feed_records`, `flush`, `stop`, constructors | flags read without the mutex; feeding changes hands; the feeder dies from an exception | one feeder; FIFO, each record once; waiting threads come back |
| bounded FIFO queue and overflow strategies (`H/sinks/bounded_fifo_queue.hpp`, `block_on_overflow.hpp`, `drop_on_overflow.hpp`) | queue, mutex, condition variable, interruption flag, intrusive list of blocked producers | `enqueue`, `try_enqueue`, `try_dequeue`, `try_dequeue_ready`, `dequeue_ready`, `interrupt_dequeue` | wakeups are sent only on the border between empty or full and the rest | bound, FIFO, no sleeper beside work, no dangling context |
| unbounded FIFO queue and event (`H/sinks/unbounded_fifo_queue.hpp`, `L/event.cpp`) | lock-free queue, semaphore, event state, interruption flag | the same | accesses without a mutex, reset without a full barrier | no record and no interruption is lost, the semaphore stays binary |
| lock-free queue (`L/threadsafe_queue.cpp`, `L/atomic_queue.hpp`) | linked nodes, head and tail with counters, or two spin locks | `push`, `try_pop` | ABA, nodes freed while read | linearizable FIFO |
| ordering queues (`H/sinks/*_ordering_queue.hpp`), record ordering (`H/utility/record_ordering.hpp`) | priority queue by predicate, time of enqueueing | the same, with a window of time | timed waits, a new top while the feeder sleeps | records leave in order within their window, and no later |
| formatting frontend (`H/sinks/basic_sink_frontend.hpp`) | filter, handler, formatter with a version, a context per thread | `set_formatter`, `feed_record`, `will_consume` | version compared without the lock | no record formatted by a formatter older than the last completed set |
| locking pointer (`H/detail/locking_ptr.hpp`) | counter that decides who locks | copy, destroy | counter without atomicity | unlock by the last copy, exclusion until then |
| text file backend and collector (`L/text_file_backend.cpp`) | open file, counters, collected files and their total size | `consume`, `rotate_file`, `store_file`, `scan_for_files`, rotation predicates | file system failures between steps, two backends with one collector | sizes agree with the directory, no file is replaced |
| other backends | a stream, socket or handle each | `consume` | none of their own | - |
| attribute set and values view (`L/attribute_set_impl.hpp`, `L/attribute_values_view.cpp`) | one list cut in buckets; three sets and the values taken from them | `insert`, `erase`, `find`, `freeze` | bucket borders | a map: what was inserted is found |
| attribute names (`L/attribute_name.cpp`) | names and identifiers | lookup or registration | registered twice between two locks | one identifier per name |
| named scopes, other attributes (`L/named_scope.cpp`, `H/attributes/`) | scope stack of a thread, counters | push, pop, copy, `detach_from_thread` | copies linked into a live stack | copies survive the stack |
| loggers (`H/sources/`) | attributes, features | `open_record`, `push_record`, setters | the lock each feature asks for; a handler that locks again | no self-deadlock |
| global logger storage (`L/global_logger_storage.cpp`), singletons | one map under a mutex | `get_or_init` | first use by several threads | one instance |
| once block (`L/once_block.cpp`, `H/utility/once_block.hpp`) | a flag per block, one mutex and condition variable for all | enter, `commit`, rollback | failure while others wait, notification after unlock, one condition for all flags | runs once, nobody passes before, nobody waits for ever |
| record streams, type dispatch, filters, formatters, settings, parsers, code conversion | none that several calls share, but for pools of one thread | pure or run once at startup | text | - |
| locks, thread-specific storage | operating system objects | lock, unlock, get, reset | taken as correct by the models | - |

`PROJECT.json` "components" gives the status of each part, "hazards" the forty
most serious hazards with the lines where they bite. Further, smaller ones are in
section 8.

## 2. Modules

| Module | Models | Grain of an action |
|---|---|---|
| `RecordChannel` | what every queue and the asynchronous sink promise: records are put in once, taken out in order, and given up only if `Lossy` | one operation |
| `BoundedFifoQueue` | bounded queue with `block_on_overflow` or `drop_on_overflow` (`Strategy`) | a critical section of the queue's mutex |
| `UnboundedFifoQueue` | unbounded queue and the semaphore event | one access to shared memory |
| `ThreadsafeQueue` | the queue of nodes below it, with compare-and-swap or with two locks | one access to a shared pointer, or one step under a lock |
| `OrderingQueue` | both ordering queues, with time | a critical section, or the clock |
| `AsyncSink` | asynchronous frontend | a critical section of the frontend mutex, a call of the queue, or one unlocked read of a flag |
| `Core` | logging core with synchronous sinks | an acquisition of a lock, or a callback with its return or exception |
| `FormattingFrontend` | contexts, version, formatter and locale of a formatting frontend | a lock, one unlocked read, or a callback |
| `LockingPtr` | `locked_backend()` and its pointers | a load, a store, or a lock |
| `OnceBlock` | once block flags and sentry | a critical section of the global mutex, or one of the unlocked steps around it |
| `Loggers` | loggers with severity, channel and exception handler, and their locks | a lock, or a step between two locks |
| `HashedList` | the list with buckets that two containers share | operators only |
| `AttributeSet`, `AttributeValuesView` | the containers of attributes and of values | one call |
| `AttributeNames` | names and identifiers | a critical section |
| `NamedScopes` | the scope stack of a thread, with lists copied from it | one call, link by link |
| `FilterParser` | the semantic actions of the filter grammar | one semantic action |
| `FileNamePattern` | names of log files, made and recognized | one call |
| `TextFileBackend` | writing, rotating, storing, erasing and scanning files | a step between two points where calls interleave or fail |
| `RotationTimePoint` | the predicates of rotation by time | one question |
| `CollectorRepository` | the shared collectors and their end | a critical section |
| `SequenceLemmas`, `*_proofs` | - | lemmas, inductive invariants, theorems |
| `MC*` | - | model values, scenarios, and the modules that put several parts in one run |

How they compose: `BoundedFifoQueue`, `UnboundedFifoQueue` and `ThreadsafeQueue`
implement `RecordChannel`, an `INSTANCE ... WITH` in each. `UnboundedFifoQueue`
takes the queue below it as atomic, which `ThreadsafeQueue` justifies as far as
it is true (`ImplementsQueue`, and section 8). `AsyncSink` uses a queue that is an
atomic FIFO with an interruption flag, which the properties of the queues on
sleeping justify, and implements `RecordChannel` in turn, with the record in the
hand of the feeding thread as the first of the channel. `Core` stands above
synchronous sinks. `MCQueues` runs the three other queues side by side and
`MCParts` thirteen parts that keep their state by themselves: the initial state
picks one, and only that one moves.

### BoundedFifoQueue

`queue`, `interruptionRequested` and `blocked` (the intrusive list
`m_BlockedThreads`) are the members; the feeding thread and each producer have a
location. A call of `enqueue` is the critical section up to the point where it
returns or calls `on_overflow`; a blocked producer leaves the mutex inside
`cond.wait`, and its return (`on_overflow_return` in the model) is an action of
its own which pushes, blocks again or gives up. Nothing orders a woken producer
before a new one: both contend for the mutex, as on POSIX. Spurious wakeups are
steps. `drop_on_overflow` gives the record up in the critical section.

### UnboundedFifoQueue

`event::wait` is `sem_wait`, then the reset of `m_state`; `set_signalled` is a
test-and-set, then `sem_post`, if it found the event reset
(`L/event.cpp:75-100`). Each is an action, as are push, pop, and the store, read
and reset of the interruption flag. The reset of the event is a release store and
no full barrier (`__sync_lock_release`), so on x86 it may stay in the store
buffer of the feeding thread: each store of that thread may be delayed, `Drain`
writes it back later, and an operation that is a full barrier waits for it. A pop
that takes a record is one. Whether a pop that finds the queue empty is one too
depends on what `threadsafe_queue_impl::create` returned, which `Init` picks: with
`implementation = "generic"`, the two-lock variant for targets without double-word
compare-and-swap, it takes a lock; with `"dcas"`, the variant of the default
x86 and x86-64 builds, it only loads (`L/threadsafe_queue.cpp:335`, `:371`,
`:537-566`), so the feeding thread may sleep while the reset of its event is still
delayed. The queue below is atomic.

### AsyncSink

A thread runs one member function at a time. `Calls(t, dedicated)` says which it
may call; the scenario operators of `MCAsyncSink` give roles to four threads. `At`,
`GoTo` and the names of locations follow the code: `loop` is the test of
`m_StopRequested` at `async_frontend.hpp:436`, `runCheck` and `ready` are `run`
around `dequeue_ready`, `release` and `unwind` are the destructors of
`scoped_thread_id` and `scoped_flag` on the normal and the exceptional way.
`terminated` is set when an exception leaves the function of the dedicated thread,
which ends the program; from then on nobody moves. The waits of `m_BlockCond` are
locations with spurious wakeups, and `owed` records for each thread in `flush` what
was queued when it was called.

### Core

A logging thread opens a record, holds it, and pushes it. The outcomes of filters
are a choice: `ApplyFilters` takes any subsequence of the registered sinks,
which covers what the global filter, the sinks' filters and filters that throw
can decide. A sink is dropped when nobody holds a strong pointer to it any more;
`push_record` locks the weak pointers, walks the sinks with `try_consume`, moves
those that have served the record behind the end of the range, and when all are
busy shuffles and blocks on one (`L/core.cpp:478-575`). A backend accepts, or
throws; the exception handler is asked under the read lock and swallows the
exception or lets it out. `flush` walks the registered sinks under the write lock.
Configuration (`add_sink`, `remove_sink`, `remove_all_sinks`,
`set_logging_enabled`, `set_exception_handler`) is a step under the write lock,
bounded by `MaxChanges`; the setters of filters change nothing that the choice in
`ApplyFilters` does not cover. The attribute sets are not in the model, as a record
is an identity.

### OnceBlock

`executed` reads the flag without the mutex; `enter_once_block` waits on the
condition variable that all blocks share; commit and rollback set the flag and
notify after the unlock (`L/once_block.cpp:380-435`). A block body may fail
`MaxFailures` times, which is the exceptional exit of `once_block_sentry`.

### ThreadsafeQueue

Nodes are told apart by the element they were made for, and memory is `allocated`
or not. For the compare-and-swap variant every load and every double-word
compare-and-swap is a step, with the counters beside the pointers
(`L/threadsafe_queue.cpp:482-580`). A null head that is followed ends the program
(`crashed`). With the two-lock variant the writes under a lock are steps of their
own. One thread pops, as the class demands. Destruction empties the queue.

### OrderingQueue

Records carry a value and the time of their arrival. `Tops` are the records that
the priority queue may have at its top: it promises no order among equals.
`dequeue_ready` waits for a notification while the queue is empty and until a
deadline while the top record is not due; the deadline is computed once, and both
waits may end early. The clock ticks at any time up to `MaxTime`.

### FormattingFrontend

`feed_record` compares the version of the thread's context without the lock,
renews it under the shared lock, formats, and then takes the lock of the backend.
`inForce[t]` collects the settings that were valid at some time of the call, so
that the property is about calls and not about instants.

### LockingPtr

`m_RefCounter` is a plain integer: `Load`, `Add` and `Subtract` are the halves of
`++` and `--`. Feeding threads lock the same mutex without counting. The pointers are
shared: whichever thread is free copies or destroys one. `collided` is set when a
thread begins a constructor or a destructor while another one is in such a call,
which is when the counter can go wrong.

### Loggers

A thread has a stack of frames, as the message of a log statement may call a
function that logs. A frame goes through `open` (the strictest lock that the
features ask for), `set` (severity to the thread, channel to the cell), the core,
and push; an exception there leads to the exception handler feature. Readers are kept
out while a thread waits for exclusive ownership, as `boost::shared_mutex` does
it. `swap` and assignment lock two loggers, in the order of their addresses.

### Containers

A `HashedList` is the sequence of nodes with a first and a last node per bucket,
which are identities and not indices, so that a bucket may point to a node that
is elsewhere or gone. `AttributeSet` adds the pool; its `map` is what the calls
promise. A view picks its values up from three such lists in the order source,
thread, global. `NamedScopes` keeps `next` and `prev` of each node as the code does,
on the call stack or in an allocated block.

### FilterParser

The text is not given but chosen as it is parsed: `expects` is the place in the
grammar, `constructs` are the parentheses, negations and operations that are open
there, and each step matches one more piece and calls its semantic action. A
relation may come without a name, as `attr_name || (...)` allows. Behind a bare name the
alternatives are tried in the order of the code: a word is first taken for a custom
relation, `and` and `or` included (`L/filter_parser.cpp:345`, `:362`), and is an
operation only if no operand can follow, that is in front of a parenthesis
(`no_operand`). The stack of subexpressions, the pending name, the word last read and
the exceptions, those of the filter factory included, are those of the code; `meaning`
is what the last complete part of the text means, and `unambiguous` ends when a bare
name follows an operation, an operand lacks its name, or the word of an operation is
taken for a relation.

### Files

`FileNamePattern` makes a name from tokens and reads it back. An escaped percent of
the pattern is expanded only where the name goes through the formatter of date and
time (`HasTime`, `L/text_file_backend.cpp:1292-1300`); otherwise the name keeps both
signs, while `match_pattern` takes one. `TextFileBackend` is a file system of paths
with the size, the writer and the time of the last write of each file, in a directory
per backend and one of the collector. A collected file is stored in two steps:
`ChooseName` before the mutex, and `store_file` under it, which makes room and moves.
Time is as coarse as that of the file system: several files may be last written at
one time. Calls of the file system fail, the user deletes and processes are killed,
`MaxFaults` times altogether. `restart` ends all backends, in order or by a crash,
and a new process scans. Its first scan sorts what it finds by the time of the last
write; `SortedByTime` keeps equal times in their order. `mistaken` notes that a file
of an earlier process was stored as if it were new, which happens when one of its name
could not be opened. `RotationTimePoint` counts moments in a
calendar of short days, weeks and months. `CollectorRepository` has collectors that
are dying: nobody owns them, but they are still listed.

## 3. Runs

| Run | Question | Answer |
|---|---|---|
| `blocking` | The bounded queue with three producers and one place: does anybody sleep beside work, does a context dangle, is anything lost or reordered, does every blocked producer return and every interruption get answered? The once block with three threads, two blocks, two failures: does each run once, does nobody pass early, is no wakeup lost, do all return? | holds |
| `bounded_fifo_lost_wakeup` | Does every blocked producer return when there is more than one place? | **no**: two pops in a row free two places and wake one producer |
| `queues` | The unbounded queue with delayed stores, the bounded one that drops, and the nodes below: is a wakeup or a record lost, is a freed node used, does a push return when another thread is suspended? | holds: over either implementation the next signal wakes the feeding thread, and over the generic one and in the bounded queue it never sleeps over a record |
| `feeder_lost_wakeup` | Does the feeding thread sleep only while the unbounded queue is empty, over the compare-and-swap implementation of the default x86 build? | **no**: the reset of the event may be delayed past the pop that finds nothing |
| `pop_races` | May the lock-free queue be popped while others push? | **no**: the pop reads `next` before `tail` and can install a null head |
| `async_anything` | Whatever four threads do, with a backend that throws: one feeder, FIFO, each record once; does every request stand, is a stop answered while the dedicated thread has not ended, and does `run` never sleep beside a request? | holds |
| `async_in_turn` | With one thread at a time that stops, or one that flushes a thread in `run`: does each call return and is each record fed? | holds |
| `async_stop_hangs` | Does `stop` return when two threads call it? | **no** |
| `core` | Two loggers, two sinks that are busy, throw or disappear, a flush and a change: is each sink served once, and does each call return? | holds |
| `parts` | Thirteen parts, one property (or two) each, see section 4 | holds |
| `rotation_day` | Are files rotated on the specified day, whichever it is? | **no** |
| `handler_deadlock` | Is the lock of a logger taken once while it handles an exception? | **no** |

The six violations are disagreements between the code and its own documentation;
`PROJECT.json` "findings" quotes the lines and tells each story. In short:

- `block_on_overflow` is told of free space only on the step from full to not
  full (`bounded_fifo_queue.hpp:127`, `:147`), and wakes one producer each time.
- The event is reset by a release store (`event.cpp:26`, `:85`), and a pop of the
  compare-and-swap queue that finds it empty only loads. The record that arrives
  between finds the event still signalled and posts nothing, and the feeding thread
  sleeps beside it until the next signal.
- `try_pop` of the compare-and-swap queue loads `next` of the head, and then the
  tail (`threadsafe_queue.cpp:544-548`); a push in between makes an empty queue
  look as if it had a node to take, and that node is null.
- `m_DedicatedFeedingThread` is joinable until it is joined, so a second `stop`
  raises a flag that the thread, which has left, will not see
  (`async_frontend.hpp:361`).
- The rotation predicate looks for the day of the month in the month of the last
  rotation, and moves on with `gregorian::months`, which sticks to the end of the
  month (`text_file_backend.cpp:1013-1016`).
- The exception handler feature asks for a lock because `push_record_lock` is
  none, and forgets that `open_record_lock` may be one
  (`exception_handler_feature.hpp:208`).

Each temporal violation is found under the fairness of section 5, so it is not
a system that merely stops.

### Bounds, and why they are enough

| Configuration | Bounds |
|---|---|
| `Blocking` | 3 producers, 1 place, 2 records, 1 interruption: two producers block while a third barges in, which is the longest conflict the wait list knows. 3 threads in once blocks (one inside, two waiting), 2 flags, 2 calls, 2 failures. |
| `BoundedFifoLostWakeup` | 2 places, so that full, neither full nor empty, and empty are three states. There is no interruption, which would free the blocked producers. |
| `Queues` | 2 producers with 2 records each, 1 thread that interrupts twice: a second signal of each kind may come between any two accesses of the first. Both implementations, for the unbounded queue with delayed stores. 2 pushing threads and one that pops, 2 pushes each: the head, the tail and a node in between are three nodes. 2 places in the queue that drops. |
| `FeederLostWakeup` | 1 producer with 3 records: the first wakes the feeding thread, the others arrive around its reset. |
| `Async*` | 4 threads: the dedicated or user's feeding thread, a logging thread and two that flush or stop. `MaxCalls` 2 in the runs that pass: a second call meets what the first one left behind. |
| `Core` | 2 loggers, 2 sinks of which one or both are registered at the start, 1 record, 1 change, 1 flush: either sink may be busy with the other logger while the first is served, and both may be gone. |
| `Parts` | See below. |

In `Parts`:

| Part | Bounds |
|---|---|
| attribute set | 4 names in 2 buckets, so that a bucket has a first, a last and a following one; 5 calls, a pool of 1 node, so that it is empty, full and over |
| values view | sets with at most 2 of 3 names each, two of which share a bucket |
| attribute names | 3 names, 2 threads |
| named scopes | 2 lists beside the thread's, 3 scopes open at once, 7 calls |
| filter parser | 3 relations in a text, expressions and negations 2 deep, 2 names: an operation may stand within an operand of another one |
| loggers | 2 threads, 2 loggers, statements nested once, 3 calls |
| ordering queue | 3 records of 2 values, a window of 2 in a time of 0..2, room for 2 or without limit, 1 interruption |
| formatting frontend | 2 threads that log, 2 formatters, 2 locales, 2 changes; the version does not come round within these |
| locking pointer | 2 threads that share up to 2 pointers, beside 2 feeding threads |
| file name | patterns of up to 5 tokens, counters of 1 to 3 digits |
| rotation time | days of 3 moments, weeks of 3 days, months of different length |
| file backend | 2 backends, 3 files, rotation after 3 records, a quota of 2, a clock that stops for records in an open file at `MaxClock` = 1 and that only a new file moves on, 1 fault; for a file to be `mistaken` it takes two faults, which only the theorem covers |
| collectors | 2 directories, one of which may exist, 2 limits, 3 collectors, 2 owners of each |

The theorems of section 6 carry every safety property that a passing run checks beyond
these bounds; what they leave to the runs is liveness.
`CHECK_DEADLOCK FALSE` stands where the bounded program comes to its end and
nothing is left to do; in `Parts` a deadlock of the loggers is `CallersNeverDeadlock`.
In `BoundedFifoLostWakeup` deadlock is checked: the feeding thread runs for ever, so
the stuck producer is a liveness violation and no deadlock. `Parts`, which has no
liveness property, uses the symmetry of `Backends`, which the model tells apart by
nothing but their names; the other runs use none.

## 4. Properties

- *Never asleep beside work*: `NeverSleepsOnRecords` (bounded queue),
  `FeederIsWoken` (unbounded queue with its semaphore and its event, and the queue
  that drops), `NoLostWakeup` (once block), `RequestsAreHeard`
  (asynchronous sink: requests stand, a stop has somebody to answer it while the
  dedicated thread has not ended, and the thread in `run` never sleeps beside one), `HeldBackForTheWindow` (ordering queue: neither too early
  nor longer than it takes).
- *Memory and links*: `LinkedContextsAreLive` (a context on the stack of a
  producer is unlinked before it leaves), `NodesInUse` (what is allocated is what
  is linked or in a push), `ServedOnceWhileTheyExist` (weak pointers to sinks),
  `ScopeListsAreIntact`, `OrderedSetIsAMap`, `CollectorsAreShared`.
- *Exclusion*: `OneFeedingThread`, `BackendHeldWhileFed`, `LockedWhilePointed`,
  `RunsOnce`, `NamesAndIdsMatch`, `CallersNeverDeadlock`.
- *Delivery*: `ImplementsChannel` twice, `FifosAreChannels`, `ImplementsQueue`,
  `BlockingIsLossless`, `PushServesEverySink`, `PassedWhenInitialized`,
  `WrittenAsOpened` (a record has the severity and the channel of its statement),
  `FormattedAsConfigured`, `ViewGrowsIntoTheUnion`, `FilterIsWhatWasWritten`.
- *Limits*: `Bounded`, `CollectorErasesTheOldest` (a rotation erases the oldest files
  and no more than have to go, and nothing else erases any), `AccountsAreExact` (total
  and order of the list, over restarts and scans).
- *Names and times*: `ScanUndoesNaming`, `RotatesOnSchedule`.
- *Liveness*: `WaitingEnds` (blocked producers and interruptions), `RecordsAreFed`,
  `PushReturns`, `CallsReturn` (asynchronous sink, and core), `EveryRecordIsFed`,
  `EveryoneReturns`.

A property whose antecedent leaves a case out says so in its comment, and section
8 tells what happens in that case. `TypeOK` of the modules with proofs is proved and not run.

## 5. Fairness

All fairness is weak and belongs to a thread that is in a call: the operating
system runs what can run, locks are handed out in the end, and the callbacks of the
user and the backend return. Nobody has to log, flush, stop, change the
configuration, interrupt or wake up spuriously.

- `BoundedFifoQueue`: each producer that was woken, and the feeding thread in
  `dequeue_ready`, whose loop is the one of `run`.
- `MCQueues`: the steps inside each call of the unbounded queue, those of its
  feeding thread, and `Drain`, as a store buffer empties by itself; the steps of
  the threads in `ThreadsafeQueue` that are `running`. Which threads run is chosen
  at the start: with compare-and-swap a push has to return whichever other
  threads are suspended for ever, with two locks only if none is.
- `AsyncSink`: `Step(t)` of each thread. Entering a function is no `Step`.
- `Core`: `Step(t)` of each logging thread, and `FlushStep`.
- `OnceBlock`: each step of a thread inside a block, the end of its body included.
  `MCBlocking` assumes these and those of `BoundedFifoQueue` of the part it picked.
- `MCParts` has no liveness property and no fairness.

A mutex is held in a weakly fair way only: where a thread could be passed over for
ever the models let it be passed over, but in the bounded runs competitors run out
of calls. What these runs show is thus the absence of a stuck state, and not that
a lock is free of starvation when the competition has no end.

## 6. Proofs

Proved for every value of the constants that meets the named assumptions of the
modules (thread sets are arbitrary, limits are natural numbers, distinguished
values are no members of the sets they are added to):

| Theorems | Argument |
|---|---|
| `BoundedFifoQueue_proofs`: `TypeCorrect`, `FeederNeverSleepsOnRecords`, `QueueIsBounded`, `ContextsNeverDangle`, `BlockingLosesNothing`, `QueueImplementsChannel` | `TInv` adds to the type that a blocked producer carries a record it has counted, and that only `block_on_overflow` blocks one. On top of it `NeverSleepsOnRecords`, `Bounded` and `LinkedContextsAreLive` are inductive as they stand. The refinement needs `Accounting`: queue, `fed` and `discarded` hold only records that were counted, and never the one a blocked producer carries, which is what makes its push an `Accept`. `BlockingIsLossless` needs `Patient`: without an interruption every blocked producer comes back with TRUE. |
| `AsyncSink_proofs`: `TypeCorrect`, `OneThreadFeeds`, `RequestsStand`, `SinkImplementsChannel` | `IInv` is the type with `Control`: who is in a feeding location is the thread of `m_FeedingThreadID`, only it has a record in hand, and those who wait for a flag see it raised. `WaitsForRaisedFlag` alone is not inductive: that a flag is reset only by the feeder, which then wakes everybody, needs `OneFeedingThread`. `Heard` adds what `RequestsStand` needs: as long as there is a dedicated thread it is about to feed, feeding or at its end (`DedicatedStands`), so that a stop which finds it unjoined has somebody to answer; and a thread in `run` that has tested its flags before a request came finds the interruption (`FlushInterrupts`). For the refinement `Accounting` says that what is in hand, queued or fed was counted before, and that a record about to be enqueued is none of these. |
| `Core_proofs`: `TypeCorrect`, `OneThreadInEachBackend`, `ExistingSinksAreServedOnce`, `EverySinkIsServed` | `Shape` locates each thread: the holder of a backend is a thread that stands in it. `BackendHeldWhileFed` follows from it by itself. `HeldExist` says that no sink a thread has locked is destroyed. `Served` splits the sinks a push has locked into served, failed and left, which survives shuffles as it speaks of sets and of sequences without duplicates; `Serving`, both together, gives the other two. |
| `Parts_proofs`: `OnceTypesAreCorrect`, `BlockRunsOnce`, `WakeupIsNotLost`, `PassersSeeInitialized` | `OnceInv` joins type, `RunsOnce` and `NoLostWakeup`. `RunsOnce` has to say that a flag is `being_initialized` exactly while one thread is in the block: from that follow that nobody else may commit or roll back, and that who waits is owed a broadcast. |
| `UnboundedFifoQueue_proofs`: `TypeCorrect`, `SignalsAreDelivered`, `SleepersAreWoken`, `UnboundedQueueImplementsChannel` | `Delayed` lists the contents the store buffer can have at each place of the feeding thread: four in all, since `sem_wait` empties it. `OneToken` reads a signalled event as one token that a single thread has: the one about to post, the semaphore, the feeding thread before its reset, or the store buffer with that reset. `Owed` says that over the generic implementation a record pushed behind the back of the feeding thread comes with a token or a thread about to make one. So the feeding thread sleeps only when the queue is empty there; over either implementation a thread that sleeps has no token under way, so the event is reset and the next signal posts. None of this is assumed away: stores are delayed throughout. The refinement needs only that records in the queue and in `fed` were counted. |
| `Queues_proofs`: `NoNodeIsLeakedOrFreedEarly`, `ThreadsafeQueueIsAtomic` | Every node that was ever linked is in one chain (`IsChain`): the first dummy, the nodes popped, the nodes linked now. The chain only grows, at its end, and never holds a node twice. `HeadAt`, the number of pops, is the position of `m_Head` in it. With the compare-and-swap implementation the counter of `m_Tail` is a position too, so a pointer that was read earlier and still compares equal has not been away. What each thread read before is described by the positions it can have. The list that the property computes by following the links is the rest of the chain (by `LeastElement`, as the links are followed by a recursive function), and a push is atomic at the step that links its node, a pop at the one that moves `m_Head`. |
| `Queues_proofs`: `TheFeederIsWoken`, `FifoQueuesAreChannels` | `FifoInv` is the invariant of the queue that was picked, taken from `UnboundedFifoQueue_proofs` or `BoundedFifoQueue_proofs` by `INSTANCE`; `FifoSteps` shows that a step of the composition is a step of that queue and leaves the others alone. |
| `Parts_proofs`: `OneIdentifierPerName` | `Registered`: the tree of names holds exactly the nodes of the list, and no name stands in the list twice. The second look under the exclusive lock keeps it so. |
| `Parts_proofs`: `RecordsAreFormattedAsConfigured`, `LockedUntilHoldersCollide` | `FFInv`: the version counts the completed changes (`VersionsSuffice`: it does not come round), a context with the present version holds what the last completed change left, and both this and what is in force are noted for every call under way. `LPInv`: until two threads are in a constructor or a destructor at once (`collided`), one at most is (`OneAtATime`), the place of that one tells how counter, pointers and mutex agree (`CountedAt`), and between the calls they agree exactly (`CountedAtRest`), however many threads take turns. After that nothing holds, which is the hazard of the counter that is not atomic. |
| `Parts_proofs`: `RecordsAreHeldBackForTheWindow` | `WindowHasPassed` carries the order over from what waits to what was fed: a record that was fed without a flush had waited a whole window, so a lesser one that comes in afterwards was logged a window later. The order of two records that were fed follows, since the second one was still waiting, or not yet logged, when the first one went. |
| `Parts_proofs`: `SinksShareCollectors` | `ListIsExact` keeps apart the three conditions of a collector: owned, in its destructor but listed, and gone. `OneIsAlive` follows because the search of the list is complete, unless a collector in its destructor was met (`overtook`). |
| `Core_proofs`: `StatementsAreWrittenAsOpened` | `LocksExclude` says by the place of a thread which logger it has locked and how; a logger that is locked exclusively has no readers. From that a step of one thread leaves the loggers of the others `Untouched`: neither their cells nor the values in these change. `Keeps` is what a statement relies on: its thread's severity until it nests, and, between the opening and the reading of its channel, that its logger is still `Alone` with its cell, copies carried by assignments under way included. |
| `Core_proofs`: `CallersAreNeverDeadlocked` | The place of a thread tells exactly what it has locked, with the number of times, and what it waits for, with or without the channel feature. Whoever has a logger locked and waits for another one waits for a higher address: that is the second lock of `swap`, and nothing else locks two. So among the threads that wait with something locked, one waits for the highest address of all (`AddressAssumption`: addresses are numbers and there is a highest), and the one it waits for is awake. That a thread can go on is stated by the guards and not with `ENABLED`. |
| `Containers_proofs`: `OrderedAttributeSetsAreMaps` | `SetInv`: as long as no node was linked in front of its bucket, the bounds of each bucket enclose a run of the list that holds exactly the nodes of the bucket (`HasRun`), and nodes differ by address (`IsHashed`). `find` is right on such a list (`FindIsRight`), so a name is inserted only once. Linking (`LinkKeepsHashed`, `RunGrows`), unlinking (`UnlinkKeepsHashed`, `RunShrinks`) and copying (`CopyIsHashed`) keep it. `IsExact` says that a node is either linked or in the pool, so that the address of a new one is not in use, which copying and unlinking by address need. |
| `Containers_proofs`: `ScopeListsStayIntact` | `NSInv` names the place of every node (`Place`): the scope at depth i of the thread's stack, the i-th element of one block, the root in front and behind. The links lead from each place to the next and back (`Ring`), no block has two lists (`Separate`), and the memory is exactly the places (`Cells`), so that what a call allocates is new and what it frees nobody else has. A call rewires the rings of one or two lists (`PushLinks`, `PopLinks`, `CopyLinks`, `MoveLinks`, `ExchangeLinks`) and leaves the others (`OthersStay`). Which block a list has is the witness of `NSInv`; swapping lists swaps it. `WalksRound` turns the ring into the walks of the property. |
| `Containers_proofs`: `ViewsGrowIntoTheUnion` | `ViewInv`: the view and the sets can always be walked from the first to the last node of a bucket (`IsWalkable`, kept by `LinkKeepsWalkable` wherever a node goes), so a lookup ends and nodes stay in their order (`Keeps`). While no node is in front, both are hashed lists in the sense above, and each value of the view is the one of the preferred set (`Preferred`). `InsertMissing`, by which the sets were filled and the view is frozen, is a recursive function: that there is one is `FillsGoesOn`, and `Makes` describes its value after each of its steps, by the least step at which it fails. The storage suffices since a hashed list has a node for each of its names (`SizeIsKeys`), and the names are those of the sets (`SizeIsBounded`). |
| `Parts_proofs`: `RotationKeepsTheSchedule` | `RPInv` says what the history variable `due` means: a time of the schedule lies between the last rotation and now. The point that the code computes is the first such time behind the last rotation (`NextComesFirst`, with a lemma for each kind of schedule), so that it has passed exactly when `due` holds. A day of the month has to be one that every month has and none ends with, as the property says. Lengths of days, weeks and months are parameters; the calendar enters through `MonthsFollow` and `DayIsInMonth`: the months number the days without a gap. |
| `Parts_proofs`: `AccountsStayExact`, `CollectorKeepsToItsQuota` | The size of a list is a sum that does not depend on its order (`SumsMoved`, by the least length at which it would), so that sorting after a scan leaves the total alone. `Leaves` describes the loop that makes room: what it keeps is the rest of the list in its order, what it erases was in the list; with no file locked it takes away a first part that is as short as can be (`ErasesFirst`: what is left without its last victim would not fit, what is left fits or is nothing). `TFInv` needs more than the books: where each file is (`Placed`: a file of this process that is in the target directory is listed, hence a scan finds only inherited ones); that each file is on the disk once and in the list once, under one name (`Unique`); and the order. That comes in three parts: the files of one backend of this process are listed by number and by time, with the one being written behind them (`Ordered`); nothing in front of a file of an earlier process is younger than it, as the sort of the last scan left it and what is stored later goes to the end (`Recovered`); and some moment lies between the writes of the earlier processes and those of this one (`Eras`). `Writing` says that the open file of a backend is one of this process. `Undisturbed` says that listed files exist under their names and that a name chosen is free, until the user interferes or two backends choose one name. That a free name exists (`FreeNameIsFree`) is the pigeonhole principle. |
| `Parts_proofs`: `ScansUndoNaming` | Both sides are folds along the tokens, and every name begins with what its first tokens made (`NameBegins`). `ScansUndoNaming` follows the walk of `match_pattern` along them: after i tokens it stands behind what the first i of them made, and has the counter if it was among these. A number ends where the letter behind it begins, which is why a counter of more digits than its width is read whole. That the digits of a number make that number again goes down the recursion of `Digits`, and leading zeros change nothing. Patterns that escape a percent without a date or time placeholder are left out (`PercentsAreUnescaped`), as the name then has one sign more than the scan takes. `FPAssumptions` only says what tokens and counters are. |
| `Containers_proofs`: `FiltersAreAsWritten` | `Placed` says for each place of the grammar what lies on the stack: below the filter of the last complete term exactly the left operands of the open operations, in their order. `Standing` states this by the number of operations among the first i constructs, a function that each way of changing constructs and stack extends or shortens, so that no recursion over the text is needed. A name may still be pending behind a term, but not behind the right operand of an operation, as long as the text is `unambiguous`; and the word of an operation is kept from `m_CustomRelation` to its operation when a parenthesis follows. |

`SequenceLemmas` proves what the refinements need of `Append`, `Head`, `Tail`, `\o`
and `RemoveAt`, and that a recursive function over 0..k whose steps stay in a set exists
and is the only one (`IterationExists`, `IterationIsUnique`); what the core needs of taking an element out of a sequence and of
shuffling one stands at the head of `Core_proofs`. Where a proof has to argue by
induction over numbers it goes by the least counterexample (`LeastElement`), which
the well-foundedness of the naturals gives without an operator as parameter.

Only model-checked: the liveness properties of section 4 (`WaitingEnds`, `CallsReturn`
twice, `EveryRecordIsFed`, `EveryoneReturns`, `RecordsAreFed`, `PushReturns`), which rest
on fairness and so are out of the prover's reach.

## 7. What is not modelled

- Text: formatting, the lexical level of the parsers, code conversion, settings.
- Single calls of the operating system: locks, thread-specific storage,
  the stream, syslog, event log and debugger backends. They are taken to be correct.
- Windows variants of event, once block, locks and condition variables.
- Interruption of the feeding thread by `boost::thread::interrupt`.
- Of the file backend: open and close handlers, `auto_flush`, `min_free_space`,
  and open modes beyond truncation.
- The free list of the allocator: a freed node of `ThreadsafeQueue` is not used
  again while somebody still refers to it. A record in `Core` is an identity, so
  the attribute sets are not composed with it.
- Weak memory beyond the store buffer of the feeding thread in
  `UnboundedFifoQueue`. All other modules are sequentially consistent.

## 8. Observations without a run

Each of these was seen in a model or while it was written. Operators in brackets
are in the modules and state what fails.

Queues and asynchronous sinks:

- The event's reset is no full barrier on x86 (`event.cpp:26`, `:85`), so the read
  of the interruption flag may be older than it, and over either implementation an
  interruption is slept over until the next signal (`InterruptionWakes` of
  `UnboundedFifoQueue`): the same race as in `feeder_lost_wakeup`.
- The feeder tests `m_FlushRequested` for the last time and leaves
  (`async_frontend.hpp:451`); `flush` beside a thread in `feed_records` then waits
  for ever (`FlushReturns`), and `flush` may return with a record still queued
  (`FlushFeedsEverything`).
- With one thread in `stop` and one in `flush` a logging thread may wait for a flush
  that nobody carries out any more. A `flush` that a `stop` wakes returns while the
  feeder is still at work (`:409`).
- `flush` before the dedicated thread has reached `run` takes the feeding over,
  and the dedicated thread then throws `unexpected_call` out of its function, which
  ends the program (`:119`, `:425`).
- Ordering queues are not stable (`bounded_ordering_queue.hpp:310`, `StableOrder`).
  For two records without the attribute `record_ordering.hpp:140` answers true both
  ways, which is no strict weak order, although `:86` calls them equivalent. The age
  of a record is an unsigned difference of two clock readings.
- `sink_frontends.qbk:103` tells the user to give `feed_records` a zero ordering
  window, but `feed_records` takes no argument.

Core, frontends and loggers:

- A record opened before `remove_sink` still reaches the removed sink, and
  `core::flush` does not hold back threads that already opened their record,
  although `core.hpp:148` and `:163` say otherwise.
- Two threads that make or destroy pointers of `locked_backend()` at once break its
  counter: one unlocks the backend of the other, or it is never unlocked
  (`AlwaysLockedWhilePointed` of `LockingPtr`, with two `Holders`), although
  `tutorial.qbk:100` says "as long as it exists the backend is locked".
- A log statement inside the message of another one changes the severity of the
  outer record (`SeverityIsOfTheRecord`; `sources.qbk:31`). The channel attribute
  is shared by copies of a logger. `channel_feature.hpp:145` and `:156` name
  `this->threading_model()`, a type, where `get_threading_model()` is meant, and do
  not compile when they are instantiated.
- `record.hpp:416`: `detach_from_thread` replaces values of a record that another
  feeding thread may read.
- An exception handler runs under the read lock of the core or of the frontend,
  and one that changes the configuration waits for itself (`core.cpp:466`).

Containers and parsers:

- An attribute whose identifier is smaller than all in its bucket is linked in
  front of `b.first` and not found again, so that a second insertion of the name
  succeeds (`OneAttributePerKey`; `attribute_set.hpp:333`); in a view the same
  happens to values.
- `%A% > 1 & (%B% > 1 | %C%)` is read in the wrong order, because the bare name is
  turned into a filter too late, or the stack runs out
  (`OperationsFindTheirOperands`). After a bare name the words `and` and `or` are read
  as a custom relation if an operand can follow, and `%A% and %B% > 1` is refused
  (`filter_parser.cpp:345`, `default_filter_factory.cpp:112`), although
  `utilities.qbk:407` documents both words and that a relation may be omitted.
- `formatter_parser.cpp` keeps the quotes of arguments.

Files:

- A file name that ends in digits is not recognized, as `scan_digits` compares with
  the end after its increment, so that files renamed on a clash are not found
  (`ScanFindsClashes`).
- The files of a pattern with an escaped percent and no date or time, as `a%%b_%N.log`,
  have both signs in their names and are not found by a scan, which takes one
  (`EveryFileIsFound` of `FileNamePattern`; `text_file_backend.cpp:410`, `:1292`),
  although `text_file_backend.hpp:111` documents `%%` as a percent sign.
- A file that cannot be opened leaves its name to the next rotation: a file of an
  earlier process with that name is then stored as if it were new, out of the order
  of the times (`mistaken` in `AccountsAreExact`).
- Two backends that rotate at the same time choose one name, and the second move
  replaces the first file. With files written in the target directory itself a file
  is listed twice.
- A directory whose collector is being destroyed may get two
  (`OneCollectorPerDirectory`), and `filesystem::equivalent` throws for a directory
  that does not exist yet when another one is governed (`EveryDirectoryGetsACollector`).
- Files that cannot be deleted stay counted (`text_file_backend.cpp:706`); the
  file counter is reset before the scan that may fail (`:770`); an existing file is
  truncated after a restart (`:1189`).

Smaller ones: the width of counters (`counter.hpp:150`), memory that runs out
while a record is made (`core.cpp:173`), the flag of a once block, which must be
zero-initialized (`once_block.hpp:173`) and is read without a barrier (`:89`).

## 9. Plan

1. The composition of `Core` with `AsyncSink`, for the backend that logs while
   `flush` holds the write lock.
2. `detach_from_thread` of records between `Core` and several asynchronous sinks.
3. The pool of streams behind the log statements, and `text_multifile_backend`.
