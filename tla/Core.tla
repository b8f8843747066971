--------------------------------- MODULE Core ---------------------------------
(***************************************************************************)
(* basic_core: logging threads open a record, which collects the sinks     *)
(* whose filters accept it, and push it to those sinks, while other        *)
(* threads register and remove sinks, switch logging on and off, replace   *)
(* the exception handler and flush.  The sinks are synchronous_sinks: a    *)
(* backend under a mutex, which try_consume only tries to lock.            *)
(*                                                                         *)
(* What open_record does under the read lock changes nothing of the core,  *)
(* so it is one action that waits for the writer, and the only writer that *)
(* keeps the lock for more than one action is flush.  push_record takes no *)
(* lock of the core except to handle an exception.                         *)
(***************************************************************************)
EXTENDS Naturals, Sequences, Functions

CONSTANTS
    Loggers,         \* threads that log
    Sinks,           \* the sinks of the program
    DefaultSink,     \* implementation::DefaultSink
    Flusher,         \* the thread inside core::flush
    Nobody,          \* the owner of a mutex that is free
    InitialSinks,    \* what may be registered before the threads start
    NumRecords,      \* bound: records each thread opens
    MaxChanges,      \* bound: changes of the configuration
    MaxFlushes       \* bound: calls of flush

AllSinks == Sinks \cup {DefaultSink}
Owners == Loggers \cup {Flusher}

ASSUME DefaultSinkAssumption == DefaultSink \notin Sinks
ASSUME OwnersAssumption == Flusher \notin Loggers /\ Nobody \notin Owners
ASSUME InitialAssumption ==
    \A seq \in InitialSinks : seq \in Seq(Sinks) /\ IsInjective(seq)
ASSUME BoundsAssumption ==
    NumRecords \in Nat /\ MaxChanges \in Nat /\ MaxFlushes \in Nat

VARIABLES
    enabled,         \* Enabled
    sinks,           \* Sinks
    swallows,        \* does ExceptionHandler swallow exceptions?  An empty one
                     \* and one that throws both let them out.
    flushIt,         \* the position of flush in Sinks, 0 when nobody flushes
    backend,         \* who holds the backend mutex of each sink
    destroyed,       \* the sinks that exist no more
    pc,              \* where each logging thread stands
    opened,          \* how many records it has opened; also numbers them
    list,            \* m_AcceptingSinks of its record, then begin to end of
                     \* accepting_sinks
    it,              \* its iterator, as an index of the list
    allLocked,       \* its all_locked
    shuffled,        \* its shuffled
    held,            \* the sinks its accepting_sinks keeps alive
    failed,          \* history: the sinks that threw on its record
    got,             \* history: how often each backend has consumed each record
    changes,         \* history: changes of the configuration so far
    flushes          \* history: calls of flush so far

configVars == <<enabled, sinks, swallows, changes>>
flushVars == <<flushIt, flushes>>
loopVars == <<list, it, allLocked, shuffled>>
vars == <<configVars, flushVars, backend, destroyed, pc, opened, loopVars, held,
          failed, got>>

Record(t) == <<t, opened[t]>>
Records == Loggers \X (1..NumRecords)
Flushing == flushIt # 0

\* Inside the loop of push_record, or handling an exception of it.
Pushing == {"try", "block", "feedTry", "feed", "catch"}
Locations == Pushing \cup {"idle", "filter", "openCatch", "opened", "outerCatch"}

TypeOK ==
    /\ enabled \in BOOLEAN
    /\ sinks \in Seq(Sinks) /\ IsInjective(sinks)
    /\ swallows \in BOOLEAN
    /\ flushIt \in 0..Len(sinks)
    /\ backend \in [AllSinks -> Owners \cup {Nobody}]
    /\ destroyed \in SUBSET Sinks
    /\ pc \in [Loggers -> Locations]
    /\ opened \in [Loggers -> 0..NumRecords]
    /\ list \in [Loggers -> Seq(AllSinks)]
    /\ it \in [Loggers -> Nat \ {0}]
    /\ allLocked \in [Loggers -> BOOLEAN]
    /\ shuffled \in [Loggers -> BOOLEAN]
    /\ held \in [Loggers -> SUBSET AllSinks]
    /\ failed \in [Loggers -> SUBSET AllSinks]
    /\ got \in [AllSinks -> [Records -> Nat]]
    /\ changes \in 0..MaxChanges
    /\ flushes \in 0..MaxFlushes

Init ==
    /\ enabled = TRUE
    /\ sinks \in InitialSinks
    /\ swallows \in BOOLEAN
    /\ flushIt = 0
    /\ backend = [s \in AllSinks |-> Nobody]
    /\ destroyed = {}
    /\ pc = [t \in Loggers |-> "idle"]
    /\ opened = [t \in Loggers |-> 0]
    /\ list = [t \in Loggers |-> <<>>]
    /\ it = [t \in Loggers |-> 1]
    /\ allLocked = [t \in Loggers |-> TRUE]
    /\ shuffled = [t \in Loggers |-> TRUE]
    /\ held = [t \in Loggers |-> {}]
    /\ failed = [t \in Loggers |-> {}]
    /\ got = [s \in AllSinks |-> [r \in Records |-> 0]]
    /\ changes = 0
    /\ flushes = 0

-------------------------------------------------------------------------------
GoTo(t, location) == pc' = [pc EXCEPT ![t] = location]

\* The begin to end range of thread t and its iterator.
SetRange(t, range, i) ==
    /\ list' = [list EXCEPT ![t] = range]
    /\ it' = [it EXCEPT ![t] = i]

\* The call returns or an exception leaves it: the record and the locked
\* pointers are gone.
Leave(t) ==
    /\ GoTo(t, "idle")
    /\ SetRange(t, <<>>, 1)
    /\ allLocked' = [allLocked EXCEPT ![t] = TRUE]
    /\ shuffled' = [shuffled EXCEPT ![t] = TRUE]
    /\ held' = [held EXCEPT ![t] = {}]
    /\ failed' = [failed EXCEPT ![t] = {}]

(***************************************************************************)
(* open_record.                                                            *)
(***************************************************************************)

\* The quick look at Enabled, without a lock.
open_record(t) ==
    /\ pc[t] = "idle"
    /\ opened[t] < NumRecords
    /\ enabled
    /\ opened' = [opened EXCEPT ![t] = @ + 1]
    /\ GoTo(t, "filter")
    /\ UNCHANGED <<configVars, flushVars, backend, destroyed, loopVars, held, failed, got>>

\* The sinks that are asked: all that are registered, else the default sink.
Candidates == IF sinks = <<>> THEN <<DefaultSink>> ELSE sinks

\* Some elements of a sequence, in their order.
Subsequences(seq) ==
    UNION { { [i \in 1..n |-> seq[pick[i]]] :
                 pick \in {p \in [1..n -> DOMAIN seq] :
                              \A i, j \in 1..n : i < j => p[i] < p[j]} }
          : n \in 0..Len(seq) }

\* Under the read lock.  The global filter or all sinks may reject the record;
\* a sink whose filter throws into a handler that swallows has rejected it.
\* An exception that nobody swallows leaves the section with the sinks that
\* had accepted by then.
ApplyFilters(t) ==
    /\ pc[t] = "filter"
    /\ ~Flushing
    /\ \/ /\ ~enabled
          /\ GoTo(t, "idle")
          /\ UNCHANGED list
       \/ /\ enabled
          /\ \E accepting \in Subsequences(Candidates) :
                /\ list' = [list EXCEPT ![t] = accepting]
                /\ GoTo(t, IF accepting = <<>> THEN "idle" ELSE "opened")
       \/ /\ enabled
          /\ \E accepting \in Subsequences(Candidates) :
                /\ \/ accepting = <<>>
                   \/ ~swallows /\ Candidates[Len(Candidates)] \notin Range(accepting)
                /\ list' = [list EXCEPT ![t] = accepting]
          /\ GoTo(t, "openCatch")
    /\ UNCHANGED <<configVars, flushVars, backend, destroyed, opened, it,
                   allLocked, shuffled, held, failed, got>>

\* The outer handler of open_record takes the read lock anew, and may find
\* another handler than the one that threw.  If that one swallows, the record
\* is returned as far as it got.
OpenCatch(t) ==
    /\ pc[t] = "openCatch"
    /\ ~Flushing
    /\ \/ /\ swallows /\ list[t] # <<>>
          /\ GoTo(t, "opened")
          /\ UNCHANGED <<loopVars, held, failed>>
       \/ /\ ~swallows \/ list[t] = <<>>
          /\ Leave(t)
    /\ UNCHANGED <<configVars, flushVars, backend, destroyed, opened, got>>

-------------------------------------------------------------------------------
(***************************************************************************)
(* push_record.                                                            *)
(***************************************************************************)

\* Mutant: the sinks that accepted are used without locking the weak pointers.
PushUnlocked(t) ==
    /\ pc[t] = "opened"
    /\ UNCHANGED <<list, it, held>>
    /\ allLocked' = [allLocked EXCEPT ![t] = TRUE]
    /\ shuffled' = [shuffled EXCEPT ![t] = (Len(list[t]) <= 1)]
    /\ GoTo(t, "try")
    /\ UNCHANGED <<configVars, flushVars, backend, destroyed, opened, failed, got>>

\* Locks the sinks that still exist.  The weak pointers are locked one by one;
\* a sink that expires in between might as well have expired before.
push_record(t) ==
    /\ pc[t] = "opened"
    /\ \E locked \in Subsequences(list[t]) :
          /\ Range(locked) = Range(list[t]) \ destroyed
          /\ SetRange(t, locked, 1)
          /\ held' = [held EXCEPT ![t] = Range(locked)]
          /\ shuffled' = [shuffled EXCEPT ![t] = (Len(locked) <= 1)]
    /\ allLocked' = [allLocked EXCEPT ![t] = TRUE]
    /\ GoTo(t, "try")
    /\ UNCHANGED <<configVars, flushVars, backend, destroyed, opened, failed, got>>

\* --end; end->swap(*it).
SwapOut(range, i) ==
    SubSeq([range EXCEPT ![i] = range[Len(range)]], 1, Len(range) - 1)

Current(t) == list[t][it[t]]

\* try_consume finds the backend mutex of a synchronous_sink taken.  The
\* default sink has a blocking try_consume, the one of sinks::sink.
TryBusy(t) ==
    /\ pc[t] = "try" /\ it[t] <= Len(list[t])
    /\ Current(t) # DefaultSink
    /\ backend[Current(t)] # Nobody
    /\ it' = [it EXCEPT ![t] = @ + 1]
    /\ UNCHANGED <<configVars, flushVars, backend, destroyed, pc, opened, list,
                   allLocked, shuffled, held, failed, got>>

\* try_consume gets the mutex and calls the backend.
TryConsume(t) ==
    /\ pc[t] = "try" /\ it[t] <= Len(list[t])
    /\ backend[Current(t)] = Nobody
    /\ backend' = [backend EXCEPT ![Current(t)] = t]
    /\ GoTo(t, "feedTry")
    /\ UNCHANGED <<configVars, flushVars, destroyed, opened, loopVars, held,
                   failed, got>>

\* Mutant: a thread that found every sink busy gives up.
EndRoundGivesUp(t) ==
    /\ pc[t] = "try" /\ it[t] > Len(list[t])
    /\ IF list[t] = <<>> \/ allLocked[t]
          THEN Leave(t)
          ELSE SetRange(t, list[t], 1) /\ UNCHANGED <<pc, shuffled, held, failed>>
               /\ allLocked' = [allLocked EXCEPT ![t] = TRUE]
    /\ UNCHANGED <<configVars, flushVars, backend, destroyed, opened, got>>

\* The end of a round over the sinks: done, or another round, or all of them
\* were busy and the thread is about to block on the first one of a shuffle.
EndRound(t) ==
    /\ pc[t] = "try" /\ it[t] > Len(list[t])
    /\ \/ /\ list[t] = <<>>
          /\ Leave(t)
       \/ /\ list[t] # <<>> /\ ~allLocked[t]
          /\ SetRange(t, list[t], 1)
          /\ allLocked' = [allLocked EXCEPT ![t] = TRUE]
          /\ UNCHANGED <<pc, shuffled, held, failed>>
       \/ /\ list[t] # <<>> /\ allLocked[t]
          /\ \E order \in Bijection(DOMAIN list[t], DOMAIN list[t]) :
                /\ shuffled[t] => order = [i \in DOMAIN list[t] |-> i]
                /\ SetRange(t, [i \in DOMAIN list[t] |-> list[t][order[i]]], 1)
          /\ shuffled' = [shuffled EXCEPT ![t] = TRUE]
          /\ GoTo(t, "block")
          /\ UNCHANGED <<allLocked, held, failed>>
    /\ UNCHANGED <<configVars, flushVars, backend, destroyed, opened, got>>

\* consume waits for the mutex and calls the backend.
Consume(t) ==
    /\ pc[t] = "block"
    /\ backend[Current(t)] = Nobody
    /\ backend' = [backend EXCEPT ![Current(t)] = t]
    /\ GoTo(t, "feed")
    /\ UNCHANGED <<configVars, flushVars, destroyed, opened, loopVars, held,
                   failed, got>>

\* Mutant: the sink stays in the range after consume.
ConsumeKeepsSink(t) ==
    /\ pc[t] \in {"feedTry", "feed"}
    /\ backend' = [backend EXCEPT ![Current(t)] = Nobody]
    /\ got' = [got EXCEPT ![Current(t)][Record(t)] = @ + 1]
    /\ SetRange(t, IF pc[t] = "feed" THEN list[t] ELSE SwapOut(list[t], it[t]), it[t])
    /\ allLocked' = [allLocked EXCEPT ![t] = (pc[t] = "feed")]
    /\ GoTo(t, "try")
    /\ UNCHANGED <<configVars, flushVars, destroyed, opened, shuffled, held, failed>>

\* feed_record returns, the mutex is released, and the sink is swapped out of
\* the range.  consume begins a new turn of the outer loop, try_consume goes on.
FeedReturns(t) ==
    /\ pc[t] \in {"feedTry", "feed"}
    /\ backend' = [backend EXCEPT ![Current(t)] = Nobody]
    /\ got' = [got EXCEPT ![Current(t)][Record(t)] = @ + 1]
    /\ SetRange(t, SwapOut(list[t], it[t]), it[t])
    /\ allLocked' = [allLocked EXCEPT ![t] = (pc[t] = "feed")]
    /\ GoTo(t, "try")
    /\ UNCHANGED <<configVars, flushVars, destroyed, opened, shuffled, held, failed>>

\* Mutant: the mutex is still held while the exception is handled.
FeedThrowsLocked(t) ==
    /\ pc[t] \in {"feedTry", "feed"}
    /\ failed' = [failed EXCEPT ![t] = @ \cup {Current(t)}]
    /\ GoTo(t, "catch")
    /\ UNCHANGED <<configVars, flushVars, backend, destroyed, opened, loopVars, held, got>>

\* feed_record throws, and the mutex is released on the way out.
FeedThrows(t) ==
    /\ pc[t] \in {"feedTry", "feed"}
    /\ backend' = [backend EXCEPT ![Current(t)] = Nobody]
    /\ failed' = [failed EXCEPT ![t] = @ \cup {Current(t)}]
    /\ GoTo(t, "catch")
    /\ UNCHANGED <<configVars, flushVars, destroyed, opened, loopVars, held, got>>

\* Mutant: the sink that failed is not skipped.
CatchKeepsSink(t) ==
    /\ pc[t] = "catch"
    /\ ~Flushing
    /\ \/ /\ swallows
          /\ allLocked' = [allLocked EXCEPT ![t] = TRUE]
          /\ GoTo(t, "try")
          /\ UNCHANGED <<list, it>>
       \/ /\ ~swallows
          /\ GoTo(t, "outerCatch")
          /\ UNCHANGED <<list, it, allLocked>>
    /\ UNCHANGED <<configVars, flushVars, backend, destroyed, opened, shuffled,
                   held, failed, got>>

\* The handler is called under the read lock.  If it swallows the exception,
\* the sink that failed is skipped and the loop goes on where it was.
Catch(t) ==
    /\ pc[t] = "catch"
    /\ ~Flushing
    /\ \/ /\ swallows
          /\ SetRange(t, SwapOut(list[t], it[t]), it[t])
          /\ allLocked' = [allLocked EXCEPT ![t] = TRUE]
          /\ GoTo(t, "try")
       \/ /\ ~swallows
          /\ GoTo(t, "outerCatch")
          /\ UNCHANGED <<list, it, allLocked>>
    /\ UNCHANGED <<configVars, flushVars, backend, destroyed, opened, shuffled,
                   held, failed, got>>

\* The outer handler of push_record.  Whether it finds a handler that swallows
\* by now or throws, the sinks that are left do not get the record.
OuterCatch(t) ==
    /\ pc[t] = "outerCatch"
    /\ ~Flushing
    /\ Leave(t)
    /\ UNCHANGED <<configVars, flushVars, backend, destroyed, opened, got>>

-------------------------------------------------------------------------------
(***************************************************************************)
(* flush, under the write lock from its first sink to its last.            *)
(***************************************************************************)
NextFlushed == IF flushIt = Len(sinks) THEN 0 ELSE flushIt + 1

\* With no sink registered flush returns at once.
flush ==
    /\ ~Flushing
    /\ flushes < MaxFlushes
    /\ flushes' = flushes + 1
    /\ sinks # <<>>
    /\ flushIt' = 1
    /\ UNCHANGED <<configVars, backend, destroyed, pc, opened, loopVars, held,
                   failed, got>>

\* flush of a synchronous_sink waits for the backend mutex.
FlushSink ==
    /\ Flushing
    /\ backend[sinks[flushIt]] = Nobody
    /\ backend' = [backend EXCEPT ![sinks[flushIt]] = Flusher]
    /\ UNCHANGED <<configVars, flushVars, destroyed, pc, opened, loopVars, held,
                   failed, got>>

\* The backend is flushed, or throws.  An exception that nobody swallows ends
\* core::flush with the remaining sinks not flushed.
FlushSinkReturns ==
    /\ Flushing
    /\ backend[sinks[flushIt]] = Flusher
    /\ backend' = [backend EXCEPT ![sinks[flushIt]] = Nobody]
    /\ \/ flushIt' = NextFlushed
       \/ ~swallows /\ flushIt' = 0
    /\ UNCHANGED <<configVars, flushes, destroyed, pc, opened, loopVars, held,
                   failed, got>>

-------------------------------------------------------------------------------
(***************************************************************************)
(* The configuration, each change under the write lock.                    *)
(***************************************************************************)
Change ==
    /\ ~Flushing
    /\ changes < MaxChanges
    /\ changes' = changes + 1
    /\ UNCHANGED <<flushVars, backend, destroyed, pc, opened, loopVars, held,
                   failed, got>>

add_sink(s) ==
    /\ Change
    /\ s \notin destroyed
    /\ s \notin Range(sinks)
    /\ sinks' = Append(sinks, s)
    /\ UNCHANGED <<enabled, swallows>>

remove_sink(s) ==
    /\ Change
    /\ sinks' \in Subsequences(sinks)
    /\ Range(sinks') = Range(sinks) \ {s}
    /\ UNCHANGED <<enabled, swallows>>

remove_all_sinks ==
    /\ Change
    /\ sinks' = <<>>
    /\ UNCHANGED <<enabled, swallows>>

set_logging_enabled ==
    /\ Change
    /\ enabled' \in BOOLEAN
    /\ UNCHANGED <<sinks, swallows>>

set_exception_handler ==
    /\ Change
    /\ swallows' \in BOOLEAN
    /\ UNCHANGED <<sinks, enabled>>

\* The program drops a sink.  It lives on while it is registered or locked.
DestroySink(s) ==
    /\ s \notin Range(sinks)
    /\ \A t \in Loggers : s \notin held[t]
    /\ destroyed' = destroyed \cup {s}
    /\ UNCHANGED <<configVars, flushVars, backend, pc, opened, loopVars, held,
                   failed, got>>

-------------------------------------------------------------------------------
\* A step of a call under way.
Step(t) ==
    \/ ApplyFilters(t) \/ OpenCatch(t)
    \/ push_record(t)
    \/ TryBusy(t) \/ TryConsume(t) \/ EndRound(t) \/ Consume(t)
    \/ FeedReturns(t) \/ FeedThrows(t)
    \/ Catch(t) \/ OuterCatch(t)

FlushStep == FlushSink \/ FlushSinkReturns

Next ==
    \/ \E t \in Loggers : open_record(t) \/ Step(t)
    \/ flush \/ FlushStep
    \/ \E s \in Sinks : add_sink(s) \/ remove_sink(s) \/ DestroySink(s)
    \/ remove_all_sinks
    \/ set_logging_enabled
    \/ set_exception_handler

\* Every thread goes on with the call it is in, and backends do return.
Fairness == (\A t \in Loggers : WF_vars(Step(t))) /\ WF_vars(FlushStep)

Spec == Init /\ [][Next]_vars
FairSpec == Spec /\ Fairness

-------------------------------------------------------------------------------
\* A backend mutex is held by the thread that is inside that backend, and by
\* no other: exceptions release it before they are handled.
BackendHeldWhileFed ==
    \A t \in Loggers, s \in AllSinks :
        backend[s] = t <=> pc[t] \in {"feedTry", "feed"} /\ Current(t) = s

\* No backend gets a record twice, whatever order the busy sinks, the shuffle
\* and the exceptions take the range through.
ServedOnce == \A s \in AllSinks, r \in Records : got[s][r] <= 1

\* A sink that a thread feeds or has yet to feed exists, although the program
\* may remove and drop it at any time.
FedSinksExist ==
    \A t \in Loggers : pc[t] \in Pushing => Range(list[t]) \cap destroyed = {}

\* A push serves no sink twice and no sink that is gone.
ServedOnceWhileTheyExist == ServedOnce /\ FedSinksExist

\* When push_record comes to its end without an exception that nobody swallowed,
\* every sink that accepted the record and still existed got it or threw on it.
PushServesEverySink ==
    [][\A t \in Loggers :
          pc[t] = "try" /\ pc'[t] = "idle" =>
              \A s \in held[t] : s \in failed[t] \/ got[s][Record(t)] = 1]_vars

\* No call stays blocked: neither logging threads that wait for a backend or
\* for the read lock, nor a flush that waits for a backend.
LoggingReturns == \A t \in Loggers : pc[t] # "idle" ~> pc[t] = "idle"
FlushReturns == Flushing ~> ~Flushing
CallsReturn == LoggingReturns /\ FlushReturns
===============================================================================
