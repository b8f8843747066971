------------------------------ MODULE OnceBlock -------------------------------
(***************************************************************************)
(* BOOST_LOG_ONCE_BLOCK in its pthread form: a block that is executed once *)
(* by whichever thread comes first, while the others wait for it.  Every   *)
(* lazy singleton of the library, the logging core included, is created in *)
(* one.  All flags share one mutex and one condition variable; an action   *)
(* is a critical section of that mutex, or what a thread does outside it.  *)
(***************************************************************************)
EXTENDS Naturals

CONSTANTS
    Threads,
    Flags,           \* the once_block_flag variables
    MaxCalls,        \* bound: blocks each thread comes to
    MaxFailures      \* bound: times a block is left by an exception or a jump

ASSUME OnceBoundsAssumption == MaxCalls \in Nat /\ MaxFailures \in Nat

VARIABLES
    status,          \* once_block_flag::status
    standing,        \* where each thread stands
    at,              \* the flag of the block it came to last
    entries,         \* how many blocks it has come to
    failures,        \* history: blocks left without a commit so far
    runs             \* history: how often each block ran to its end

onceVars == <<status, standing, at, entries, failures, runs>>

Statuses == {"uninitialized", "being_initialized", "initialized"}

OnceTypeOK ==
    /\ status \in [Flags -> Statuses]
    /\ standing \in [Threads -> {"idle", "enter", "wait", "body", "broadcast"}]
    /\ at \in [Threads -> Flags]
    /\ entries \in [Threads -> 0..MaxCalls]
    /\ failures \in 0..MaxFailures
    /\ runs \in [Flags -> Nat]

OnceInit ==
    /\ status = [f \in Flags |-> "uninitialized"]
    /\ standing = [t \in Threads |-> "idle"]
    /\ at \in [Threads -> Flags]
    /\ entries = [t \in Threads |-> 0]
    /\ failures = 0
    /\ runs = [f \in Flags |-> 0]

-------------------------------------------------------------------------------
GoTo(t, location) == standing' = [standing EXCEPT ![t] = location]
SetStatus(f, s) == status' = [status EXCEPT ![f] = s]

\* executed() reads the flag without the mutex and skips the block at once if
\* it is initialized.
executed(t, f) ==
    /\ standing[t] = "idle"
    /\ entries[t] < MaxCalls
    /\ entries' = [entries EXCEPT ![t] = @ + 1]
    /\ at' = [at EXCEPT ![t] = f]
    /\ GoTo(t, IF status[f] = "initialized" THEN "idle" ELSE "enter")
    /\ UNCHANGED <<status, failures, runs>>

\* Mutant: a thread that waited does not look at the flag again.
EnterOnlyOnce(t) ==
    /\ standing[t] = "enter"
    /\ CASE status[at[t]] = "initialized" -> GoTo(t, "idle") /\ UNCHANGED status
         [] status[at[t]] = "uninitialized" ->
               SetStatus(at[t], "being_initialized") /\ GoTo(t, "body")
         [] status[at[t]] = "being_initialized" -> GoTo(t, "idle") /\ UNCHANGED status
    /\ UNCHANGED <<at, entries, failures, runs>>

\* enter_once_block, on entry and after each wakeup: skip the block, execute
\* it, or wait for the thread that does.
enter_once_block(t) ==
    /\ standing[t] = "enter"
    /\ CASE status[at[t]] = "initialized" -> GoTo(t, "idle") /\ UNCHANGED status
         [] status[at[t]] = "uninitialized" ->
               SetStatus(at[t], "being_initialized") /\ GoTo(t, "body")
         [] status[at[t]] = "being_initialized" -> GoTo(t, "wait") /\ UNCHANGED status
    /\ UNCHANGED <<at, entries, failures, runs>>

\* The block ran to its end.  The threads that wait are notified later, with
\* the mutex released.
commit(t) ==
    /\ standing[t] = "body"
    /\ SetStatus(at[t], "initialized")
    /\ runs' = [runs EXCEPT ![at[t]] = @ + 1]
    /\ GoTo(t, "broadcast")
    /\ UNCHANGED <<at, entries, failures>>

\* Mutant: the destructor does not look at the flag, a committed block is
\* rolled back.
RollbackUnchecked(t) ==
    /\ standing[t] \in {"body", "broadcast"}
    /\ failures < MaxFailures
    /\ failures' = failures + 1
    /\ SetStatus(at[t], "uninitialized")
    /\ GoTo(t, "broadcast")
    /\ UNCHANGED <<at, entries, runs>>

\* Mutant: a block that failed is not notified, as nothing is initialized.
RollbackWithoutBroadcast(t) ==
    /\ standing[t] = "body"
    /\ failures < MaxFailures
    /\ failures' = failures + 1
    /\ SetStatus(at[t], "uninitialized")
    /\ GoTo(t, "idle")
    /\ UNCHANGED <<at, entries, runs>>

\* ~once_block_sentry in a block that an exception, break or return left.
rollback(t) ==
    /\ standing[t] = "body"
    /\ failures < MaxFailures
    /\ failures' = failures + 1
    /\ SetStatus(at[t], "uninitialized")
    /\ GoTo(t, "broadcast")
    /\ UNCHANGED <<at, entries, runs>>

\* Mutant: one thread is notified, and it may wait for another flag.
SignalOne(t) ==
    /\ standing[t] = "broadcast"
    /\ \/ \E u \in Threads :
             /\ standing[u] = "wait"
             /\ standing' = [standing EXCEPT ![u] = "enter", ![t] = "idle"]
       \/ (\A u \in Threads : standing[u] # "wait") /\ GoTo(t, "idle")
    /\ UNCHANGED <<status, at, entries, failures, runs>>

\* pthread_cond_broadcast wakes the threads that wait, for whichever flag.
Broadcast(t) ==
    /\ standing[t] = "broadcast"
    /\ standing' = [u \in Threads |-> IF u = t THEN "idle"
                                      ELSE IF standing[u] = "wait" THEN "enter" ELSE standing[u]]
    /\ UNCHANGED <<status, at, entries, failures, runs>>

WakesSpuriously(t) ==
    /\ standing[t] = "wait"
    /\ GoTo(t, "enter")
    /\ UNCHANGED <<status, at, entries, failures, runs>>

OnceNext ==
    \E t \in Threads :
        \/ \E f \in Flags : executed(t, f)
        \/ enter_once_block(t)
        \/ commit(t)
        \/ rollback(t)
        \/ Broadcast(t)
        \/ WakesSpuriously(t)

\* Every thread goes on, and no block runs for ever.
OnceFairness ==
    \A t \in Threads :
        WF_onceVars(enter_once_block(t)) /\ WF_onceVars(commit(t)) /\ WF_onceVars(Broadcast(t))

OnceSpec == OnceInit /\ [][OnceNext]_onceVars
OnceFairSpec == OnceSpec /\ OnceFairness

-------------------------------------------------------------------------------
\* A block runs to its end once at most, in no two threads at a time, and its
\* flag tells so: being_initialized exactly while a thread is inside.
RunsOnce ==
    \A f \in Flags :
        /\ runs[f] = IF status[f] = "initialized" THEN 1 ELSE 0
        /\ \A t, u \in Threads :
              standing[t] = "body" /\ at[t] = f /\ standing[u] = "body" /\ at[u] = f => t = u
        /\ status[f] = "being_initialized"
              <=> \E t \in Threads : standing[t] = "body" /\ at[t] = f

\* Whoever waits for a flag waits for a thread inside the block, or a broadcast
\* is on its way: no wakeup is lost although it comes after the unlock.
NoLostWakeup ==
    \A t \in Threads :
        standing[t] = "wait" => \/ status[at[t]] = "being_initialized"
                                \/ \E u \in Threads : standing[u] = "broadcast"

\* A thread that did not execute the block itself passes it only when some
\* thread has: what the block creates exists.
PassedWhenInitialized ==
    [][\A t \in Threads :
          standing'[t] = "idle" /\ (standing[t] = "enter" \/ entries'[t] # entries[t])
              => status[at'[t]] = "initialized" /\ runs[at'[t]] = 1]_onceVars

\* Blocks that end let everybody past them in the end.
EveryoneReturns == \A t \in Threads : standing[t] # "idle" ~> standing[t] = "idle"
===============================================================================
