------------------------------- MODULE LockingPtr -------------------------------
(***************************************************************************)
(* locked_backend() of the sink frontends returns a locking_ptr, which     *)
(* keeps the backend locked while it, or a copy of it, exists.  The first  *)
(* pointer locks the mutex of the backend and the last one unlocks it:     *)
(* locking_ptr_counter_base counts them, in an integer that nothing        *)
(* protects, so that ++ and -- are a load and a store.  A pointer may be    *)
(* handed on, so any of the threads that hold some may destroy it.         *)
(***************************************************************************)
EXTENDS Integers, FiniteSets

CONSTANTS
    Holders,         \* threads that use locked_backend()
    Feeders,         \* threads that feed records to the backend
    Nobody,
    MaxPointers      \* bound: pointers, and values of the counter, when a call begins

ASSUME ThreadsDiffer ==
    /\ Holders \cap Feeders = {} /\ Nobody \notin Holders \cup Feeders
    /\ MaxPointers \in Nat

VARIABLES
    m_RefCounter,    \* negative for what an unsigned int wraps to
    mutex,           \* who locked m_BackendMutex, or Nobody
    lpAt,            \* where each thread stands
    loaded,          \* m_RefCounter as the thread loaded it
    pointers,        \* how many locking_ptrs there are
    collided         \* history: have two holders been in a constructor or
                     \* destructor of a pointer at the same time?

lpVars == <<m_RefCounter, mutex, lpAt, loaded, pointers, collided>>

LPInit ==
    /\ m_RefCounter = 0
    /\ mutex = Nobody
    /\ lpAt = [t \in Holders \cup Feeders |-> "idle"]
    /\ loaded = [t \in Holders |-> 0]
    /\ pointers = 0
    /\ collided = FALSE

Goes(t, place) == lpAt' = [lpAt EXCEPT ![t] = place]

\* A holder begins to make or destroy a pointer, as long as the counter, which
\* collisions change, is within the bound.
Begins(t) ==
    /\ lpAt[t] = "idle" /\ m_RefCounter \in -MaxPointers..MaxPointers
    /\ collided' = (collided \/ \E u \in Holders \ {t} : lpAt[u] # "idle")

\* The constructor: a counter that is not 0 means that the mutex is locked.
construct(t) ==
    /\ Begins(t) /\ pointers < MaxPointers
    /\ Goes(t, IF m_RefCounter = 0 THEN "lock" ELSE "loadToAdd")
    /\ UNCHANGED <<m_RefCounter, mutex, loaded, pointers>>

lock(t) ==
    /\ lpAt[t] = "lock" /\ mutex = Nobody
    /\ mutex' = t
    /\ Goes(t, "loadToAdd")
    /\ UNCHANGED <<m_RefCounter, loaded, pointers, collided>>

\* The constructor with try_lock: the pointer is null if the mutex is taken.
try_construct(t) ==
    /\ Begins(t) /\ pointers < MaxPointers
    /\ Goes(t, IF m_RefCounter # 0 THEN "loadToAdd" ELSE "try")
    /\ UNCHANGED <<m_RefCounter, mutex, loaded, pointers>>

try_lock(t) ==
    /\ lpAt[t] = "try"
    /\ IF mutex = Nobody THEN mutex' = t /\ Goes(t, "loadToAdd")
       ELSE Goes(t, "idle") /\ UNCHANGED mutex
    /\ UNCHANGED <<m_RefCounter, loaded, pointers, collided>>

\* Mutant: the copy is not counted.
CopyUncounted(t) ==
    /\ Begins(t) /\ pointers \in 1..MaxPointers - 1
    /\ pointers' = pointers + 1
    /\ UNCHANGED <<m_RefCounter, mutex, lpAt, loaded>>

\* The copy constructor; assignment swaps with a copy and destroys it.
copy_pointer(t) ==
    /\ Begins(t) /\ pointers \in 1..MaxPointers - 1
    /\ Goes(t, "loadToAdd")
    /\ UNCHANGED <<m_RefCounter, mutex, loaded, pointers>>

\* The destructor.
destruct(t) ==
    /\ Begins(t) /\ pointers > 0
    /\ pointers' = pointers - 1
    /\ Goes(t, "loadToSubtract")
    /\ UNCHANGED <<m_RefCounter, mutex, loaded>>

Load(t) ==
    /\ loaded' = [loaded EXCEPT ![t] = m_RefCounter]
    /\ \/ lpAt[t] = "loadToAdd" /\ Goes(t, "add")
       \/ lpAt[t] = "loadToSubtract" /\ Goes(t, "subtract")
    /\ UNCHANGED <<m_RefCounter, mutex, pointers, collided>>

Add(t) ==
    /\ lpAt[t] = "add"
    /\ m_RefCounter' = loaded[t] + 1
    /\ pointers' = pointers + 1
    /\ Goes(t, "idle")
    /\ UNCHANGED <<mutex, loaded, collided>>

Subtract(t) ==
    /\ lpAt[t] = "subtract"
    /\ m_RefCounter' = loaded[t] - 1
    /\ Goes(t, IF loaded[t] = 1 THEN "unlock" ELSE "idle")
    /\ UNCHANGED <<mutex, loaded, pointers, collided>>

unlock(t) ==
    /\ lpAt[t] = "unlock"
    /\ mutex' = Nobody
    /\ Goes(t, "idle")
    /\ UNCHANGED <<m_RefCounter, loaded, pointers, collided>>

\* A record is fed, or the backend flushed, under the mutex.
feed(t) ==
    /\ lpAt[t] = "idle" /\ mutex = Nobody
    /\ mutex' = t
    /\ Goes(t, "fed")
    /\ UNCHANGED <<m_RefCounter, loaded, pointers, collided>>

fed(t) ==
    /\ lpAt[t] = "fed"
    /\ mutex' = Nobody
    /\ Goes(t, "idle")
    /\ UNCHANGED <<m_RefCounter, loaded, pointers, collided>>

Hold(t) ==
    \/ construct(t) \/ try_construct(t) \/ lock(t) \/ try_lock(t)
    \/ copy_pointer(t) \/ destruct(t)
    \/ Load(t) \/ Add(t) \/ Subtract(t) \/ unlock(t)

LPNext ==
    \/ \E t \in Holders : Hold(t)
    \/ \E t \in Feeders : feed(t) \/ fed(t)

LPSpec == LPInit /\ [][LPNext]_lpVars

-------------------------------------------------------------------------------
\* "as long as it exists the backend is locked": while there is a pointer to the
\* backend no thread feeds it, and when the last one is gone the mutex is free
\* again.  So it is however the threads share the pointers, copy them and destroy
\* them, until two of them are in a constructor or a destructor at once: both may
\* find the counter 0 or load the same one.
LockedWhilePointed ==
    ~collided =>
        /\ pointers > 0 => mutex \in Holders /\ \A f \in Feeders : lpAt[f] # "fed"
        /\ mutex \in Holders => pointers > 0 \/ \E t \in Holders : lpAt[t] # "idle"

\* The same as the documentation promises it (tutorial.qbk:100), for any threads.
AlwaysLockedWhilePointed == pointers > 0 => mutex \in Holders /\ \A f \in Feeders : lpAt[f] # "fed"
===============================================================================
