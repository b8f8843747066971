---------------------------- MODULE FormattingFrontend --------------------------
(***************************************************************************)
(* basic_formatting_sink_frontend formats a record in the thread that      *)
(* feeds it, before it locks the backend.  Every thread keeps a context    *)
(* with a copy of the formatter and of the locale; a version number, which *)
(* a thread compares without a lock, tells it that its copies are old.     *)
(***************************************************************************)
EXTENDS Integers, FiniteSets

CONSTANTS
    Writers,         \* threads that feed records
    Formatters,
    Locales,
    None,            \* no context, no one
    Versions,        \* the values of m_Version: 2^32 in the code.  A thread that
                     \* feeds no record during as many changes misses them all
    MaxChanges       \* bound: changes of formatter and locale

\* The version does not come back to a value that a context still holds.
ASSUME VersionsSuffice == MaxChanges \in Nat /\ Versions \in Nat /\ MaxChanges < Versions
ASSUME NoneIsNothing ==
    None \notin Writers \cup [version : Nat, formatter : Formatters, locale : Locales]

VARIABLES
    m_Formatter, m_Locale, m_Version,
    ffWriter,        \* whether set_formatter or imbue holds the frontend mutex
    context,         \* m_pContext of each thread: [version, formatter, locale]
    ffAt,            \* where each thread stands
    formatted,       \* the formatter and locale a record was formatted with
    backend,         \* who holds the mutex of the backend, or None
    settled,         \* history: what was in force when the last change returned
    inForce,         \* history: the formatters and locales that were in force
                     \* since the thread has begun to feed its record
    changes          \* history: changes so far

ffVars == <<m_Formatter, m_Locale, m_Version, ffWriter, context, ffAt, formatted, backend,
            settled, inForce, changes>>

Settings == [formatter : Formatters, locale : Locales]
InForce == [formatter |-> m_Formatter, locale |-> m_Locale]

FFStart(settings) ==
    /\ m_Formatter = settings.formatter /\ m_Locale = settings.locale
    /\ m_Version = 0
    /\ ffWriter = FALSE
    /\ context = [t \in Writers |-> None]
    /\ ffAt = [t \in Writers |-> "idle"]
    /\ formatted = [t \in Writers |-> None]
    /\ backend = None
    /\ settled = InForce
    /\ inForce = [t \in Writers |-> {}]
    /\ changes = 0

FFInit == \E settings \in Settings : FFStart(settings)

-------------------------------------------------------------------------------
(* The thread that configures the sink.                                    *)

\* Whatever is in force now counts for the records being fed.
Record(settings) ==
    inForce' = [t \in Writers |-> IF ffAt[t] = "idle" THEN inForce[t] ELSE inForce[t] \cup {settings}]

\* set_formatter and reset_formatter (to the default) under the exclusive lock.
set_formatter(f) ==
    /\ ~ffWriter /\ changes < MaxChanges
    /\ ffWriter' = TRUE
    /\ m_Formatter' = f
    /\ Record([InForce EXCEPT !.formatter = f])
    /\ changes' = changes + 1
    /\ UNCHANGED <<m_Locale, m_Version, context, ffAt, formatted, backend, settled>>

imbue(loc) ==
    /\ ~ffWriter /\ changes < MaxChanges
    /\ ffWriter' = TRUE
    /\ m_Locale' = loc
    /\ Record([InForce EXCEPT !.locale = loc])
    /\ changes' = changes + 1
    /\ UNCHANGED <<m_Formatter, m_Version, context, ffAt, formatted, backend, settled>>

\* Mutant: the version stays what it was.
UnlockOnly ==
    /\ ffWriter
    /\ ffWriter' = FALSE
    /\ settled' = InForce
    /\ UNCHANGED <<m_Formatter, m_Locale, m_Version, context, ffAt, formatted, backend, inForce, changes>>

\* ++m_Version, and the lock is released.
NewVersion ==
    /\ ffWriter
    /\ m_Version' = (m_Version + 1) % Versions
    /\ ffWriter' = FALSE
    /\ settled' = InForce
    /\ UNCHANGED <<m_Formatter, m_Locale, context, ffAt, formatted, backend, inForce, changes>>

-------------------------------------------------------------------------------
(* feed_record and try_feed_record.                                        *)
Step(t, place) == ffAt' = [ffAt EXCEPT ![t] = place]

\* feed_record starts, or try_feed_record has locked the backend; it gives up
\* if the backend is locked.
begin_feed(t) ==
    /\ ffAt[t] = "idle"
    /\ inForce' = [inForce EXCEPT ![t] = {settled, InForce}]
    /\ Step(t, "check")
    /\ UNCHANGED <<m_Formatter, m_Locale, m_Version, ffWriter, context, formatted, backend, settled, changes>>

begin_try(t) ==
    /\ ffAt[t] = "idle" /\ backend = None
    /\ backend' = t
    /\ inForce' = [inForce EXCEPT ![t] = {settled, InForce}]
    /\ Step(t, "check")
    /\ UNCHANGED <<m_Formatter, m_Locale, m_Version, ffWriter, context, formatted, settled, changes>>

\* The comparison of the versions, which takes no lock.
CheckVersion(t) ==
    /\ ffAt[t] = "check"
    /\ Step(t, IF context[t] = None THEN "renew"
               ELSE IF context[t].version # m_Version THEN "renew" ELSE "format")
    /\ UNCHANGED <<m_Formatter, m_Locale, m_Version, ffWriter, context, formatted, backend, settled, inForce, changes>>

\* A new context, under the shared lock.
RenewContext(t) ==
    /\ ffAt[t] = "renew" /\ ~ffWriter
    /\ context' = [context EXCEPT ![t] =
                      [version |-> m_Version, formatter |-> m_Formatter, locale |-> m_Locale]]
    /\ Step(t, "format")
    /\ UNCHANGED <<m_Formatter, m_Locale, m_Version, ffWriter, formatted, backend, settled, inForce, changes>>

\* The formatter runs, or throws.
Format(t) ==
    /\ ffAt[t] = "format"
    /\ \/ /\ formatted' = [formatted EXCEPT ![t] =
                             [formatter |-> context[t].formatter, locale |-> context[t].locale]]
          /\ Step(t, "lock backend")
       \/ Step(t, "handle") /\ UNCHANGED formatted
    /\ UNCHANGED <<m_Formatter, m_Locale, m_Version, ffWriter, context, backend, settled, inForce, changes>>

\* consume of the backend under its mutex, which may throw; feed_record has then
\* released the mutex, try_feed_record has not.
LockBackend(t) ==
    /\ ffAt[t] = "lock backend"
    /\ backend \in {None, t}
    /\ backend' = t
    /\ Step(t, IF backend = t THEN "consume in try" ELSE "consume")
    /\ UNCHANGED <<m_Formatter, m_Locale, m_Version, ffWriter, context, formatted, settled, inForce, changes>>

Consume(t) ==
    /\ ffAt[t] \in {"consume", "consume in try"}
    /\ \/ /\ Step(t, "idle")
          /\ backend' = None
          /\ formatted' = [formatted EXCEPT ![t] = None]
       \/ /\ Step(t, "handle")
          /\ backend' = IF ffAt[t] = "consume" THEN None ELSE t
          /\ UNCHANGED formatted
    /\ UNCHANGED <<m_Formatter, m_Locale, m_Version, ffWriter, context, settled, inForce, changes>>

\* The exception handler, or none, under the shared lock; either way the call
\* ends, and with try_feed_record's the lock on the backend.
HandleException(t) ==
    /\ ffAt[t] = "handle" /\ ~ffWriter
    /\ Step(t, "idle")
    /\ backend' = IF backend = t THEN None ELSE backend
    /\ formatted' = [formatted EXCEPT ![t] = None]
    /\ UNCHANGED <<m_Formatter, m_Locale, m_Version, ffWriter, context, settled, inForce, changes>>

FeedStep(t) ==
    \/ begin_feed(t) \/ begin_try(t)
    \/ CheckVersion(t) \/ RenewContext(t)
    \/ Format(t) \/ LockBackend(t) \/ Consume(t) \/ HandleException(t)

FFNext ==
    \/ \E f \in Formatters : set_formatter(f)
    \/ \E loc \in Locales : imbue(loc)
    \/ NewVersion
    \/ \E t \in Writers : FeedStep(t)

FFSpec == FFInit /\ [][FFNext]_ffVars

-------------------------------------------------------------------------------
\* A record that reaches the backend was formatted with a formatter and a locale
\* that belonged together and were in force at some time during the call; so
\* once set_formatter or imbue has returned, every call that begins later uses
\* the new ones, whatever the contexts of the threads hold.
FormattedAsConfigured ==
    \A t \in Writers : ffAt[t] \in {"consume", "consume in try"} => formatted[t] \in inForce[t]
===============================================================================
