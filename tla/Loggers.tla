-------------------------------- MODULE Loggers ---------------------------------
(***************************************************************************)
(* Loggers composed of the features severity, channel and                  *)
(* exception_handler, used by several threads: log statements with named   *)
(* arguments, which nest when the message of one of them calls a function  *)
(* that logs; the setter of the channel; swap, assignment and the          *)
(* attribute sets.  The severity level is one integer per thread, which    *)
(* the attribute reads when it is asked for its value; the channel is a    *)
(* cell, mutable_constant::impl, that copies of a logger share.            *)
(* multi_thread_model is a boost::shared_mutex: a thread that waits for    *)
(* exclusive ownership keeps new readers out.                              *)
(***************************************************************************)
EXTENDS Integers, FiniteSets, SequencesExt

CONSTANTS
    Callers,
    Addresses,       \* loggers, by address: multiple_unique_lock2 compares them
    Arguments,       \* what statements name: [severity, channel], a channel may be NoOne
    NoOne,           \* no one, no channel named
    ChannelFeatures, \* {TRUE}, {FALSE} or both: whether loggers have that feature
    MaxNesting,      \* bound: log statements inside one another
    MaxLoggerCalls   \* bound: calls of all threads

ASSUME LoggerAssumptions ==
    /\ NoOne \notin Callers \cup Addresses /\ ChannelFeatures \subseteq BOOLEAN
    /\ \E a \in Arguments : a.channel # NoOne

\* There is a highest address.
ASSUME AddressAssumption ==
    Addresses \subseteq Nat /\ \E highest \in Addresses : \A l \in Addresses : l <= highest

VARIABLES
    ChannelFeature,  \* whether the loggers have the channel feature
    mutex_of,        \* the mutex of each logger: [exclusive, shared, barrier]
    m_ChannelAttr,   \* the cell of each logger
    m_Attributes,    \* the cell in its attribute set, or NoOne
    m_Value,         \* the channel in each cell
    g_Severity,      \* the severity level of each thread
    frames,          \* the calls a thread is in, the innermost last
    recorded,        \* the record that the last step fed a sink with, or NoOne
    threw,           \* history: open_record of the core has thrown
    loggerCalls      \* history: calls so far

lgVars == <<ChannelFeature, mutex_of, m_ChannelAttr, m_Attributes, m_Value, g_Severity, frames, recorded, threw, loggerCalls>>
cells == <<ChannelFeature, m_ChannelAttr, m_Attributes, m_Value>>

Channels == {a.channel : a \in Arguments} \ {NoOne}
AnArgument == CHOOSE a \in Arguments : a.channel # NoOne

LGStart(feature) ==
    /\ ChannelFeature = feature
    /\ mutex_of = [l \in Addresses |-> [exclusive |-> NoOne, shared |-> <<>>, barrier |-> FALSE]]
    /\ m_ChannelAttr = [l \in Addresses |-> l]
    /\ m_Attributes = [l \in Addresses |-> IF ChannelFeature THEN l ELSE NoOne]
    /\ m_Value = [l \in Addresses |-> AnArgument.channel]
    /\ g_Severity = [t \in Callers |-> AnArgument.severity]
    /\ frames = [t \in Callers |-> <<>>]
    /\ recorded = NoOne
    /\ threw = FALSE
    /\ loggerCalls = 0

LGInit == \E feature \in ChannelFeatures : LGStart(feature)

NothingRecorded == recorded' = NoOne

Top(t) == frames[t][Len(frames[t])]
At(t, place) == frames[t] # <<>> /\ Top(t).at = place
GoOn(t, place) == frames' = [frames EXCEPT ![t][Len(frames[t])].at = place]
LeaveCall(t) == frames' = [frames EXCEPT ![t] = SubSeq(@, 1, Len(@) - 1)]
Enter(t, call) ==
    /\ loggerCalls < MaxLoggerCalls /\ loggerCalls' = loggerCalls + 1
    /\ frames' = [frames EXCEPT ![t] = Append(@, call)]
    /\ UNCHANGED <<mutex_of, cells, g_Severity, threw>> /\ NothingRecorded

-------------------------------------------------------------------------------
(* The mutex of a logger.                                                  *)

CanLock(l) == mutex_of[l].exclusive = NoOne /\ mutex_of[l].shared = <<>>
CanShare(l) == mutex_of[l].exclusive = NoOne /\ ~mutex_of[l].barrier

\* exclusive_lock_guard: whoever waits raises the barrier against new readers,
\* once, and sleeps until the mutex is free.
exclusive_lock(t, l) ==
    /\ CanLock(l) \/ ~mutex_of[l].barrier
    /\ mutex_of' = [mutex_of EXCEPT ![l] = IF CanLock(l) THEN [@ EXCEPT !.exclusive = t]
                                          ELSE [@ EXCEPT !.barrier = TRUE]]
Locked(t, l) == mutex_of'[l].exclusive = t

lock_shared(t, l) ==
    /\ CanShare(l)
    /\ mutex_of' = [mutex_of EXCEPT ![l].shared = Append(@, t)]

\* The last reader and a writer lower the barrier.
WithoutReader(m, t) ==
    LET rest == RemoveAt(m.shared, CHOOSE j \in DOMAIN m.shared : m.shared[j] = t)
    IN  [m EXCEPT !.shared = rest, !.barrier = @ /\ rest # <<>>]
WithoutWriter(m) == [m EXCEPT !.exclusive = NoOne, !.barrier = FALSE]

Holds(t, l) == mutex_of[l].exclusive = t \/ \E i \in DOMAIN mutex_of[l].shared : mutex_of[l].shared[i] = t
Unlocked(t, l) == IF mutex_of[l].exclusive = t THEN WithoutWriter(mutex_of[l]) ELSE WithoutReader(mutex_of[l], t)
release_lock(t, l) == mutex_of' = [mutex_of EXCEPT ![l] = Unlocked(t, l)]

-------------------------------------------------------------------------------
(* A log statement.                                                        *)
log(t) ==
    \E l \in Addresses, a \in Arguments :
        /\ frames[t] = <<>> \/ (At(t, "message") /\ Len(frames[t]) < MaxNesting)
        /\ Enter(t, [at |-> "open", l |-> l, severity |-> a.severity,
                     channel |-> IF ChannelFeature THEN a.channel ELSE NoOne,
                     read |-> NoOne, alone |-> FALSE, nested |-> FALSE])

\* Mutant: a lock of the basic logger is enough for the channel feature.
OpenShared(t) ==
    /\ At(t, "open")
    /\ lock_shared(t, Top(t).l)
    /\ GoOn(t, "set")
    /\ UNCHANGED <<cells, g_Severity, threw, loggerCalls>> /\ NothingRecorded

\* open_record takes the strictest lock of the features: the channel feature
\* needs an exclusive one, basic_logger a shared one.
open_record_lock(t) ==
    /\ At(t, "open")
    /\ IF ChannelFeature THEN exclusive_lock(t, Top(t).l) ELSE lock_shared(t, Top(t).l)
    /\ IF ChannelFeature /\ ~Locked(t, Top(t).l) THEN UNCHANGED frames ELSE GoOn(t, "set")
    /\ UNCHANGED <<cells, g_Severity, threw, loggerCalls>> /\ NothingRecorded

\* Whether the statement's logger is the only one that sets the cell it reads,
\* the copies in assignments under way included.
Assigning(u) == (At(u, "lock") \/ At(u, "change")) /\ Top(u).op = "assign"
Alone(l) ==
    /\ m_Attributes[l] = m_ChannelAttr[l]
    /\ \A k \in Addresses \ {l} : m_ChannelAttr[k] # m_ChannelAttr[l]
    /\ \A u \in Callers : Assigning(u) => Top(u).cell # m_ChannelAttr[l]

\* The statements whose messages this one is in will be nested ones.
Opening(t) ==
    frames' = [frames EXCEPT ![t] = [i \in DOMAIN @ |->
                 IF i < Len(@) THEN [frames[t][i] EXCEPT !.nested = TRUE]
                 ELSE [frames[t][i] EXCEPT !.at = "core", !.alone = Alone(Top(t).l)]]]

\* Mutant: the severity level is one for all threads.
OneSeverity(t) ==
    /\ At(t, "set")
    /\ g_Severity' = [u \in Callers |-> Top(t).severity]
    /\ m_Value' = IF Top(t).channel = NoOne THEN m_Value
                  ELSE [m_Value EXCEPT ![m_ChannelAttr[Top(t).l]] = Top(t).channel]
    /\ Opening(t)
    /\ UNCHANGED <<ChannelFeature, mutex_of, m_ChannelAttr, m_Attributes, threw, loggerCalls>> /\ NothingRecorded

\* The features store the named arguments into their attributes.
open_record_unlocked(t) ==
    /\ At(t, "set")
    /\ g_Severity' = [g_Severity EXCEPT ![t] = Top(t).severity]
    /\ m_Value' = IF Top(t).channel = NoOne THEN m_Value
                  ELSE [m_Value EXCEPT ![m_ChannelAttr[Top(t).l]] = Top(t).channel]
    /\ Opening(t)
    /\ UNCHANGED <<ChannelFeature, mutex_of, m_ChannelAttr, m_Attributes, threw, loggerCalls>> /\ NothingRecorded

\* open_record of the core (see Core): a record, which keeps the channel and the
\* severity attribute as they are now, none, or an exception.
OpenInCore(t) ==
    /\ At(t, "core")
    /\ LET n == Len(frames[t])  cell == m_Attributes[Top(t).l] IN
       \/ /\ release_lock(t, Top(t).l)
          /\ \/ frames' = [frames EXCEPT ![t][n].at = "message",
                                         ![t][n].read = IF cell = NoOne THEN NoOne ELSE m_Value[cell]]
             \/ LeaveCall(t)
          /\ UNCHANGED threw
       \/ threw' = TRUE /\ GoOn(t, "handle_open") /\ UNCHANGED mutex_of
    /\ UNCHANGED <<cells, g_Severity, loggerCalls>> /\ NothingRecorded

\* The destructor of the record_pump pushes the record, unless the message threw.
\* push_record needs no lock; the sinks read the severity now, and may throw.
pump_record(t) ==
    /\ At(t, "message")
    /\ \/ recorded' = [opened |-> [severity |-> Top(t).severity, channel |-> Top(t).channel],
                      seen |-> [severity |-> g_Severity[t], channel |-> Top(t).read],
                      alone |-> Top(t).alone, nested |-> Top(t).nested]
          /\ LeaveCall(t)
       \/ GoOn(t, "handle_push") /\ NothingRecorded
       \/ LeaveCall(t) /\ NothingRecorded
    /\ UNCHANGED <<mutex_of, cells, g_Severity, threw, loggerCalls>>

\* handle_exception of the exception_handler feature looks at push_record_lock,
\* which is no_lock: it locks in open_record too.
handle_exception(t) ==
    /\ At(t, "handle_open") \/ At(t, "handle_push")
    /\ lock_shared(t, Top(t).l)
    /\ GoOn(t, IF Top(t).at = "handle_open" THEN "handled_in_open" ELSE "handled_in_push")
    /\ UNCHANGED <<cells, g_Severity, threw, loggerCalls>> /\ NothingRecorded

\* The handler is called, or there is none and the exception goes on: both locks
\* of open_record, which are shared ones here, are released.
Handled(t) ==
    LET l == Top(t).l IN
    /\ \/ At(t, "handled_in_push") /\ mutex_of' = [mutex_of EXCEPT ![l] = WithoutReader(@, t)]
       \/ /\ At(t, "handled_in_open")
          /\ mutex_of' = [mutex_of EXCEPT ![l] = WithoutReader(WithoutReader(@, t), t)]
    /\ LeaveCall(t)
    /\ UNCHANGED <<cells, g_Severity, threw, loggerCalls>> /\ NothingRecorded

-------------------------------------------------------------------------------
(* Calls that change a logger.                                             *)
ChangeLogger(t) ==
    /\ frames[t] = <<>>
    /\ \E l \in Addresses :
       \/ \E ch \in Channels : ChannelFeature /\ Enter(t, [at |-> "lock", op |-> "channel", l |-> l, channel |-> ch])
       \/ Enter(t, [at |-> "lock", op |-> "remove_all_attributes", l |-> l])
       \/ \E k \in Addresses \ {l} :
             \/ Enter(t, [at |-> "copy", op |-> "assign", l |-> l, from |-> k, cell |-> NoOne, set |-> NoOne])
             \/ Enter(t, [at |-> "get", op |-> "set_attributes", l |-> l, from |-> k, set |-> NoOne])
             \/ Enter(t, [at |-> "lock_first", op |-> "swap", l |-> l, from |-> k])

\* get_attributes, and the copy that assign makes, under the shared lock of the
\* source, which is released before the target is locked.
GetAttributes(t) ==
    /\ At(t, "get") /\ lock_shared(t, Top(t).from) /\ GoOn(t, "got")
    /\ UNCHANGED <<cells, g_Severity, threw, loggerCalls>> /\ NothingRecorded
Got(t) ==
    /\ At(t, "got") /\ release_lock(t, Top(t).from)
    /\ frames' = [frames EXCEPT ![t][1].at = "lock", ![t][1].set = m_Attributes[Top(t).from]]
    /\ UNCHANGED <<cells, g_Severity, threw, loggerCalls>> /\ NothingRecorded
CopyLogger(t) ==
    /\ At(t, "copy") /\ lock_shared(t, Top(t).from) /\ GoOn(t, "copied")
    /\ UNCHANGED <<cells, g_Severity, threw, loggerCalls>> /\ NothingRecorded
\* The copy of a logger adds its channel attribute unless the set has one.
Copied(t) ==
    /\ At(t, "copied") /\ release_lock(t, Top(t).from)
    /\ LET c == m_ChannelAttr[Top(t).from]  a == m_Attributes[Top(t).from] IN
       frames' = [frames EXCEPT ![t][1].at = "lock", ![t][1].cell = c, ![t][1].set = IF a = NoOne THEN c ELSE a]
    /\ UNCHANGED <<cells, g_Severity, threw, loggerCalls>> /\ NothingRecorded

LockToChange(t) ==
    /\ At(t, "lock")
    /\ exclusive_lock(t, Top(t).l)
    /\ IF Locked(t, Top(t).l) THEN GoOn(t, "change") ELSE UNCHANGED frames
    /\ UNCHANGED <<cells, g_Severity, threw, loggerCalls>> /\ NothingRecorded

Apply(t) ==
    /\ At(t, "change")
    /\ LET f == Top(t) IN
       /\ m_Value' = IF f.op = "channel" THEN [m_Value EXCEPT ![m_ChannelAttr[f.l]] = f.channel] ELSE m_Value
       /\ m_Attributes' = IF f.op = "remove_all_attributes" THEN [m_Attributes EXCEPT ![f.l] = NoOne]
                          ELSE IF f.op \in {"assign", "set_attributes"} THEN [m_Attributes EXCEPT ![f.l] = f.set]
                          ELSE m_Attributes
       /\ m_ChannelAttr' = IF f.op = "assign" THEN [m_ChannelAttr EXCEPT ![f.l] = f.cell] ELSE m_ChannelAttr
    /\ release_lock(t, Top(t).l)
    /\ LeaveCall(t)
    /\ UNCHANGED <<ChannelFeature, g_Severity, threw, loggerCalls>> /\ NothingRecorded

\* Mutant: in the order of the arguments.
FirstArgument(f) == f.l

\* multiple_unique_lock2 locks the logger with the lower address first.
First(f) == IF f.l < f.from THEN f.l ELSE f.from

Second(f) == IF First(f) = f.l THEN f.from ELSE f.l

LockBoth(t) ==
    LET f == Top(t)
        a == First(f)
        b == Second(f)
        m == IF At(t, "lock_first") THEN a ELSE b
    IN  /\ At(t, "lock_first") \/ At(t, "lock_second")
        /\ exclusive_lock(t, m)
        /\ IF Locked(t, m) THEN GoOn(t, IF m = a THEN "lock_second" ELSE "swap") ELSE UNCHANGED frames
        /\ UNCHANGED <<cells, g_Severity, threw, loggerCalls>> /\ NothingRecorded

swap(t) ==
    /\ At(t, "swap")
    /\ LET l == Top(t).l  k == Top(t).from IN
       /\ m_Attributes' = [m_Attributes EXCEPT ![l] = m_Attributes[k], ![k] = m_Attributes[l]]
       /\ m_ChannelAttr' = [m_ChannelAttr EXCEPT ![l] = m_ChannelAttr[k], ![k] = m_ChannelAttr[l]]
       /\ mutex_of' = [mutex_of EXCEPT ![l] = WithoutWriter(@), ![k] = WithoutWriter(@)]
    /\ LeaveCall(t)
    /\ UNCHANGED <<ChannelFeature, m_Value, g_Severity, threw, loggerCalls>> /\ NothingRecorded

-------------------------------------------------------------------------------
\* The steps a thread takes by itself once it is in a call.
LGStep(t) ==
    \/ open_record_lock(t) \/ open_record_unlocked(t) \/ OpenInCore(t) \/ pump_record(t)
    \/ handle_exception(t) \/ Handled(t)
    \/ GetAttributes(t) \/ Got(t) \/ CopyLogger(t) \/ Copied(t)
    \/ LockToChange(t) \/ Apply(t) \/ LockBoth(t) \/ swap(t)

LGNext == \E t \in Callers : log(t) \/ ChangeLogger(t) \/ LGStep(t)

\* Callers run, filters, messages, sinks and handlers return.
LGFairness == \A t \in Callers : WF_lgVars(LGStep(t))
LGSpec == LGInit /\ [][LGNext]_lgVars /\ LGFairness

-------------------------------------------------------------------------------
(* Properties.                                                             *)

\* What the next step of a thread asks for: the logger it wants for itself, or
\* the one it wants to read.
AsksFor(t, l) ==
    \/ At(t, "open") /\ ChannelFeature /\ Top(t).l = l
    \/ At(t, "lock") /\ Top(t).l = l
    \/ At(t, "lock_first") /\ First(Top(t)) = l
    \/ At(t, "lock_second") /\ Second(Top(t)) = l
AsksToRead(t, l) ==
    \/ At(t, "open") /\ ~ChannelFeature /\ Top(t).l = l
    \/ (At(t, "handle_open") \/ At(t, "handle_push")) /\ Top(t).l = l
    \/ (At(t, "get") \/ At(t, "copy")) /\ Top(t).from = l

\* A thread sleeps until another one releases a mutex.
Sleeps(t) ==
    \E l \in Addresses :
        \/ AsksFor(t, l) /\ ~CanLock(l) /\ mutex_of[l].barrier
        \/ AsksToRead(t, l) /\ ~CanShare(l)

\* A sink sees every record with the severity and the channel that its statement
\* named, whatever the other threads log through the same logger, swap or
\* assign - if no statement inside its message has opened a record, and no copy
\* of the logger had its channel attribute when the record was opened.
WrittenAsOpened ==
    recorded # NoOne =>
        /\ ~recorded.nested => recorded.seen.severity = recorded.opened.severity
        /\ (recorded.alone /\ recorded.opened.channel # NoOne) => recorded.seen.channel = recorded.opened.channel

\* Threads in calls of loggers never wait for one another for ever, swaps and
\* assignments of two loggers both ways and nested statements included, unless
\* open_record of the core has thrown.
CallersNeverDeadlock ==
    (\E t \in Callers : frames[t] # <<>>) /\ ~threw => \E t \in Callers : frames[t] # <<>> /\ ~Sleeps(t)

\* "The severity argument passed to the open_record method sets the level of the
\* particular log record being made" (sources.qbk:31), whatever the message does.
SeverityIsOfTheRecord == recorded # NoOne => recorded.seen.severity = recorded.opened.severity


================================================================================
