------------------------------ MODULE Parts_proofs ------------------------------
(***************************************************************************)
(* Proofs about the parts of the library that hold their state by          *)
(* themselves, one section for each part.                                  *)
(***************************************************************************)
EXTENDS AttributeNames, FormattingFrontend, LockingPtr, OrderingQueue, CollectorRepository,
        OnceBlock, FileNamePattern, RotationTimePoint, TextFileBackend, SequenceLemmas, FiniteSetTheorems

-------------------------------------------------------------------------------
(* The attribute name repository: any number of threads can register any   *)
(* names, and it gives one identifier to each.                             *)

\* The node of the name that was registered i-th.
NodeAt(i) == [id |-> i - 1, name |-> m_NodeList[i]]

\* The tree holds the nodes of the list, and no name is in the list twice;
\* whatever the program was given is a node.
Registered ==
    /\ m_NodeList \in Seq(Names)
    /\ asks \in [Users -> Names \cup {Absent}]
    /\ m_NodeSet = {NodeAt(i) : i \in 1..Len(m_NodeList)}
    /\ \A i, j \in 1..Len(m_NodeList) : m_NodeList[i] = m_NodeList[j] => i = j
    /\ given \subseteq m_NodeSet
    /\ named \subseteq given

\* A name that no node has is added as the last of the list, behind nodes that
\* stay what they are.
LEMMA AddingKeepsNodes ==
    ASSUME Registered, NEW name \in Names, NodesOf(name) = {}, AddNode(name)
    PROVE  /\ m_NodeList' \in Seq(Names)
           /\ m_NodeSet' = {NodeAt(i)' : i \in 1..Len(m_NodeList')}
           /\ \A i, j \in 1..Len(m_NodeList') : m_NodeList'[i] = m_NodeList'[j] => i = j
           /\ given' \subseteq m_NodeSet'
           /\ given \subseteq given'
  <1> DEFINE k == Len(m_NodeList)
  <1>1. m_NodeList' = Append(m_NodeList, name)  BY DEF AddNode
  <1>2. m_NodeList \in Seq(Names) /\ k \in Nat  BY DEF Registered
  <1>3. m_NodeList' \in Seq(Names) /\ Len(m_NodeList') = k + 1
    BY <1>1, <1>2
  <1>4. /\ \A i \in 1..k : m_NodeList'[i] = m_NodeList[i]
        /\ m_NodeList'[k + 1] = name
    BY <1>1, <1>2
  <1>5. \A i \in 1..k : m_NodeList[i] # name
    <2>1. SUFFICES ASSUME NEW i \in 1..k, m_NodeList[i] = name PROVE FALSE
      OBVIOUS
    <2>2. NodeAt(i) \in m_NodeSet  BY <2>1 DEF Registered
    <2>3. NodeAt(i).name = name  BY <2>1 DEF NodeAt
    <2>. QED  BY <2>2, <2>3 DEF NodesOf
  <1>6. \A i, j \in 1..Len(m_NodeList') : m_NodeList'[i] = m_NodeList'[j] => i = j
    <2>1. \A i \in 1..k + 1 : i \in 1..k \/ i = k + 1  BY <1>2
    <2>. QED  BY <1>3, <1>4, <1>5, <2>1 DEF Registered
  <1>7. m_NodeSet' = {NodeAt(i)' : i \in 1..Len(m_NodeList')}
    <2>1. m_NodeSet' = m_NodeSet \cup {[id |-> k, name |-> name]}  BY DEF AddNode
    <2>2. \A i \in 1..k : NodeAt(i)' = NodeAt(i)  BY <1>4 DEF NodeAt
    <2>3. \A i : i = k + 1 => NodeAt(i)' = [id |-> k, name |-> name]
      BY <1>2, <1>4 DEF NodeAt
    <2>4. \A i : i \in 1..Len(m_NodeList') <=> i \in 1..k \/ i = k + 1
      BY <1>2, <1>3
    <2>5. m_NodeSet = {NodeAt(i) : i \in 1..k}  BY DEF Registered
    <2>. HIDE DEF k
    <2>6. \A n : n \in {NodeAt(i)' : i \in 1..Len(m_NodeList')}
                 <=> n \in m_NodeSet \/ n = [id |-> k, name |-> name]
      BY <2>2, <2>3, <2>4, <2>5
    <2>. QED  BY <2>1, <2>6
  <1>8. given' \subseteq m_NodeSet' /\ given \subseteq given'
    BY DEF AddNode, Registered
  <1>. QED  BY <1>3, <1>6, <1>7, <1>8

\* Nodes that are named alike are the same node, and so are those with one
\* identifier.
LEMMA NodesDiffer ==
    ASSUME Registered
    PROVE  \A m, n \in m_NodeSet : m.id = n.id <=> m.name = n.name
  <1>1. SUFFICES ASSUME NEW m \in m_NodeSet, NEW n \in m_NodeSet
                 PROVE  m.id = n.id <=> m.name = n.name
    OBVIOUS
  <1>2. PICK i \in 1..Len(m_NodeList) : m = NodeAt(i)  BY <1>1 DEF Registered
  <1>3. PICK j \in 1..Len(m_NodeList) : n = NodeAt(j)  BY <1>1 DEF Registered
  <1>4. m.id = i - 1 /\ n.id = j - 1  BY <1>2, <1>3 DEF NodeAt
  <1>5. m.name = m_NodeList[i] /\ n.name = m_NodeList[j]  BY <1>2, <1>3 DEF NodeAt
  <1>6. m_NodeList[i] = m_NodeList[j] <=> i = j  BY <1>2, <1>3 DEF Registered
  <1>. QED  BY <1>4, <1>5, <1>6

LEMMA RegisteredInit == ANInit => Registered
  <1>1. SUFFICES ASSUME ANInit PROVE Registered  OBVIOUS
  <1>2. m_NodeList = <<>> /\ m_NodeList \in Seq(Names) /\ 1..Len(m_NodeList) = {}
    BY <1>1 DEF ANInit
  <1>. QED  BY <1>1, <1>2 DEF ANInit, Registered

LEMMA RegisteredStep == Registered /\ [ANNext]_anVars => Registered'
  <1>1. SUFFICES ASSUME Registered, [ANNext]_anVars PROVE Registered'  OBVIOUS
  <1>2. CASE UNCHANGED anVars  BY <1>1, <1>2 DEF anVars, Registered, NodeAt
  <1>3. ASSUME NEW u \in Users, find_id(u) PROVE Registered'
    <2>1. PICK name \in Names :
             /\ IF NodesOf(name) # {}
                THEN (\E n \in NodesOf(name) : given' = given \cup {n}) /\ UNCHANGED asks
                ELSE asks' = [asks EXCEPT ![u] = name] /\ UNCHANGED given
             /\ UNCHANGED <<m_NodeList, m_NodeSet, named>>
      BY <1>3 DEF find_id
    <2>2. asks' \in [Users -> Names \cup {Absent}]  BY <1>1, <2>1 DEF Registered
    <2>3. given' \subseteq m_NodeSet' /\ named' \subseteq given'
      BY <1>1, <2>1 DEF Registered, NodesOf
    <2>4. m_NodeSet' = {NodeAt(i)' : i \in 1..Len(m_NodeList')}
      BY <1>1, <2>1 DEF Registered, NodeAt
    <2>. QED  BY <1>1, <2>1, <2>2, <2>3, <2>4 DEF Registered
  <1>4. ASSUME NEW u \in Users, register(u) PROVE Registered'
    <2>1. asks[u] \in Names /\ asks' \in [Users -> Names \cup {Absent}]
      BY <1>1, <1>4 DEF Registered, register
    <2>2. CASE NodesOf(asks[u]) = {}
      <3>1. AddNode(asks[u])  BY <1>4, <2>2 DEF register
      <3>2. UNCHANGED named  BY <1>4 DEF register
      <3>. QED  BY <1>1, <2>1, <2>2, <3>1, <3>2, AddingKeepsNodes DEF Registered
    <2>3. CASE NodesOf(asks[u]) # {}
      <3>1. /\ \E n \in NodesOf(asks[u]) : given' = given \cup {n}
            /\ UNCHANGED <<m_NodeList, m_NodeSet, named>>
        BY <1>4, <2>3 DEF register
      <3>2. given' \subseteq m_NodeSet' /\ named' \subseteq given'
        BY <1>1, <3>1 DEF Registered, NodesOf
      <3>3. m_NodeSet' = {NodeAt(i)' : i \in 1..Len(m_NodeList')}
        BY <1>1, <3>1 DEF Registered, NodeAt
      <3>. QED  BY <1>1, <2>1, <3>1, <3>2, <3>3 DEF Registered
    <2>. QED  BY <2>2, <2>3
  <1>5. ASSUME get_string_from_id PROVE Registered'
    <2>1. PICK n \in given :
             /\ named' = named \cup {[id |-> n.id, name |-> m_NodeList[n.id + 1]]}
             /\ UNCHANGED <<m_NodeList, m_NodeSet, asks, given>>
      BY <1>5 DEF get_string_from_id
    <2>2. PICK i \in 1..Len(m_NodeList) : n = NodeAt(i)  BY <1>1, <2>1 DEF Registered
    <2>3. n.id + 1 = i  BY <2>2 DEF NodeAt
    <2>4. [id |-> n.id, name |-> m_NodeList[n.id + 1]] = n  BY <2>2, <2>3 DEF NodeAt
    <2>5. named' \subseteq given'  BY <1>1, <2>1, <2>4 DEF Registered
    <2>6. m_NodeSet' = {NodeAt(j)' : j \in 1..Len(m_NodeList')}
      BY <1>1, <2>1 DEF Registered, NodeAt
    <2>. QED  BY <1>1, <2>1, <2>5, <2>6 DEF Registered
  <1>. QED  BY <1>1, <1>2, <1>3, <1>4, <1>5 DEF ANNext

\* One identifier for each name and one name for each identifier, in whatever
\* order threads look names up and register them under the two locks of
\* get_id_from_string: the second look keeps the list free of duplicates.
THEOREM OneIdentifierPerName == ANSpec => []NamesAndIdsMatch
  <1>1. Registered => NamesAndIdsMatch
    BY NodesDiffer DEF Registered, NamesAndIdsMatch
  <1>. QED  BY <1>1, RegisteredInit, RegisteredStep, PTL DEF ANSpec

-------------------------------------------------------------------------------
(* The formatting frontend.                                                *)

\* The formatter and the locale that a thread has copied.
InContext(t) == [formatter |-> context[t].formatter, locale |-> context[t].locale]

\* The version counts the completed changes, and does not come round.
VersionCounts ==
    /\ changes \in 0..MaxChanges
    /\ ffWriter \in BOOLEAN
    /\ m_Version = (IF ffWriter THEN changes - 1 ELSE changes)
    /\ m_Version \in Nat
    /\ ~ffWriter => settled = InForce

\* A context with the present version holds what the last completed change left.
ContextsAreOld ==
    /\ context \in [Writers -> {None} \cup [version : Nat, formatter : Formatters, locale : Locales]]
    /\ m_Formatter \in Formatters /\ m_Locale \in Locales
    /\ \A t \in Writers : context[t] # None =>
          /\ context[t].version <= m_Version
          /\ context[t].version = m_Version => InContext(t) = settled

\* What is in force, or was until the change that is going on, has been noted for
\* each thread in a call, and so has what it goes on with.
CallsAreCurrent ==
    /\ ffAt \in [Writers -> {"idle", "check", "renew", "format", "lock backend",
                             "consume", "consume in try", "handle"}]
    /\ inForce \in [Writers -> SUBSET Settings]
    /\ formatted \in [Writers -> {None} \cup Settings]
    /\ \A t \in Writers :
          /\ ffAt[t] # "idle" => settled \in inForce[t] /\ InForce \in inForce[t]
          /\ ffAt[t] = "format" => context[t] # None /\ InContext(t) \in inForce[t]
          /\ ffAt[t] \in {"lock backend", "consume", "consume in try"} => formatted[t] \in inForce[t]

FFInv == VersionCounts /\ ContextsAreOld /\ CallsAreCurrent /\ settled \in Settings

LEMMA FFInvInit == FFInit => FFInv
  <1>1. SUFFICES ASSUME NEW settings \in Settings, FFStart(settings) PROVE FFInv
    BY DEF FFInit
  <1>2. settings.formatter \in Formatters /\ settings.locale \in Locales
    BY <1>1 DEF Settings
  <1>3. VersionCounts
    <2>1. changes = 0 /\ m_Version = 0 /\ ~ffWriter /\ ffWriter \in BOOLEAN /\ settled = InForce
      BY <1>1 DEF FFStart
    <2>. QED  BY <2>1, VersionsSuffice DEF VersionCounts
  <1>4. ContextsAreOld
    BY <1>1, <1>2 DEF FFStart, ContextsAreOld
  <1>5. CallsAreCurrent
    BY <1>1 DEF FFStart, CallsAreCurrent
  <1>6. settled \in Settings
    BY <1>1, <1>2 DEF FFStart, Settings, InForce
  <1>. QED  BY <1>3, <1>4, <1>5, <1>6 DEF FFInv

\* The steps of the thread that configures: a setter changes what is in force and
\* notes it for all calls; then the version makes all contexts old.
LEMMA SetterKeepsFFInv ==
    ASSUME FFInv, ~ffWriter, changes < MaxChanges, ffWriter' = TRUE, changes' = changes + 1,
           InForce' \in Settings, Record(InForce'),
           m_Formatter' \in Formatters, m_Locale' \in Locales,
           UNCHANGED <<m_Version, context, ffAt, formatted, settled>>
    PROVE  FFInv'
  <1>1. VersionCounts'
    BY VersionsSuffice DEF FFInv, VersionCounts
  <1>2. ContextsAreOld'
    BY DEF FFInv, ContextsAreOld, InContext
  <1>3. \A t \in Writers : inForce'[t] = IF ffAt[t] = "idle" THEN inForce[t]
                                         ELSE inForce[t] \cup {InForce'}
    BY DEF Record
  <1>4. inForce' \in [Writers -> SUBSET Settings]
    BY DEF FFInv, CallsAreCurrent, Record
  <1>5. CallsAreCurrent'
    BY <1>3, <1>4 DEF FFInv, CallsAreCurrent, InContext
  <1>. QED  BY <1>1, <1>2, <1>5 DEF FFInv

LEMMA FFInvConfigures ==
    ASSUME FFInv,
           \/ \E f \in Formatters : set_formatter(f)
           \/ \E loc \in Locales : imbue(loc)
           \/ NewVersion
    PROVE  FFInv'
  <1>1. ASSUME NEW f \in Formatters, set_formatter(f) PROVE FFInv'
    <2>1. InForce' = [InForce EXCEPT !.formatter = f] /\ InForce' \in Settings
      BY <1>1 DEF set_formatter, InForce, Settings, FFInv, ContextsAreOld
    <2>. QED  BY <1>1, <2>1, SetterKeepsFFInv DEF set_formatter, FFInv, ContextsAreOld
  <1>2. ASSUME NEW loc \in Locales, imbue(loc) PROVE FFInv'
    <2>1. InForce' = [InForce EXCEPT !.locale = loc] /\ InForce' \in Settings
      BY <1>2 DEF imbue, InForce, Settings, FFInv, ContextsAreOld
    <2>. QED  BY <1>2, <2>1, SetterKeepsFFInv DEF imbue, FFInv, ContextsAreOld
  <1>3. ASSUME NewVersion PROVE FFInv'
    <2>1. m_Version \in Nat /\ m_Version + 1 = changes /\ m_Version + 1 < Versions
      BY <1>3, VersionsSuffice DEF NewVersion, FFInv, VersionCounts
    <2>2. m_Version' = m_Version + 1
      BY <1>3, <2>1, VersionsSuffice DEF NewVersion
    <2>3. InForce' = InForce /\ settled' = InForce
      BY <1>3 DEF NewVersion, InForce
    <2>4. VersionCounts'
      <3>1. ffWriter' \in BOOLEAN /\ ~ffWriter' /\ changes' = changes
        BY <1>3 DEF NewVersion
      <3>. QED  BY <2>1, <2>2, <2>3, <3>1 DEF FFInv, VersionCounts
    <2>5. ContextsAreOld'
      BY <1>3, <2>1, <2>2 DEF NewVersion, FFInv, ContextsAreOld
    <2>6. CallsAreCurrent'
      BY <1>3, <2>3 DEF NewVersion, FFInv, CallsAreCurrent, InContext
    <2>7. settled' \in Settings
      BY <2>3 DEF FFInv, ContextsAreOld, Settings, InForce
    <2>. QED  BY <2>4, <2>5, <2>6, <2>7 DEF FFInv
  <1>. QED  BY <1>1, <1>2, <1>3

\* The steps of a thread that feeds a record.
LEMMA FFInvFeeds ==
    ASSUME FFInv, NEW t \in Writers, FeedStep(t)
    PROVE  FFInv'
  <1>. USE DEF Step
  <1>1. UNCHANGED <<m_Formatter, m_Locale, m_Version, ffWriter, settled, changes>>
    BY DEF FeedStep, begin_feed, begin_try, CheckVersion, RenewContext, Format, LockBackend,
           Consume, HandleException
  <1>2. VersionCounts' /\ settled' \in Settings /\ InForce' = InForce
    BY <1>1 DEF FFInv, VersionCounts, InForce
  <1>3. InForce \in Settings
    BY DEF FFInv, ContextsAreOld, Settings, InForce
  <1>4. CASE begin_feed(t) \/ begin_try(t)
    <2>1. ContextsAreOld'  BY <1>1, <1>4 DEF begin_feed, begin_try, FFInv, ContextsAreOld, InContext
    <2>2. /\ ffAt' = [ffAt EXCEPT ![t] = "check"]
          /\ inForce' = [inForce EXCEPT ![t] = {settled, InForce}]
          /\ UNCHANGED <<context, formatted>>
      BY <1>4 DEF begin_feed, begin_try
    <2>3. {settled, InForce} \in SUBSET Settings  BY <1>3 DEF FFInv
    <2>4. \A u \in Writers : InContext(u)' = InContext(u)  BY <2>2 DEF InContext
    <2>5. CallsAreCurrent'
      BY <1>1, <1>2, <2>2, <2>3, <2>4 DEF FFInv, CallsAreCurrent
    <2>. QED  BY <1>2, <2>1, <2>5 DEF FFInv
  <1>5. CASE CheckVersion(t)
    <2>1. ContextsAreOld'  BY <1>1, <1>5 DEF CheckVersion, FFInv, ContextsAreOld, InContext
    <2>2. CallsAreCurrent'
      BY <1>1, <1>2, <1>5 DEF CheckVersion, FFInv, ContextsAreOld, CallsAreCurrent, InContext
    <2>. QED  BY <1>2, <2>1, <2>2 DEF FFInv
  <1>6. CASE RenewContext(t)
    <2>1. context' = [context EXCEPT ![t] =
                         [version |-> m_Version, formatter |-> m_Formatter, locale |-> m_Locale]]
      BY <1>6 DEF RenewContext
    <2>2. InContext(t)' = InForce /\ settled = InForce /\ context'[t].version = m_Version
      BY <1>6, <2>1 DEF RenewContext, FFInv, VersionCounts, ContextsAreOld, InContext, InForce
    <2>3. context'[t] \in [version : Nat, formatter : Formatters, locale : Locales]
      BY <2>1 DEF FFInv, VersionCounts, ContextsAreOld
    <2>4. ContextsAreOld'
      BY <1>1, <2>1, <2>2, <2>3 DEF FFInv, VersionCounts, ContextsAreOld, InContext
    <2>5. CallsAreCurrent'
      <3>1. /\ ffAt[t] = "renew" /\ ffAt' = [ffAt EXCEPT ![t] = "format"]
            /\ UNCHANGED <<inForce, formatted>>
        BY <1>6 DEF RenewContext
      <3>2. context'[t] # None
        BY <2>3, NoneIsNothing
      <3>3. \A u \in Writers \ {t} : context'[u] = context[u] /\ InContext(u)' = InContext(u)
        BY <2>1 DEF FFInv, ContextsAreOld, InContext
      <3>. QED  BY <1>1, <1>2, <2>2, <3>1, <3>2, <3>3 DEF FFInv, CallsAreCurrent
    <2>. QED  BY <1>2, <2>4, <2>5 DEF FFInv
  <1>7. CASE Format(t)
    <2>1. ContextsAreOld'  BY <1>1, <1>7 DEF Format, FFInv, ContextsAreOld, InContext
    <2>2. CallsAreCurrent'
      BY ZenonT(60), <1>1, <1>2, <1>7 DEF Format, FFInv, CallsAreCurrent, InContext
    <2>. QED  BY <1>2, <2>1, <2>2 DEF FFInv
  <1>8. CASE LockBackend(t) \/ Consume(t) \/ HandleException(t)
    <2>1. ContextsAreOld'
      BY <1>1, <1>8 DEF LockBackend, Consume, HandleException, FFInv, ContextsAreOld, InContext
    <2>2. CallsAreCurrent'
      BY <1>1, <1>2, <1>8 DEF LockBackend, Consume, HandleException, FFInv, CallsAreCurrent, InContext
    <2>. QED  BY <1>2, <2>1, <2>2 DEF FFInv
  <1>. QED  BY <1>4, <1>5, <1>6, <1>7, <1>8 DEF FeedStep

LEMMA FFInvStep == FFInv /\ [FFNext]_ffVars => FFInv'
  <1>1. ASSUME FFInv, UNCHANGED ffVars PROVE FFInv'
    BY <1>1 DEF ffVars, FFInv, VersionCounts, ContextsAreOld, CallsAreCurrent, InContext, InForce
  <1>. QED  BY <1>1, FFInvConfigures, FFInvFeeds DEF FFNext

\* No record is formatted with a formatter and a locale that were not in force
\* together at some time during its call, for any threads and any number of
\* changes that the version can count.
THEOREM RecordsAreFormattedAsConfigured == FFSpec => []FormattedAsConfigured
  <1>1. FFInv => FormattedAsConfigured
    BY DEF FFInv, CallsAreCurrent, FormattedAsConfigured
  <1>. QED  BY <1>1, FFInvInit, FFInvStep, PTL DEF FFSpec

-------------------------------------------------------------------------------
(* The locking pointer, until two of its users collide.                    *)

\* One holder at a time makes or destroys a pointer; where it stands tells how the
\* counter and the mutex agree with the pointers there are.  The feeding threads
\* have the mutex exactly while they feed.
OneAtATime == \A t, u \in Holders : lpAt[t] # "idle" /\ lpAt[u] # "idle" => t = u
CountedAt(t) ==
    /\ lpAt[t] \in {"lock", "try"} => m_RefCounter = 0 /\ pointers = 0 /\ mutex \notin Holders
    /\ lpAt[t] \in {"loadToAdd", "add"} => m_RefCounter = pointers /\ mutex \in Holders
    /\ lpAt[t] \in {"loadToSubtract", "subtract"} => m_RefCounter = pointers + 1 /\ mutex \in Holders
    /\ lpAt[t] = "unlock" => m_RefCounter = 0 /\ pointers = 0 /\ mutex \in Holders
    /\ lpAt[t] \in {"add", "subtract"} => loaded[t] = m_RefCounter
CountedAtRest ==
    (\A t \in Holders : lpAt[t] = "idle") => m_RefCounter = pointers /\ (mutex \in Holders <=> pointers > 0)
FeedersLock == \A f \in Feeders : lpAt[f] = "fed" <=> mutex = f
LPTypes ==
    /\ m_RefCounter \in Int /\ pointers \in Nat /\ loaded \in [Holders -> Int] /\ collided \in BOOLEAN
    /\ lpAt \in [Holders \cup Feeders -> {"idle", "lock", "try", "loadToAdd", "add",
                                          "loadToSubtract", "subtract", "unlock", "fed"}]
    /\ \A t \in Holders : lpAt[t] # "fed"
    /\ \A f \in Feeders : lpAt[f] \in {"idle", "fed"}
LPInv ==
    /\ LPTypes
    /\ ~collided => OneAtATime /\ (\A t \in Holders : CountedAt(t)) /\ CountedAtRest /\ FeedersLock

LEMMA LPInvStep == LPInv /\ [LPNext]_lpVars => LPInv'
  <1>. SUFFICES ASSUME LPInv, [LPNext]_lpVars PROVE LPInv'
    OBVIOUS
  <1>. USE DEF LPInv, LPTypes
  <1>1. CASE UNCHANGED lpVars
    BY <1>1 DEF lpVars, OneAtATime, CountedAt, CountedAtRest, FeedersLock
  <1>2. \A t \in Holders : t \notin Feeders /\ t # Nobody
    BY ThreadsDiffer
  <1>3. ASSUME NEW t \in Holders, Hold(t) PROVE LPInv'
    <2>1. LPTypes'
      <3>. USE <1>2 DEF Goes, Begins
      <3>2. CASE construct(t)       BY <3>2 DEF construct
      <3>3. CASE try_construct(t)   BY <3>3 DEF try_construct
      <3>4. CASE lock(t)            BY <3>4 DEF lock
      <3>5. CASE try_lock(t)        BY <3>5 DEF try_lock
      <3>6. CASE copy_pointer(t)    BY <3>6 DEF copy_pointer
      <3>7. CASE destruct(t)        BY <3>7 DEF destruct
      <3>8. CASE Load(t)            BY <3>8 DEF Load
      <3>9. CASE Add(t)             BY <3>9 DEF Add
      <3>10. CASE Subtract(t)       BY <3>10 DEF Subtract
      <3>11. CASE unlock(t)         BY <3>11 DEF unlock
      <3>. QED  BY <1>3, <3>2, <3>3, <3>4, <3>5, <3>6, <3>7, <3>8, <3>9, <3>10, <3>11 DEF Hold
    <2>2. /\ \A u \in Holders \cup Feeders : u # t => lpAt'[u] = lpAt[u]
          /\ \A u \in Holders : u # t => loaded'[u] = loaded[u]
      BY <1>3 DEF Hold, Goes, construct, lock, try_construct, try_lock, copy_pointer, destruct,
                  Load, Add, Subtract, unlock
    <2>3. ASSUME ~collided'
          PROVE  /\ ~collided /\ \A u \in Holders : u # t => lpAt[u] = "idle"
      BY <1>3, <2>3 DEF Hold, Begins, construct, lock, try_construct, try_lock, copy_pointer, destruct,
                        Load, Add, Subtract, unlock, OneAtATime
    <2>4. ASSUME ~collided'
          PROVE  CountedAt(t)' /\ (lpAt'[t] = "idle" => m_RefCounter' = pointers' /\ (mutex' \in Holders <=> pointers' > 0))
      <3>1. /\ CountedAt(t) /\ FeedersLock
            /\ lpAt[t] = "idle" => m_RefCounter = pointers /\ (mutex \in Holders <=> pointers > 0)
        BY <2>3, <2>4 DEF CountedAtRest
      <3>. USE <2>4, <3>1 DEF CountedAt, Goes, Begins
      <3>2. CASE construct(t)       BY <3>2 DEF construct
      <3>3. CASE try_construct(t)   BY <3>3 DEF try_construct
      <3>4. CASE lock(t)            BY <3>4 DEF lock
      <3>5. CASE try_lock(t)        BY <1>2, <3>5 DEF try_lock
      <3>6. CASE copy_pointer(t)    BY <3>6 DEF copy_pointer
      <3>7. CASE destruct(t)        BY <3>7 DEF destruct
      <3>8. CASE Load(t)            BY <3>8 DEF Load
      <3>9. CASE Add(t)             BY <3>9 DEF Add
      <3>10. CASE Subtract(t)       BY <3>10 DEF Subtract
      <3>11. CASE unlock(t)         BY <3>11, ThreadsDiffer DEF unlock
      <3>. QED  BY <1>3, <3>2, <3>3, <3>4, <3>5, <3>6, <3>7, <3>8, <3>9, <3>10, <3>11 DEF Hold
    <2>5. ASSUME ~collided' PROVE FeedersLock'
      <3>1. FeedersLock /\ \A f \in Feeders : lpAt'[f] = lpAt[f] /\ f # t
        BY <1>2, <2>2, <2>3, <2>5
      <3>2. mutex' = mutex \/ (mutex = Nobody /\ mutex' = t) \/ (mutex \in Holders /\ mutex' = Nobody)
        BY <1>3, <2>3, <2>5 DEF Hold, construct, lock, try_construct, try_lock, copy_pointer, destruct,
                                Load, Add, Subtract, unlock, CountedAt
      <3>. QED  BY <1>2, <3>1, <3>2, ThreadsDiffer DEF FeedersLock
    <2>6. ASSUME ~collided' PROVE OneAtATime' /\ (\A u \in Holders : CountedAt(u)') /\ CountedAtRest'
      <3>1. \A u \in Holders : u # t => lpAt'[u] = "idle"
        BY <2>2, <2>3, <2>6
      <3>2. OneAtATime'
        BY <3>1 DEF OneAtATime
      <3>3. \A u \in Holders : CountedAt(u)'
        BY <2>4, <2>6, <3>1 DEF CountedAt
      <3>4. CountedAtRest'
        BY <2>4, <2>6 DEF CountedAtRest
      <3>. QED  BY <3>2, <3>3, <3>4
    <2>. QED  BY <2>1, <2>5, <2>6
  <1>4. ASSUME NEW f \in Feeders, feed(f) \/ fed(f) PROVE LPInv'
    <2>1. /\ LPTypes' /\ UNCHANGED <<m_RefCounter, loaded, pointers, collided>>
          /\ \A t \in Holders : lpAt'[t] = lpAt[t]
      BY <1>2, <1>4 DEF feed, fed, Goes
    <2>2. ASSUME ~collided
          PROVE  /\ mutex \notin Holders /\ mutex' \notin Holders /\ FeedersLock'
      BY <1>2, <1>4, <2>2, ThreadsDiffer DEF feed, fed, Goes, FeedersLock
    <2>. QED  BY <2>1, <2>2 DEF OneAtATime, CountedAt, CountedAtRest
  <1>. QED  BY <1>1, <1>3, <1>4 DEF LPNext

\* However many threads share the pointers, copy them and destroy them, and
\* whatever threads feed: the backend is locked as long as a pointer exists and
\* free afterwards, although the counter is not atomic, until two threads are in a
\* constructor or a destructor of a pointer at once.
THEOREM LockedUntilHoldersCollide == LPSpec => []LockedWhilePointed
  <1>1. LPInit => LPInv
    <2>. SUFFICES ASSUME LPInit PROVE LPInv
      OBVIOUS
    <2>. USE DEF LPInit
    <2>1. LPTypes
      <3>1. loaded \in [Holders -> Int] /\ m_RefCounter \in Int /\ pointers \in Nat
        OBVIOUS
      <3>2. collided \in BOOLEAN
        OBVIOUS
      <3>3. lpAt \in [Holders \cup Feeders -> {"idle"}] /\ \A t \in Holders \cup Feeders : lpAt[t] = "idle"
        OBVIOUS
      <3>. QED  BY <3>1, <3>2, <3>3 DEF LPTypes
    <2>2. OneAtATime /\ \A t \in Holders : CountedAt(t)
      BY DEF OneAtATime, CountedAt
    <2>3. CountedAtRest /\ FeedersLock
      BY ThreadsDiffer DEF CountedAtRest, FeedersLock
    <2>. QED  BY <2>1, <2>2, <2>3 DEF LPInv
  <1>2. LPInv => LockedWhilePointed
    <2>. SUFFICES ASSUME LPInv, ~collided
                  PROVE  /\ pointers > 0 => mutex \in Holders /\ \A f \in Feeders : lpAt[f] # "fed"
                         /\ mutex \in Holders => pointers > 0 \/ \E t \in Holders : lpAt[t] # "idle"
      BY DEF LockedWhilePointed
    <2>1. pointers > 0 => mutex \in Holders
      <3>1. CASE \A t \in Holders : lpAt[t] = "idle"
        BY <3>1 DEF LPInv, CountedAtRest
      <3>2. ASSUME NEW t \in Holders, lpAt[t] # "idle" PROVE pointers > 0 => mutex \in Holders
        BY <3>2 DEF LPInv, LPTypes, CountedAt
      <3>. QED  BY <3>1, <3>2
    <2>2. mutex \in Holders => \A f \in Feeders : lpAt[f] # "fed"
      BY ThreadsDiffer DEF LPInv, FeedersLock
    <2>. QED  BY <2>1, <2>2 DEF LPInv, CountedAtRest
  <1>. QED  BY <1>1, <1>2, LPInvStep, PTL DEF LPSpec
-------------------------------------------------------------------------------
(* The ordering queues.                                                    *)

\* No record comes from the future.
OQRecords == [id : Nat, value : Values, timestamp : Nat]
OQOutputs == [id : Nat, value : Values, timestamp : Nat, at : Nat]

OQTypes ==
    /\ now \in Nat /\ logged \in Nat /\ deadline \in Int
    /\ flushed \in BOOLEAN /\ interrupted \in BOOLEAN
    /\ ordered \subseteq OQRecords
    /\ \A r \in ordered : r.timestamp <= now
    /\ output \in Seq(OQOutputs)

\* Unless the queue was flushed, what has been fed had waited for the window, and
\* what still waits with a lesser value came a whole window later.
WindowHasPassed ==
    ~flushed =>
        \A i \in DOMAIN output :
            /\ output[i].timestamp + Window <= now
            /\ \A r \in ordered : r.value < output[i].value => r.timestamp >= output[i].timestamp + Window

OQInv == OQTypes /\ WindowHasPassed /\ OrderedWithinWindow /\ NeverOversleeps

LEMMA OQInvInit == OQInit => OQInv
<1> SUFFICES ASSUME NEW limit \in Capacities, OQStart(limit) PROVE OQInv
  BY DEF OQInit
<1> USE DEF OQStart
<1>1. OQTypes
  <2>1. output \in Seq(OQOutputs)
    BY EmptySeq
  <2>2. now = 0 /\ logged = 0 /\ deadline = 0
    OBVIOUS
  <2>3. ordered = {} /\ flushed \in BOOLEAN /\ interrupted \in BOOLEAN
    OBVIOUS
  <2> HIDE DEF OQStart
  <2> QED BY <2>1, <2>2, <2>3 DEF OQTypes
<1>2. DOMAIN output = {}
  BY EmptySeq
<1>3. WindowHasPassed /\ OrderedWithinWindow /\ NeverOversleeps
  BY <1>2 DEF WindowHasPassed, OrderedWithinWindow, NeverOversleeps
<1> QED BY <1>1, <1>3 DEF OQInv

\* A record that is logged comes at least a window after all that was fed
\* because its window had passed, and if it goes to the top while the feeding
\* thread waits for another one, it is ready later.
LEMMA EnqueueHolds ==
    ASSUME OQInv, NEW value \in Values, enqueue(value)
    PROVE  OQInv'
<1> DEFINE new == [id |-> logged + 1, value |-> value, timestamp |-> now]
<1>1. /\ UNCHANGED <<interrupted, deadline, now, output, flushed>>
      /\ logged' = logged + 1
      /\ \/ ordered' = ordered \cup {new} /\ IF ordered = {} THEN Notify ELSE UNCHANGED waiting
         \/ UNCHANGED <<ordered, waiting>>
  BY DEF enqueue
<1>2. /\ new \in OQRecords /\ new.value = value /\ new.timestamp = now
      /\ now \in Nat /\ value \in Int /\ Window \in Nat
  BY OrderingAssumptions DEF OQInv, OQTypes, OQRecords
<1>3. \A r \in ordered : r.value \in Int /\ r.timestamp \in Nat /\ r.timestamp <= now
  BY OrderingAssumptions DEF OQInv, OQTypes, OQRecords
<1> HIDE DEF new
<1>4. OQTypes'
  BY <1>1, <1>2 DEF OQInv, OQTypes
<1>5. WindowHasPassed'
  BY <1>1, <1>2 DEF OQInv, WindowHasPassed
<1>6. OrderedWithinWindow'
  BY <1>1 DEF OQInv, OrderedWithinWindow, Before
<1>7. NeverOversleeps'
  <2>1. CASE UNCHANGED <<ordered, waiting>>
    BY <1>1, <2>1 DEF OQInv, NeverOversleeps, Tops, Before
  <2>2. CASE ordered' = ordered \cup {new} /\ ordered = {} /\ Notify
    BY <1>1, <2>2 DEF OQInv, NeverOversleeps, Tops, Notify
  <2>3. CASE ordered' = ordered \cup {new} /\ ordered # {} /\ UNCHANGED waiting
    <3>1. ASSUME waiting = "timed_wait" PROVE \E r \in Tops' : deadline <= r.timestamp + Window
      <4>1. PICK r \in Tops : deadline <= r.timestamp + Window
        BY <3>1 DEF OQInv, NeverOversleeps
      <4>2. r \in ordered /\ \A s \in ordered : ~(s.value < r.value)
        BY <4>1 DEF Tops, Before
      <4>3. CASE ~(value < r.value)
        <5>1. r \in Tops'
          BY <1>2, <2>3, <4>2, <4>3 DEF Tops, Before
        <5> QED BY <1>1, <4>1, <5>1
      <4>4. CASE value < r.value
        <5>1. new \in Tops'
          BY <1>2, <1>3, <2>3, <4>2, <4>4 DEF Tops, Before
        <5>2. deadline <= new.timestamp + Window
          BY <1>2, <1>3, <4>1, <4>2 DEF OQInv, OQTypes
        <5> QED BY <1>1, <5>1, <5>2
      <4> QED BY <4>3, <4>4
    <3> QED BY <1>1, <2>3, <3>1 DEF OQInv, NeverOversleeps
  <2> QED BY <1>1, <2>1, <2>2, <2>3
<1> QED BY <1>4, <1>5, <1>6, <1>7 DEF OQInv

\* Feeding the record at the top: those that still wait do not go before it.
\* Unless the queue is flushed the record must be ready.
LEMMA FeedHolds ==
    ASSUME OQInv, NEW r \in Tops, Feed(r), Ready(r) \/ flushed',
           flushed => flushed', flushed' \in BOOLEAN,
           UNCHANGED <<interrupted, now, logged>>, deadline' \in Int
    PROVE  OQTypes' /\ WindowHasPassed' /\ OrderedWithinWindow'
<1> DEFINE n == Len(output)
           out == [id |-> r.id, value |-> r.value, timestamp |-> r.timestamp, at |-> now]
<1>1. r \in ordered /\ r \in OQRecords /\ \A s \in ordered : ~(s.value < r.value)
  BY DEF Tops, Before, OQInv, OQTypes
<1>2. /\ output \in Seq(OQOutputs) /\ out \in OQOutputs /\ now \in Nat
      /\ out.value = r.value /\ out.timestamp = r.timestamp
      /\ r.value \in Int /\ r.timestamp \in Nat /\ Window \in Nat
  BY <1>1, OrderingAssumptions DEF OQInv, OQTypes, OQRecords, OQOutputs
<1>3. ordered' = ordered \ {r} /\ output' = Append(output, out)
  BY DEF Feed
<1> HIDE DEF out
<1>4. /\ n \in Nat /\ DOMAIN output = 1..n /\ DOMAIN output' = 1..(n + 1)
      /\ \A i \in 1..n : output'[i] = output[i] /\ output[i] \in OQOutputs
      /\ output'[n + 1] = out /\ output' \in Seq(OQOutputs)
  BY <1>2, <1>3
<1>5. OQTypes'
  BY <1>3, <1>4 DEF OQInv, OQTypes
<1>6. \A i \in DOMAIN output' : i \in 1..n \/ i = n + 1
  BY <1>4
<1>7. ASSUME ~flushed' PROVE out.timestamp + Window <= now
  BY <1>1, <1>2, <1>7 DEF Ready
<1>8. WindowHasPassed'
  BY <1>1, <1>2, <1>3, <1>4, <1>6, <1>7 DEF OQInv, WindowHasPassed
<1>9. OrderedWithinWindow'
  <2> SUFFICES ASSUME ~flushed', NEW i \in DOMAIN output', NEW j \in DOMAIN output', i < j,
                      output'[j].value < output'[i].value
               PROVE  output'[j].timestamp >= output'[i].timestamp + Window
    BY DEF OrderedWithinWindow, Before
  <2>1. i \in 1..n
    BY <1>4, <1>6
  <2>2. CASE j = n + 1
    BY <1>1, <1>2, <1>4, <2>1, <2>2 DEF OQInv, WindowHasPassed
  <2>3. CASE j \in 1..n
    BY <1>4, <2>1, <2>3 DEF OQInv, OrderedWithinWindow, Before
  <2> QED BY <1>6, <2>2, <2>3
<1> QED BY <1>5, <1>8, <1>9

LEMMA OQInvStep == OQInv /\ [OQNext]_oqVars => OQInv'
<1> SUFFICES ASSUME OQInv, [OQNext]_oqVars PROVE OQInv'
  OBVIOUS
<1>1. ASSUME UNCHANGED <<ordered, output, now, logged, flushed>>,
             interrupted' \in BOOLEAN, deadline' \in Int, NeverOversleeps'
      PROVE  OQInv'
  <2>1. OQTypes'
    BY <1>1 DEF OQInv, OQTypes
  <2>2. WindowHasPassed' /\ OrderedWithinWindow'
    BY <1>1 DEF OQInv, WindowHasPassed, OrderedWithinWindow, Before
  <2> QED BY <1>1, <2>1, <2>2 DEF OQInv
<1>2. CASE UNCHANGED oqVars
  <2>1. NeverOversleeps'
    BY <1>2 DEF oqVars, OQInv, NeverOversleeps, Tops, Before
  <2> QED BY <1>1, <1>2, <2>1 DEF oqVars, OQInv, OQTypes
<1>3. CASE \E value \in Values : enqueue(value)
  BY <1>3, EnqueueHolds
<1>4. CASE try_dequeue_ready \/ try_dequeue
  <2>1. NeverOversleeps'
    BY <1>4 DEF try_dequeue_ready, try_dequeue, NeverOversleeps
  <2>2. PICK r \in Tops : Feed(r) /\ (Ready(r) \/ flushed')
    BY <1>4 DEF try_dequeue_ready, try_dequeue
  <2>3. UNCHANGED <<interrupted, now, logged>> /\ flushed' \in BOOLEAN /\ (flushed => flushed')
    BY <1>4 DEF try_dequeue_ready, try_dequeue, OQInv, OQTypes
  <2>4. deadline' \in Int
    BY <1>4 DEF try_dequeue_ready, try_dequeue, OQInv, OQTypes
  <2> QED BY <2>1, <2>2, <2>3, <2>4, FeedHolds DEF OQInv
<1>5. CASE call_dequeue_ready \/ TimedOut \/ WakesEarly
  <2>1. NeverOversleeps'
    BY <1>5 DEF call_dequeue_ready, TimedOut, WakesEarly, NeverOversleeps
  <2> QED BY <1>1, <1>5, <2>1 DEF call_dequeue_ready, TimedOut, WakesEarly, OQInv, OQTypes
<1>6. CASE dequeue_ready
  <2>1. UNCHANGED <<now, logged, flushed>> /\ deadline \in Int
    BY <1>6 DEF dequeue_ready, OQInv, OQTypes
  <2>2. CASE interrupted' = FALSE /\ waiting' = "idle" /\ UNCHANGED <<ordered, output, deadline>>
    BY <1>1, <2>1, <2>2 DEF NeverOversleeps, OQInv, OQTypes
  <2>3. ASSUME NEW r \in Tops, ~interrupted, UNCHANGED interrupted, Ready(r), Feed(r), waiting' = "idle",
               UNCHANGED deadline
        PROVE  OQInv'
    <3>1. NeverOversleeps'
      BY <2>3 DEF NeverOversleeps
    <3>2. flushed' \in BOOLEAN /\ (flushed => flushed') /\ deadline' \in Int
      BY <2>1, <2>3 DEF OQInv, OQTypes
    <3> QED BY <2>1, <2>3, <3>1, <3>2, FeedHolds DEF OQInv
  <2>4. ASSUME NEW r \in Tops, ~interrupted, waiting' = "timed_wait", deadline' = r.timestamp + Window,
               UNCHANGED <<ordered, output, interrupted>>
        PROVE  OQInv'
    <3>1. r \in Tops' /\ deadline' <= r.timestamp + Window
      <4>1. r.timestamp \in Nat
        BY DEF Tops, OQInv, OQTypes, OQRecords
      <4> QED BY <2>4, <4>1, OrderingAssumptions DEF Tops, Before
    <3>2. NeverOversleeps' /\ deadline' \in Int
      <4>1. r.timestamp + Window \in Int
        BY OrderingAssumptions DEF Tops, OQInv, OQTypes, OQRecords
      <4> QED BY <2>4, <3>1, <4>1 DEF NeverOversleeps
    <3>3. interrupted' \in BOOLEAN
      BY <2>4 DEF OQInv, OQTypes
    <3> QED BY <1>1, <2>1, <2>4, <3>2, <3>3
  <2>5. CASE ~interrupted /\ ordered = {} /\ waiting' = "wait" /\ UNCHANGED <<ordered, output, interrupted, deadline>>
    BY <1>1, <2>1, <2>5 DEF NeverOversleeps, OQInv, OQTypes
  <2> QED BY <1>6, <2>2, <2>3, <2>4, <2>5 DEF dequeue_ready
<1>7. CASE interrupt_dequeue
  <2>1. NeverOversleeps'
    BY <1>7 DEF interrupt_dequeue, Notify, NeverOversleeps
  <2> QED BY <1>1, <1>7, <2>1 DEF interrupt_dequeue, OQInv, OQTypes
<1>8. CASE Tick
  <2>1. /\ now' = now + 1
        /\ UNCHANGED <<ordered, interrupted, waiting, deadline, logged, output, flushed>>
    BY <1>8 DEF Tick
  <2>2. OQTypes'
    BY <2>1 DEF OQInv, OQTypes, OQRecords
  <2>3. WindowHasPassed'
    <3>1. \A i \in DOMAIN output : output[i].timestamp \in Nat
      <4>1. output \in Seq(OQOutputs)
        BY DEF OQInv, OQTypes
      <4>2. \A i \in DOMAIN output : output[i] \in OQOutputs
        BY <4>1
      <4> QED BY <4>2 DEF OQOutputs
    <3> QED BY <2>1, <3>1, OrderingAssumptions DEF OQInv, OQTypes, WindowHasPassed
  <2>4. OrderedWithinWindow' /\ NeverOversleeps'
    BY <2>1 DEF OQInv, OrderedWithinWindow, NeverOversleeps, Tops, Before
  <2> QED BY <2>2, <2>3, <2>4 DEF OQInv
<1> QED BY <1>2, <1>3, <1>4, <1>5, <1>6, <1>7, <1>8 DEF OQNext

\* For any number of threads, records, values and any window: a record is fed
\* behind one with a greater value only if it was logged a window later, and the
\* feeding thread never waits past the time at which a record is ready.
THEOREM RecordsAreHeldBackForTheWindow == OQSpec => []HeldBackForTheWindow
<1>1. OQInv => HeldBackForTheWindow
  BY DEF OQInv, HeldBackForTheWindow
<1> QED BY <1>1, OQInvInit, OQInvStep, PTL DEF OQSpec

-------------------------------------------------------------------------------
(* The file collectors.                                                    *)

CollectorRecords == [dir : Directories, max_size : Sizes, asked : SUBSET Sizes]

\* The list refers to each collector once: to those that a sink has and to those
\* in their destructor.
ListIsExact ==
    /\ made \in Seq(CollectorRecords)
    /\ owners \in Seq(Nat) /\ Len(owners) = Len(made)
    /\ dying \subseteq 1..Len(made) /\ \A c \in dying : owners[c] = 0
    /\ m_Collectors \in Seq(Nat)
    /\ \A i, j \in 1..Len(m_Collectors) : m_Collectors[i] = m_Collectors[j] => i = j
    /\ Range(m_Collectors) = dying \cup {c \in 1..Len(made) : owners[c] > 0}

Strictest ==
    \A c \in 1..Len(made) :
        made[c].max_size \in made[c].asked /\ \A s \in made[c].asked : made[c].max_size <= s

\* As long as no call met a dying collector, no two collectors that sinks have
\* are for one directory.
OneIsAlive ==
    /\ overtook \in BOOLEAN
    /\ ~overtook => \A c, d \in 1..Len(made) :
                        owners[c] > 0 /\ owners[d] > 0 /\ made[c].dir = made[d].dir => c = d

CRInv == ListIsExact /\ Strictest /\ OneIsAlive

\* The constants of ListIsExact as sets and not as domains.
LEMMA CollectorDomains ==
    ASSUME ListIsExact
    PROVE  /\ DOMAIN made = 1..Len(made) /\ DOMAIN owners = 1..Len(made)
           /\ DOMAIN m_Collectors = 1..Len(m_Collectors)
           /\ Len(made) \in Nat /\ Len(m_Collectors) \in Nat
           /\ \A c \in 1..Len(made) :
                 /\ owners[c] \in Nat
                 /\ made[c] \in CollectorRecords
           /\ \A i \in 1..Len(m_Collectors) :
                 /\ m_Collectors[i] \in 1..Len(made)
                 /\ m_Collectors[i] \in dying \/ owners[m_Collectors[i]] > 0
<1> USE DEF ListIsExact
<1>1. /\ DOMAIN made = 1..Len(made) /\ DOMAIN owners = 1..Len(made)
      /\ DOMAIN m_Collectors = 1..Len(m_Collectors)
      /\ Len(made) \in Nat /\ Len(m_Collectors) \in Nat
  OBVIOUS
<1>2. \A c \in 1..Len(made) :
         /\ owners[c] \in Nat
         /\ made[c] \in CollectorRecords
  <2> SUFFICES ASSUME NEW c \in 1..Len(made)
               PROVE  /\ owners[c] \in Nat
                      /\ made[c] \in CollectorRecords
    OBVIOUS
  <2>1. owners \in Seq(Nat) /\ c \in 1..Len(owners)
    OBVIOUS
  <2>2. made \in Seq(CollectorRecords)
    OBVIOUS
  <2> HIDE DEF ListIsExact
  <2>3. owners[c] \in Nat
    BY <2>1
  <2> QED BY <2>2, <2>3
<1>3. ASSUME NEW i \in 1..Len(m_Collectors)
      PROVE  m_Collectors[i] \in dying \cup {c \in 1..Len(made) : owners[c] > 0}
  BY <1>1 DEF Range
<1> QED BY <1>1, <1>2, <1>3

LEMMA CRInvInit == CRInit => CRInv
<1> SUFFICES ASSUME NEW directories \in Existing, CRStart(directories) PROVE CRInv
  BY DEF CRInit
<1>1. made = <<>> /\ owners = <<>> /\ m_Collectors = <<>> /\ dying = {} /\ overtook = FALSE
  BY DEF CRStart
<1>2. Len(made) = 0 /\ Len(owners) = 0 /\ Len(m_Collectors) = 0 /\ DOMAIN m_Collectors = {}
  BY <1>1, EmptySeq
<1>3. /\ made \in Seq(CollectorRecords)
      /\ owners \in Seq(Nat) /\ m_Collectors \in Seq(Nat)
  BY <1>1, EmptySeq
<1>4. 1..Len(made) = {} /\ 1..Len(m_Collectors) = {} /\ Range(m_Collectors) = {}
  BY <1>2 DEF Range
<1> HIDE DEF CRStart
<1> QED BY <1>1, <1>2, <1>3, <1>4 DEF CRInv, ListIsExact, Strictest, OneIsAlive

\* The first of the list that governs the directory, or whose check throws.
LEMMA FoundIsListed ==
    ASSUME ListIsExact, NEW dir \in Directories, Looked(dir) # {}
    PROVE  /\ found(dir) \in 1..Len(made)
           /\ found(dir) \in dying \/ owners[found(dir)] > 0
           /\ is_governed(found(dir), dir) \/ Throws(found(dir), dir)
<1>1. Looked(dir) \subseteq 1..Len(m_Collectors)
  BY CollectorDomains DEF Looked
<1>2. \E i \in Looked(dir) : \A j \in Looked(dir) : i <= j
  BY <1>1, LeastElement
<1>3. Min(Looked(dir)) \in Looked(dir)
  BY <1>2 DEF Min
<1> QED BY <1>1, <1>3, CollectorDomains DEF found, Looked

\* A directory of a collector that a sink has is found by the search.
LEMMA LookedIsComplete ==
    ASSUME ListIsExact, NEW dir \in Directories, NEW c \in 1..Len(made), owners[c] > 0, made[c].dir = dir
    PROVE  Looked(dir) # {}
<1>1. c \in Range(m_Collectors)
  BY DEF ListIsExact
<1>2. PICK i \in DOMAIN m_Collectors : m_Collectors[i] = c
  BY <1>1 DEF Range
<1> QED BY <1>2 DEF Looked, is_governed, Throws

\* A new collector is listed last; it may share its directory with another one
\* only if it was made because of a dying collector.
LEMMA NewCollectorHolds ==
    ASSUME CRInv, NEW dir \in Directories, NEW max_size \in Sizes, NewCollector(dir, max_size),
           UNCHANGED dying, overtook' \in BOOLEAN,
           ~overtook' => ~overtook /\ Looked(dir) = {}
    PROVE  CRInv'
<1> DEFINE n == Len(made)
           k == Len(m_Collectors)
           one == [dir |-> dir, max_size |-> max_size, asked |-> {max_size}]
<1>1. /\ made' = Append(made, one) /\ owners' = Append(owners, 1)
      /\ m_Collectors' = Append(m_Collectors, Len(made'))
  BY DEF NewCollector
<1>2. /\ one \in CollectorRecords
      /\ one.dir = dir /\ one.max_size = max_size /\ one.asked = {max_size} /\ max_size \in Nat
  BY SizesAreNumbers DEF CollectorRecords
<1>3. ListIsExact /\ Strictest /\ OneIsAlive
  BY DEF CRInv
<1>4. n \in Nat /\ k \in Nat
  BY <1>3, CollectorDomains
<1> HIDE DEF one
<1>5. /\ made' \in Seq(CollectorRecords)
      /\ Len(made') = n + 1 /\ made'[n + 1] = one /\ \A c \in 1..n : made'[c] = made[c]
  BY <1>1, <1>2, <1>3 DEF ListIsExact
<1>6. /\ owners' \in Seq(Nat) /\ Len(owners') = n + 1 /\ owners'[n + 1] = 1
      /\ \A c \in 1..n : owners'[c] = owners[c]
  BY <1>1, <1>3 DEF ListIsExact
<1>7. /\ m_Collectors' \in Seq(Nat) /\ Len(m_Collectors') = k + 1 /\ m_Collectors'[k + 1] = n + 1
      /\ \A i \in 1..k : m_Collectors'[i] = m_Collectors[i] /\ m_Collectors[i] \in 1..n
  <2>1. Len(made') \in Nat
    BY <1>4, <1>5
  <2> QED BY <1>1, <1>3, <1>5, <2>1, CollectorDomains DEF ListIsExact
<1>8. Range(m_Collectors') = Range(m_Collectors) \cup {n + 1}
  <2>1. Len(made') \in Nat /\ m_Collectors \in Seq(Nat)
    BY <1>3, <1>4, <1>5 DEF ListIsExact
  <2> QED BY <1>1, <1>5, <2>1, RangeOfAppend
<1>9. \A i \in 1..(k + 1) : i \in 1..k \/ i = k + 1
  BY <1>4
<1>10. \A c \in 1..(n + 1) : c \in 1..n \/ c = n + 1
  BY <1>4
<1>11. ListIsExact'
  <2>1. \A i, j \in 1..Len(m_Collectors') : m_Collectors'[i] = m_Collectors'[j] => i = j
    <3> SUFFICES ASSUME NEW i \in 1..(k + 1), NEW j \in 1..(k + 1), m_Collectors'[i] = m_Collectors'[j]
                 PROVE  i = j
      BY <1>7
    <3>1. n + 1 \notin 1..n
      BY <1>4
    <3>2. CASE i \in 1..k /\ j \in 1..k
      BY <1>3, <1>7, <3>2 DEF ListIsExact
    <3>3. CASE i = k + 1 \/ j = k + 1
      BY <1>7, <1>9, <3>1, <3>3
    <3> QED BY <1>9, <3>2, <3>3
  <2>2. dying' \subseteq 1..Len(made') /\ \A c \in dying' : owners'[c] = 0
    <3>1. dying \subseteq 1..n /\ \A c \in dying : owners[c] = 0
      BY <1>3 DEF ListIsExact
    <3>2. \A c \in 1..n : c \in 1..(n + 1)
      BY <1>4
    <3> QED BY <1>5, <1>6, <3>1, <3>2
  <2>3. Range(m_Collectors') = dying' \cup {c \in 1..Len(made') : owners'[c] > 0}
    <3>1. {c \in 1..(n + 1) : owners'[c] > 0} = {c \in 1..n : owners[c] > 0} \cup {n + 1}
      BY <1>4, <1>6, <1>10
    <3> QED BY <1>3, <1>5, <1>8, <3>1 DEF ListIsExact
  <2> QED BY <1>5, <1>6, <1>7, <2>1, <2>2, <2>3 DEF ListIsExact
<1>12. Strictest'
  BY <1>2, <1>3, <1>5, <1>10 DEF Strictest
<1>13. OneIsAlive'
  <2>1. ASSUME ~overtook', NEW c \in 1..n, owners[c] > 0 PROVE made[c].dir # dir
    BY <1>3, <2>1, LookedIsComplete
  <2> QED BY <1>2, <1>3, <1>5, <1>6, <1>10, <2>1 DEF OneIsAlive
<1> QED BY <1>11, <1>12, <1>13 DEF CRInv

\* A call that finds a collector that a sink has makes its limit the least that
\* was asked for.
LEMMA SharingHolds ==
    ASSUME CRInv, NEW c \in 1..Len(made), owners[c] > 0, NEW max_size \in Sizes,
           made' = [made EXCEPT ![c].max_size = IF max_size < @ THEN max_size ELSE @,
                                ![c].asked = @ \cup {max_size}],
           owners' = [owners EXCEPT ![c] = @ + 1],
           UNCHANGED <<m_Collectors, dying>>, overtook' = overtook
    PROVE  CRInv'
<1> DEFINE n == Len(made)
           least == IF max_size < made[c].max_size THEN max_size ELSE made[c].max_size
           one == [made[c] EXCEPT !.max_size = least, !.asked = @ \cup {max_size}]
<1>1. ListIsExact /\ Strictest /\ OneIsAlive
  BY DEF CRInv
<1>2. /\ made \in [1..n -> CollectorRecords] /\ owners \in [1..n -> Nat] /\ n \in Nat
      /\ made[c] \in CollectorRecords /\ owners[c] \in Nat
  BY <1>1, CollectorDomains DEF ListIsExact
<1>3. made' = [made EXCEPT ![c] = one]
  OBVIOUS
<1>4. /\ one \in CollectorRecords /\ one.dir = made[c].dir
      /\ one.max_size = least /\ one.asked = made[c].asked \cup {max_size}
  BY <1>2 DEF CollectorRecords
<1>5. least \in one.asked /\ \A s \in one.asked : least <= s
  <2>1. \A s \in made[c].asked : s \in Nat /\ made[c].max_size <= s
    BY <1>1, <1>2, SizesAreNumbers DEF Strictest, CollectorRecords
  <2>2. max_size \in Nat /\ made[c].max_size \in Nat /\ made[c].max_size \in made[c].asked
    BY <1>1, <1>2, SizesAreNumbers DEF Strictest, CollectorRecords
  <2> QED BY <1>4, <2>1, <2>2
<1> HIDE DEF one, least
<1>6. /\ made' \in [1..n -> CollectorRecords] /\ made'[c] = one /\ \A d \in 1..n : d # c => made'[d] = made[d]
      /\ \A d \in 1..n : made'[d].dir = made[d].dir
  BY <1>2, <1>3, <1>4
<1>7. owners' \in [1..n -> Nat] /\ \A d \in 1..n : owners'[d] > 0 <=> owners[d] > 0
  BY <1>2
<1>8. /\ made' \in Seq(CollectorRecords) /\ Len(made') = n
      /\ owners' \in Seq(Nat) /\ Len(owners') = n
  <2>1. made' \in Seq(CollectorRecords) /\ Len(made') = n
    <3>1. \A f \in [1..n -> CollectorRecords] : f \in Seq(CollectorRecords) /\ Len(f) = n
      BY <1>2, FunctionIsSeq
    <3> HIDE DEF n
    <3> QED BY <1>6, <3>1, Zenon
  <2>2. owners' \in Seq(Nat) /\ Len(owners') = n
    BY SMTT(40), <1>2, <1>7, FunctionIsSeq
  <2> QED BY <2>1, <2>2
<1>9. ListIsExact'
  <2>1. c \notin dying
    BY <1>1 DEF ListIsExact
  <2>2. \A d \in dying : owners'[d] = 0
    BY <1>1, <1>2, <2>1 DEF ListIsExact
  <2>3. {d \in 1..n : owners'[d] > 0} = {d \in 1..n : owners[d] > 0}
    BY <1>7
  <2> QED BY <1>1, <1>8, <2>2, <2>3 DEF ListIsExact
<1>10. Strictest'
  BY <1>1, <1>4, <1>5, <1>6, <1>8 DEF Strictest
<1>11. OneIsAlive'
  BY <1>1, <1>6, <1>7, <1>8 DEF OneIsAlive
<1> QED BY <1>9, <1>10, <1>11 DEF CRInv

\* The last owner of a collector starts its destructor; the list keeps it.
LEMMA ReleaseHolds ==
    ASSUME CRInv, NEW c \in 1..Len(made), release_collector(c)
    PROVE  CRInv'
<1> DEFINE n == Len(made)
<1>1. ListIsExact /\ Strictest /\ OneIsAlive
  BY DEF CRInv
<1>2. owners \in [1..n -> Nat] /\ n \in Nat /\ owners[c] \in Nat
  BY <1>1, CollectorDomains DEF ListIsExact
<1>3. /\ owners[c] > 0
      /\ owners' = [owners EXCEPT ![c] = @ - 1]
      /\ dying' = IF owners[c] = 1 THEN dying \cup {c} ELSE dying
      /\ UNCHANGED <<m_Collectors, made, overtook>>
  BY DEF release_collector
<1>4. /\ owners' \in [1..n -> Nat] /\ owners'[c] = owners[c] - 1
      /\ \A d \in 1..n : d # c => owners'[d] = owners[d]
  BY <1>2, <1>3
<1>5. owners' \in Seq(Nat) /\ Len(owners') = n
  BY <1>2, <1>4
<1>6. ListIsExact'
  <2>1. c \notin dying
    BY <1>1, <1>3 DEF ListIsExact
  <2>2. dying' \subseteq 1..n /\ \A d \in dying' : owners'[d] = 0
    BY <1>1, <1>2, <1>3, <1>4, <2>1 DEF ListIsExact
  <2>3. dying' \cup {d \in 1..n : owners'[d] > 0} = dying \cup {d \in 1..n : owners[d] > 0}
    BY <1>2, <1>3, <1>4
  <2> QED BY <1>1, <1>3, <1>5, <2>2, <2>3 DEF ListIsExact
<1>7. Strictest'
  BY <1>1, <1>3 DEF Strictest
<1>8. OneIsAlive'
  <2>1. \A d \in 1..n : owners'[d] > 0 => owners[d] > 0
    BY <1>2, <1>3, <1>4
  <2> QED BY <1>1, <1>3, <2>1 DEF OneIsAlive
<1> QED BY <1>6, <1>7, <1>8 DEF CRInv

\* The destructor takes the collector, and no other, off the list.
LEMMA RemoveHolds ==
    ASSUME CRInv, NEW c \in 1..Len(made), remove_collector(c)
    PROVE  CRInv'
<1>1. ListIsExact /\ Strictest /\ OneIsAlive
  BY DEF CRInv
<1>2. PICK i \in 1..Len(m_Collectors) :
         m_Collectors[i] = c /\ m_Collectors' = RemoveAt(m_Collectors, i)
  BY <1>1, CollectorDomains DEF remove_collector
<1>3. c \in dying /\ dying' = dying \ {c} /\ UNCHANGED <<made, owners, overtook>>
  BY DEF remove_collector
<1>4. m_Collectors' \in Seq(Nat)
  BY <1>1, <1>2, RemoveAtProperties DEF ListIsExact
<1>5. /\ \A j, k \in 1..Len(m_Collectors') : m_Collectors'[j] = m_Collectors'[k] => j = k
      /\ Range(m_Collectors') = Range(m_Collectors) \ {c}
  <2>1. m_Collectors \in Seq(Nat) /\ \A j, k \in 1..Len(m_Collectors) : m_Collectors[j] = m_Collectors[k] => j = k
    BY <1>1 DEF ListIsExact
  <2> QED BY <1>2, <2>1, RemoveAtRemoves
<1>6. ListIsExact'
  <2>1. Range(m_Collectors') = dying' \cup {d \in 1..Len(made) : owners[d] > 0}
    BY <1>1, <1>3, <1>5 DEF ListIsExact
  <2> QED BY <1>1, <1>3, <1>4, <1>5, <2>1 DEF ListIsExact
<1>7. Strictest' /\ OneIsAlive'
  BY <1>1, <1>3 DEF Strictest, OneIsAlive
<1> QED BY <1>6, <1>7 DEF CRInv

LEMMA CRInvStep == CRInv /\ [CRNext]_crVars => CRInv'
<1> SUFFICES ASSUME CRInv, [CRNext]_crVars PROVE CRInv'
  OBVIOUS
<1>1. ASSUME UNCHANGED <<m_Collectors, made, owners, dying, overtook>> PROVE CRInv'
  BY <1>1 DEF CRInv, ListIsExact, Strictest, OneIsAlive
<1>2. ListIsExact /\ OneIsAlive /\ DOMAIN made = 1..Len(made)
  BY CollectorDomains DEF CRInv
<1>3. ASSUME NEW dir \in Directories, NEW max_size \in Sizes, get_collector(dir, max_size)
      PROVE  CRInv'
  <2> DEFINE c == found(dir)
  <2>1. UNCHANGED dying /\ overtook' = (overtook \/ (Looked(dir) # {} /\ c \in dying))
    BY <1>3 DEF get_collector
  <2>2. overtook' \in BOOLEAN /\ overtook \in BOOLEAN
    BY <1>2, <2>1 DEF OneIsAlive
  <2>3. CASE Looked(dir) = {}
    <3>1. NewCollector(dir, max_size)
      BY <1>3, <2>3 DEF get_collector
    <3> QED BY <2>1, <2>2, <2>3, <3>1, NewCollectorHolds
  <2>4. CASE Looked(dir) # {} /\ Throws(c, dir)
    <3>1. UNCHANGED <<m_Collectors, made, owners>>
      BY <1>3, <2>4 DEF get_collector
    <3>2. UNCHANGED overtook \/ overtook' = TRUE
      BY <2>1, <2>2, <2>4
    <3> QED BY <1>1, <2>1, <2>2, <3>1, <3>2 DEF CRInv, ListIsExact, Strictest, OneIsAlive
  <2>5. CASE Looked(dir) # {} /\ ~Throws(c, dir) /\ c \in dying
    <3>1. NewCollector(dir, max_size)
      BY <1>3, <2>5 DEF get_collector
    <3> QED BY <2>1, <2>2, <2>5, <3>1, NewCollectorHolds
  <2>6. CASE Looked(dir) # {} /\ ~Throws(c, dir) /\ c \notin dying
    <3>1. c \in 1..Len(made) /\ owners[c] > 0
      BY <1>2, <2>6, FoundIsListed
    <3>2. /\ made' = [made EXCEPT ![c].max_size = IF max_size < @ THEN max_size ELSE @,
                                  ![c].asked = @ \cup {max_size}]
          /\ owners' = [owners EXCEPT ![c] = @ + 1]
          /\ UNCHANGED m_Collectors
      BY <1>3, <2>6 DEF get_collector
    <3>3. overtook' = overtook
      BY <2>1, <2>2, <2>6
    <3> HIDE DEF c
    <3> QED BY <2>1, <3>1, <3>2, <3>3, SharingHolds
  <2> QED BY <2>3, <2>4, <2>5, <2>6
<1>4. ASSUME NEW c \in 1..Len(made), release_collector(c) \/ remove_collector(c) \/ create_directories(c)
      PROVE  CRInv'
  BY <1>1, <1>4, ReleaseHolds, RemoveHolds DEF create_directories
<1>5. CASE UNCHANGED crVars
  BY <1>1, <1>5 DEF crVars
<1> QED BY <1>2, <1>3, <1>4, <1>5 DEF CRNext

\* Sinks with one target directory share one collector, with the strictest limit
\* of theirs, for any number of sinks, directories and collectors, and whenever
\* they come and go; only a collector in its destructor lets a second one in.
THEOREM SinksShareCollectors == CRSpec => []CollectorsAreShared
<1>1. CRInv => CollectorsAreShared
  <2> SUFFICES ASSUME CRInv PROVE CollectorsAreShared
    OBVIOUS
  <2>1. ListIsExact /\ Strictest /\ OneIsAlive
    BY DEF CRInv
  <2>2. /\ DOMAIN made = 1..Len(made)
        /\ \A c \in 1..Len(made) : made[c].asked \subseteq Nat
    BY <2>1, CollectorDomains, SizesAreNumbers DEF CollectorRecords
  <2>3. ASSUME ~overtook, NEW dir \in Directories PROVE Cardinality(Living(dir)) <= 1
    <3>1. \A c, d \in Living(dir) : c = d
      BY <2>1, <2>2, <2>3 DEF Living, OneIsAlive
    <3>2. CASE Living(dir) = {}
      BY <3>2, FS_EmptySet
    <3>3. ASSUME NEW c \in Living(dir) PROVE Cardinality(Living(dir)) <= 1
      <4>1. Living(dir) = {c}
        BY <3>1, <3>3
      <4>2. Cardinality({c}) = 1
        BY FS_Singleton, Zenon
      <4> QED BY <4>1, <4>2
    <3> QED BY <3>2, <3>3
  <2>4. ASSUME NEW c \in DOMAIN made PROVE made[c].max_size = Min(made[c].asked)
    <3>1. /\ made[c].max_size \in made[c].asked
          /\ \A s \in made[c].asked : made[c].max_size <= s
          /\ made[c].asked \subseteq Nat
      BY <2>1, <2>2 DEF Strictest
    <3>2. Min(made[c].asked) \in made[c].asked /\ \A s \in made[c].asked : Min(made[c].asked) <= s
      BY <3>1 DEF Min
    <3>3. made[c].max_size <= Min(made[c].asked) /\ Min(made[c].asked) <= made[c].max_size
      BY <3>1, <3>2
    <3>4. made[c].max_size \in Nat /\ Min(made[c].asked) \in Nat
      BY <3>1, <3>2
    <3> QED BY <3>3, <3>4
  <2>5. {m_Collectors[i] : i \in DOMAIN m_Collectors} = dying \cup {c \in DOMAIN made : owners[c] > 0}
    BY <2>1, <2>2 DEF ListIsExact, Range
  <2> QED BY <2>3, <2>4, <2>5 DEF CollectorsAreShared
<1> QED BY <1>1, CRInvInit, CRInvStep, PTL DEF CRSpec
-------------------------------------------------------------------------------
-------------------------------------------------------------------------------
(* File names, for any patterns, counters and dates.  match_pattern goes   *)
(* over the name piece by piece as it was put together, because the        *)
(* letter behind a number ends it.                                         *)

\* The number that digits make, from left to right.
Reads10(v, d) ==
    v \in [0..Len(d) -> Nat] /\ v[0] = 0 /\ \A i \in 1..Len(d) : v[i] = 10 * v[i - 1] + d[i]

LEMMA NumberSteps ==
    ASSUME NEW d \in Seq(Nat)
    PROVE  \E v : Reads10(v, d) /\ Number(d) = v[Len(d)]
<1> DEFINE k == Len(d)
           Up(f) == f = [i \in 0..k |-> IF i = 0 THEN 0 ELSE 10 * f[i - 1] + d[i]]
           V == CHOOSE f : Up(f)
           go == [i \in 1..k |-> [x \in Nat |-> 10 * x + d[i]]]
<1>1. k \in Nat /\ \A i \in 1..k : d[i] \in Nat
  OBVIOUS
<1>2. \A i \in 1..k : \A x \in Nat : go[i][x] = 10 * x + d[i]
  OBVIOUS
<1>3. StaysIn(go, k, Nat)
  BY <1>1, <1>2 DEF StaysIn
<1>4. Number(d) = V[k]
  BY DEF Number
<1> HIDE DEF go, k
<1>5. PICK f : Iterates(f, k, Nat, 0, go)
  BY <1>1, <1>3, IterationExists
<1>6. f \in [0..k -> Nat] /\ f[0] = 0 /\ \A i \in 1..k : i - 1 \in 0..k /\ f[i] = 10 * f[i - 1] + d[i]
  <2>1. f \in [0..k -> Nat] /\ f[0] = 0 /\ \A i \in 1..k : f[i] = go[i][f[i - 1]]
    BY <1>5 DEF Iterates
  <2>2. \A i \in 1..k : i - 1 \in 0..k /\ f[i - 1] \in Nat
    BY <1>1, <2>1
  <2> QED BY <1>2, <2>1, <2>2
<1>7. \A i \in 0..k : i = 0 \/ i \in 1..k
  BY <1>1
<1>8. \A i \in 0..k : f[i] = IF i = 0 THEN 0 ELSE 10 * f[i - 1] + d[i]
  BY <1>6, <1>7
<1>9. Up(f)
  BY <1>6, <1>8
<1>10. Up(V)
  <2> HIDE DEF Up
  <2> QED BY <1>9
<1> HIDE DEF V
<1>11. DOMAIN V = 0..k /\ \A i \in 0..k : V[i] = IF i = 0 THEN 0 ELSE 10 * V[i - 1] + d[i]
  BY <1>10
<1>12. V = [i \in 0..k |-> V[i]]
  BY <1>10
<1>13. V[0] = 0 /\ \A i \in 1..k : i \in 0..k /\ V[i] = 10 * V[i - 1] + d[i]
  BY <1>1, <1>11
<1>14. Alike(V, f, k)
  BY <1>6, <1>13 DEF Alike
<1>15. \A i \in 0..k : V[i] = f[i]
  BY <1>1, <1>14, IterationIsUnique
<1>16. V \in [0..k -> Nat]
  BY <1>6, <1>12, <1>15
<1> HIDE DEF Up
<1> QED BY <1>4, <1>13, <1>16 DEF Reads10, k

LEMMA NumberOfNone == Number(<<>>) = 0
<1>1. <<>> \in Seq(Nat) /\ Len(<<>>) = 0
  OBVIOUS
<1> QED BY <1>1, NumberSteps DEF Reads10

LEMMA NumberOfAppend ==
    ASSUME NEW d \in Seq(Nat), NEW x \in Nat
    PROVE  Number(d) \in Nat /\ Number(Append(d, x)) = 10 * Number(d) + x
<1> DEFINE k == Len(d)
           e == Append(d, x)
<1>1. /\ k \in Nat /\ e \in Seq(Nat) /\ Len(e) = k + 1 /\ e[k + 1] = x
      /\ \A i \in 1..k : e[i] = d[i]
  OBVIOUS
<1>2. PICK v : Reads10(v, d) /\ Number(d) = v[k]
  BY NumberSteps
<1>3. PICK w : Reads10(w, e) /\ Number(e) = w[k + 1]
  <2> HIDE DEF e
  <2> QED BY <1>1, NumberSteps
<1>4. v \in [0..k -> Nat] /\ v[0] = 0 /\ \A i \in 1..k : v[i] = 10 * v[i - 1] + d[i]
  BY <1>2 DEF Reads10
<1> HIDE DEF e, k
<1>5. w[0] = 0 /\ \A i \in 1..k + 1 : w[i] = 10 * w[i - 1] + e[i]
  BY <1>1, <1>3 DEF Reads10
<1>6. \A i \in 1..k : i \in 1..k + 1
  BY <1>1
<1>7. Alike(v, w, k)
  BY <1>1, <1>4, <1>5, <1>6 DEF Alike
<1>8. \A i \in 0..k : v[i] = w[i]
  BY <1>1, <1>7, IterationIsUnique
<1>9. k \in 0..k /\ k + 1 \in 1..k + 1 /\ (k + 1) - 1 = k
  BY <1>1
<1>10. v[k] = w[k] /\ v[k] \in Nat /\ w[k + 1] = 10 * w[k] + x
  BY <1>1, <1>4, <1>5, <1>8, <1>9
<1> QED BY <1>2, <1>3, <1>10 DEF e

LEMMA DecimalShift ==
    ASSUME NEW n \in Nat, n >= 10
    PROVE  n \div 10 \in 0..n - 1 /\ n % 10 \in 0..9 /\ n = 10 * (n \div 10) + (n % 10)
OBVIOUS

\* The digits of the numbers up to n.
Decimals(g, n) ==
    /\ \A i \in 0..n : g[i] \in Seq(0..9)
    /\ \A i \in 0..n : g[i] = IF i < 10 THEN <<i>> ELSE Append(g[i \div 10], i % 10)

LEMMA DecimalsExist == ASSUME NEW n \in Nat PROVE \E g : Decimals(g, n)
<1> DEFINE Good == {m \in Nat : \E g : Decimals(g, m)}
<1>1. 0 \in Good
  <2> DEFINE g == [i \in 0..0 |-> <<0>>]
  <2>1. g[0] = <<0>> /\ <<0>> \in Seq(0..9) /\ \A i \in 0..0 : i = 0
    OBVIOUS
  <2> HIDE DEF g
  <2>2. Decimals(g, 0)
    <3>1. \A i \in 0..0 : i = 0 /\ i < 10
      OBVIOUS
    <3> QED BY <2>1, <3>1 DEF Decimals
  <2> QED BY <2>2
<1>2. ASSUME NEW m \in 1..n, m - 1 \in Good PROVE m \in Good
  <2>1. PICK g : Decimals(g, m - 1)
    BY <1>2
  <2> DEFINE x == IF m < 10 THEN <<m>> ELSE Append(g[m \div 10], m % 10)
             h == [i \in 0..m |-> IF i = m THEN x ELSE g[i]]
  <2>2. h[m] = x /\ m \in Nat /\ m >= 1 /\ \A i \in 0..m - 1 : h[i] = g[i]
    OBVIOUS
  <2>3. m >= 10 => m \div 10 \in 0..m - 1 /\ m % 10 \in 0..9
    BY <2>2, DecimalShift
  <2>4. x \in Seq(0..9) /\ x = IF m < 10 THEN <<m>> ELSE Append(h[m \div 10], m % 10)
    <3>1. CASE m < 10
      BY <2>2, <3>1
    <3>2. CASE ~(m < 10)
      <4>1. m \div 10 \in 0..m - 1 /\ m % 10 \in 0..9
        BY <2>2, <2>3, <3>2
      <4>2. g[m \div 10] \in Seq(0..9)
        BY <2>1, <4>1 DEF Decimals
      <4>3. x = Append(g[m \div 10], m % 10)
        BY <3>2
      <4> HIDE DEF h, x
      <4> QED BY SMTT(40), <2>2, <3>2, <4>1, <4>2, <4>3
    <3> QED BY <3>1, <3>2
  <2> HIDE DEF h, x
  <2>5. ASSUME NEW i \in 0..m - 1
        PROVE  h[i] \in Seq(0..9) /\ h[i] = IF i < 10 THEN <<i>> ELSE Append(h[i \div 10], i % 10)
    <3>1. i >= 10 => i \div 10 \in 0..m - 1
      BY <2>2, DecimalShift
    <3>2. g[i] \in Seq(0..9) /\ g[i] = IF i < 10 THEN <<i>> ELSE Append(g[i \div 10], i % 10)
      BY <2>1 DEF Decimals
    <3>3. h[i] = g[i] /\ (i >= 10 => h[i \div 10] = g[i \div 10]) /\ i \in Nat
      BY <2>2, <3>1
    <3>4. CASE i < 10
      BY <3>2, <3>3, <3>4
    <3>5. CASE ~(i < 10)
      <4>1. i >= 10
        BY <3>3, <3>5
      <4> QED BY <3>2, <3>3, <3>5, <4>1
    <3> QED BY <3>4, <3>5
  <2>6. \A i \in 0..m : i = m \/ i \in 0..m - 1
    BY <2>2
  <2>7. Decimals(h, m)
    BY <2>2, <2>4, <2>5, <2>6 DEF Decimals
  <2> QED BY <2>2, <2>7
<1>3. n \in Good
  <2> HIDE DEF Good
  <2> QED BY <1>1, <1>2, InductionUpTo
<1> QED BY <1>3

LEMMA DecimalsAgree ==
    ASSUME NEW n \in Nat, NEW m \in Nat, NEW g, NEW h, Decimals(g, n), Decimals(h, m),
           NEW i \in Nat, i <= n, i <= m
    PROVE  g[i] = h[i]
<1> DEFINE Off == {j \in 0..i : g[j] # h[j]}
<1> SUFFICES ASSUME Off # {} PROVE FALSE
  OBVIOUS
<1>1. Off \subseteq Nat /\ \A j \in 0..i : j \in 0..n /\ j \in 0..m
  OBVIOUS
<1> HIDE DEF Off
<1>2. PICK j \in Off : \A k \in Off : j <= k
  BY <1>1, LeastElement
<1>3. j \in 0..i /\ g[j] # h[j]
  BY <1>2 DEF Off
<1>4. /\ g[j] = IF j < 10 THEN <<j>> ELSE Append(g[j \div 10], j % 10)
      /\ h[j] = IF j < 10 THEN <<j>> ELSE Append(h[j \div 10], j % 10)
  BY <1>1, <1>3 DEF Decimals
<1>5. j >= 10 /\ j \div 10 \in 0..j - 1
  BY <1>3, <1>4, DecimalShift
<1>6. j \div 10 \in 0..i /\ ~(j <= j \div 10)
  BY <1>3, <1>5
<1>7. g[j \div 10] = h[j \div 10]
  BY <1>2, <1>6 DEF Off
<1> QED BY <1>3, <1>4, <1>7

LEMMA DigitsAre ==
    ASSUME NEW n \in Nat
    PROVE  Digits[n] \in Seq(0..9) /\ Digits[n] = IF n < 10 THEN <<n>> ELSE Append(Digits[n \div 10], n % 10)
<1> DEFINE Up(f) == f = [i \in Nat |-> IF i < 10 THEN <<i>> ELSE Append(f[i \div 10], i % 10)]
           d(m) == CHOOSE g : Decimals(g, m)
           f == [i \in Nat |-> d(i)[i]]
<1>1. \A m \in Nat : Decimals(d(m), m)
  BY DecimalsExist
<1> HIDE DEF d
<1>2. ASSUME NEW i \in Nat
      PROVE  f[i] \in Seq(0..9) /\ f[i] = IF i < 10 THEN <<i>> ELSE Append(f[i \div 10], i % 10)
  <2>1. f[i] = d(i)[i] /\ i \in 0..i
    OBVIOUS
  <2>2. f[i] \in Seq(0..9) /\ f[i] = IF i < 10 THEN <<i>> ELSE Append(d(i)[i \div 10], i % 10)
    BY <1>1, <2>1 DEF Decimals
  <2>3. CASE i >= 10
    <3>1. PICK q \in Nat : q = i \div 10 /\ q <= i
      BY <2>3, DecimalShift
    <3>2. d(q)[q] = d(i)[q]
      BY <1>1, <3>1, DecimalsAgree
    <3> QED BY <2>2, <3>1, <3>2
  <2> QED BY <2>2, <2>3
<1>3. Up(f)
  <2>1. f = [i \in Nat |-> f[i]]
    OBVIOUS
  <2> HIDE DEF f
  <2> QED BY <1>2, <2>1
<1>4. Up(Digits)
  <2> HIDE DEF f
  <2>1. Digits = CHOOSE g : Up(g)
    BY DEF Digits
  <2> HIDE DEF Up
  <2> QED BY <1>3, <2>1
<1>5. \A i \in Nat : Digits[i] = IF i < 10 THEN <<i>> ELSE Append(Digits[i \div 10], i % 10)
  <2> PICK D : D = Digits
    OBVIOUS
  <2>1. Up(D)
    BY <1>4
  <2> QED BY <2>1
<1> DEFINE Off == {i \in Nat : Digits[i] \notin Seq(0..9)}
<1>6. ASSUME Off # {} PROVE FALSE
  <2>1. Off \subseteq Nat
    OBVIOUS
  <2> HIDE DEF Off
  <2>2. PICK j \in Off : \A k \in Off : j <= k
    BY <1>6, <2>1, LeastElement
  <2>3. j \in Nat /\ Digits[j] \notin Seq(0..9)
    BY <2>2 DEF Off
  <2>4. CASE j < 10
    <3>1. Digits[j] = <<j>> /\ j \in 0..9
      <4>1. j \in Nat
        BY <2>3
      <4>2. Digits[j] = <<j>>
        BY <1>5, <2>4, <4>1, Zenon
      <4> QED BY <2>4, <4>1, <4>2
    <3>2. <<j>> \in Seq(0..9)
      BY <3>1
    <3> QED BY <2>3, <3>1, <3>2
  <2>5. CASE ~(j < 10)
    <3>1. j \div 10 \in 0..j - 1 /\ j % 10 \in 0..9
      BY <2>3, <2>5, DecimalShift
    <3>2. Digits[j \div 10] \in Seq(0..9)
      BY <2>2, <2>3, <3>1 DEF Off
    <3>3. Digits[j] = Append(Digits[j \div 10], j % 10)
      BY <1>5, <2>3, <2>5
    <3> QED BY <2>3, <3>1, <3>2, <3>3
  <2> QED BY <2>4, <2>5
<1> QED BY <1>5, <1>6

LEMMA RepeatIs ==
    ASSUME NEW S, NEW c \in S, NEW n \in Nat
    PROVE  /\ Repeat(c, n) \in Seq(S) /\ Len(Repeat(c, n)) = n /\ \A i \in 1..n : Repeat(c, n)[i] = c
           /\ n > 0 => Repeat(c, n) = Append(Repeat(c, n - 1), c)
           /\ n = 0 => Repeat(c, n) = <<>>
<1>1. \A m \in Nat : /\ Repeat(c, m) \in Seq(S) /\ Len(Repeat(c, m)) = m
                     /\ \A i \in 1..m : Repeat(c, m)[i] = c
  <2> TAKE m \in Nat
  <2>1. Repeat(c, m) \in [1..m -> S] /\ \A i \in 1..m : Repeat(c, m)[i] = c
    BY DEF Repeat
  <2> QED BY <2>1, FunctionIsSeq
<1>2. ASSUME n > 0 PROVE Repeat(c, n) = Append(Repeat(c, n - 1), c)
  <2>1. n - 1 \in Nat
    BY <1>2
  <2> DEFINE r == Repeat(c, n)  q == Repeat(c, n - 1)
  <2>2. r \in Seq(S) /\ q \in Seq(S) /\ Len(r) = n /\ Len(q) = n - 1
    BY <1>1, <2>1
  <2>3. \A i \in 1..n : r[i] = c /\ (i \in 1..n - 1 => q[i] = c)
    BY <1>1, <2>1
  <2> HIDE DEF r, q
  <2>4. \A i \in 1..n : i \in 1..n - 1 \/ i = (n - 1) + 1
    BY <2>1
  <2>5. /\ Append(q, c) \in Seq(S) /\ Len(Append(q, c)) = n /\ Append(q, c)[(n - 1) + 1] = c
        /\ \A i \in 1..n - 1 : Append(q, c)[i] = q[i]
    BY <2>2
  <2>6. \A i \in 1..n : r[i] = Append(q, c)[i]
    BY <2>3, <2>4, <2>5
  <2>7. r = Append(q, c)
    <3> PICK p : p = Append(q, c)
      OBVIOUS
    <3>1. p \in Seq(S) /\ Len(p) = n /\ \A i \in 1..n : r[i] = p[i]
      BY <2>5, <2>6
    <3>2. r = p
      BY <2>2, <3>1, SeqEqual
    <3> QED BY <3>2
  <2> QED BY <2>7 DEF r, q
<1>3. n = 0 => Repeat(c, n) = <<>>
  BY <1>1, EmptySeq
<1> QED BY <1>1, <1>2, <1>3

LEMMA NumberOfZeros == ASSUME NEW k \in Nat PROVE Number(Repeat(0, k)) = 0
<1> DEFINE Good == {j \in Nat : Number(Repeat(0, j)) = 0}
<1>1. 0 \in Good
  BY ZenonT(60), RepeatIs, NumberOfNone
<1>2. ASSUME NEW j \in 1..k, j - 1 \in Good PROVE j \in Good
  <2>1. j \in Nat /\ j > 0 /\ j - 1 \in Nat /\ 0 \in Nat
    OBVIOUS
  <2>2. Repeat(0, j) = Append(Repeat(0, j - 1), 0) /\ Repeat(0, j - 1) \in Seq(Nat)
    BY <2>1, RepeatIs
  <2>3. Number(Repeat(0, j - 1)) = 0
    BY <1>2
  <2>4. Number(Repeat(0, j)) = 10 * 0 + 0
    BY <2>1, <2>2, <2>3, NumberOfAppend
  <2> QED BY <2>1, <2>4
<1>3. k \in Good
  <2> HIDE DEF Good
  <2> QED BY <1>1, <1>2, InductionUpTo
<1> QED BY <1>3

\* Leading zeros or none, the digits of a number make the number.
LEMMA NumberOfDigits ==
    ASSUME NEW n \in Nat, NEW k \in Nat
    PROVE  Number(Repeat(0, k) \o Digits[n]) = n
<1> DEFINE Z == Repeat(0, k)
           Off == {i \in Nat : Number(Z \o Digits[i]) # i}
<1> SUFFICES ASSUME Off # {} PROVE FALSE
  OBVIOUS
<1>1. Off \subseteq Nat
  OBVIOUS
<1> HIDE DEF Off
<1>2. PICK j \in Off : \A i \in Off : j <= i
  BY <1>1, LeastElement
<1>3. j \in Nat /\ Number(Z \o Digits[j]) # j
  BY <1>2 DEF Off
<1>4. Z \in Seq(Nat) /\ Number(Z) = 0
  BY RepeatIs, NumberOfZeros
<1> HIDE DEF Z
<1>5. CASE j < 10
  <2>1. Digits[j] = <<j>>
    BY <1>3, <1>5, DigitsAre, Zenon
  <2>2. Z \o <<j>> = Append(Z, j)
    BY <1>3, <1>4, AppendIsConcat
  <2>3. Number(Append(Z, j)) = 10 * 0 + j
    BY <1>3, <1>4, NumberOfAppend
  <2>4. 10 * 0 + j = j
    BY <1>3
  <2> QED BY <1>3, <2>1, <2>2, <2>3, <2>4, Zenon
<1>6. CASE ~(j < 10)
  <2>1. PICK q \in 0..j - 1, r \in 0..9 : q = j \div 10 /\ r = j % 10 /\ j = 10 * q + r
    BY <1>3, <1>6, DecimalShift
  <2>2. Digits[j] = Append(Digits[q], r)
    BY <1>3, <1>6, <2>1, DigitsAre, Zenon
  <2>3. q \in Nat /\ ~(j <= q) /\ r \in Nat
    BY <1>3, <2>1
  <2>4. Number(Z \o Digits[q]) = q
    BY <1>2, <2>3 DEF Off
  <2>5. PICK d \in Seq(Nat) : d = Digits[q]
    <3>1. Digits[q] \in Seq(0..9)
      BY <2>3, DigitsAre
    <3>2. Digits[q] \in Seq(Nat)
      <4> PICK e : e = Digits[q]
        OBVIOUS
      <4>1. e \in Seq(0..9)
        BY <3>1
      <4>2. e \in Seq(Nat)
        BY <4>1
      <4> QED BY <4>2
    <3> QED BY <3>2
  <2>6. Z \o Append(d, r) = Append(Z \o d, r) /\ Z \o d \in Seq(Nat)
    <3>1. \A T : Z \in Seq(T) /\ d \in Seq(T) /\ r \in T
                   => Z \o Append(d, r) = Append(Z \o d, r) /\ Z \o d \in Seq(T)
      <4> TAKE T
      <4> SUFFICES ASSUME Z \in Seq(T), d \in Seq(T), r \in T
                   PROVE  Z \o Append(d, r) = Append(Z \o d, r) /\ Z \o d \in Seq(T)
        OBVIOUS
      <4> QED BY AppendBehindConcat
    <3>2. Z \in Seq(Nat) /\ d \in Seq(Nat) /\ r \in Nat
      BY <1>4, <2>3
    <3> QED BY <3>1, <3>2, Zenon
  <2>7. Number(Append(Z \o d, r)) = 10 * q + r
    <3> PICK e \in Seq(Nat) : e = Z \o d
      BY <2>6
    <3>1. Number(e) = q
      BY <2>4, <2>5
    <3>2. Number(Append(e, r)) = 10 * Number(e) + r
      BY <2>3, NumberOfAppend
    <3> QED BY <3>1, <3>2
  <2> QED BY <1>3, <2>1, <2>2, <2>5, <2>6, <2>7
<1> QED BY <1>5, <1>6

\* file_counter_formatter.
LEMMA PaddedIs ==
    ASSUME NEW n \in Nat, NEW w \in Nat
    PROVE  /\ Padded(n, w) \in Seq(0..9) /\ Number(Padded(n, w)) = n
           /\ Len(Padded(n, w)) >= w /\ Len(Padded(n, w)) >= 1
<1> DEFINE D == Digits[n]
<1>1. D \in Seq(0..9)
  BY DigitsAre
<1>2. Len(D) >= 1
  <2>1. CASE n < 10
    <3>1. D = <<n>>
      BY <2>1, DigitsAre, Zenon
    <3> QED BY <3>1
  <2>2. CASE ~(n < 10)
    <3>1. n \div 10 \in Nat /\ n % 10 \in 0..9
      BY <2>2, DecimalShift
    <3>2. Digits[n \div 10] \in Seq(0..9)
      BY <3>1, DigitsAre
    <3>3. D = Append(Digits[n \div 10], n % 10)
      BY <2>2, DigitsAre, Zenon
    <3> QED BY <3>1, <3>2, <3>3
  <2> QED BY <2>1, <2>2
<1>3. \A k \in Nat : Number(Repeat(0, k) \o D) = n
  BY NumberOfDigits
<1> HIDE DEF D
<1>4. CASE Len(D) >= w
  <2>1. Padded(n, w) = D
    BY <1>4 DEF Padded, D
  <2>2. Repeat(0, 0) = <<>> /\ <<>> \o D = D
    <3>1. 0 \in Nat
      OBVIOUS
    <3>2. Repeat(0, 0) = <<>>
      BY <3>1, RepeatIs, Zenon
    <3> QED BY <1>1, <3>2
  <2>3. Number(D) = n
    BY <1>3, <2>2
  <2> QED BY <1>1, <1>2, <1>4, <2>1, <2>3
<1>5. CASE ~(Len(D) >= w)
  <2>1. PICK k \in Nat : k = w - Len(D)
    BY <1>1, <1>5
  <2>2. Padded(n, w) = Repeat(0, k) \o D
    BY <1>5, <2>1 DEF Padded, D
  <2>3. Repeat(0, k) \in Seq(0..9) /\ Len(Repeat(0, k)) = k
    <3>1. 0 \in 0..9
      OBVIOUS
    <3> QED BY <3>1, RepeatIs, Zenon
  <2>4. Repeat(0, k) \o D \in Seq(0..9) /\ Len(Repeat(0, k) \o D) = w
    <3> PICK r : r = Repeat(0, k)
      OBVIOUS
    <3>1. r \in Seq(0..9) /\ Len(r) = k
      BY <2>3
    <3>2. r \o D \in Seq(0..9) /\ Len(r \o D) = Len(r) + Len(D)
      BY <1>1, <3>1
    <3> QED BY <1>1, <2>1, <3>1, <3>2
  <2> QED BY <1>1, <1>2, <1>3, <1>5, <2>2, <2>4
<1> QED BY <1>4, <1>5

\* What a token becomes in a name.
LEMMA ExpandedIs ==
    ASSUME NEW token \in TokenRecords, NEW n \in Nat, NEW timed
    PROVE  /\ Expanded(token, n, timed) \in Seq(Int)
           /\ token.kind = "letter" => Len(Expanded(token, n, timed)) = 1 /\ Expanded(token, n, timed)[1] = token.c
           /\ token.kind = "percent" => /\ timed => Len(Expanded(token, n, timed)) = 1
                                        /\ Expanded(token, n, timed)[1] = Percent
           /\ token.kind = "time" => /\ token.n \in Nat /\ Len(Expanded(token, n, timed)) = token.n
                                     /\ \A i \in 1..token.n : IsDigit(Expanded(token, n, timed)[i])
           /\ token.kind = "counter" => token.width \in Nat /\ Expanded(token, n, timed) = Padded(n, token.width)
<1>1. CASE token \in [kind : {"letter"}, c : Int]
  <2>1. token.kind = "letter" /\ token.c \in Int /\ Expanded(token, n, timed) = <<token.c>>
    BY <1>1 DEF Expanded
  <2>2. <<token.c>> \in Seq(Int) /\ Len(<<token.c>>) = 1 /\ <<token.c>>[1] = token.c
    BY <2>1
  <2> QED BY <2>1, <2>2
<1>2. CASE token \in [kind : {"time"}, n : Nat]
  <2>1. token.kind = "time" /\ token.n \in Nat /\ Expanded(token, n, timed) = Repeat(TimeDigit, token.n)
    BY <1>2 DEF Expanded
  <2>2. TimeDigit \in 0..9
    BY FPAssumptions
  <2>3. PICK r : r = Repeat(TimeDigit, token.n)
    OBVIOUS
  <2>4. r \in Seq(0..9) /\ Len(r) = token.n /\ \A i \in 1..token.n : r[i] = TimeDigit
    BY <2>1, <2>2, <2>3, RepeatIs, ZenonT(60)
  <2>5. r \in Seq(Int)
    BY <2>4
  <2> QED BY <2>1, <2>2, <2>3, <2>4, <2>5 DEF IsDigit
<1>3. CASE token \in [kind : {"counter"}, width : Nat]
  <2>1. token.kind = "counter" /\ token.width \in Nat /\ Expanded(token, n, timed) = Padded(n, token.width)
    BY <1>3 DEF Expanded
  <2>2. PICK p : p = Padded(n, token.width)
    OBVIOUS
  <2>3. p \in Seq(0..9)
    BY <2>1, <2>2, PaddedIs
  <2>4. p \in Seq(Int)
    BY <2>3
  <2> QED BY <2>1, <2>2, <2>4
<1>4. CASE token \in [kind : {"percent"}]
  <2>1. PICK k \in {1, 2} : k = (IF timed THEN 1 ELSE 2)
    OBVIOUS
  <2>2. token.kind = "percent" /\ Expanded(token, n, timed) = Repeat(Percent, k)
    BY <1>4, <2>1 DEF Expanded
  <2>3. PICK r : r = Repeat(Percent, k)
    OBVIOUS
  <2>4. k \in Nat /\ Percent \in Int
    BY <2>1 DEF Percent
  <2>5. r \in Seq(Int) /\ Len(r) = k /\ \A i \in 1..k : r[i] = Percent
    BY <2>3, <2>4, RepeatIs, ZenonT(60)
  <2>6. 1 \in 1..k
    BY <2>1
  <2> QED BY <2>1, <2>2, <2>3, <2>5, <2>6
<1> QED BY <1>1, <1>2, <1>3, <1>4 DEF TokenRecords

\* A name is put together token by token.
Builds(up, tokens, n) ==
    /\ \A i \in 0..Len(tokens) : up[i] \in Seq(Int)
    /\ up[0] = <<>>
    /\ \A i \in 1..Len(tokens) : up[i] = up[i - 1] \o Expanded(tokens[i], n, HasTime(tokens))

LEMMA NameSteps ==
    ASSUME NEW tokens \in Seq(TokenRecords), NEW n \in Nat
    PROVE  \E up : Builds(up, tokens, n) /\ file_name(tokens, n) = up[Len(tokens)]
<1> DEFINE k == Len(tokens)
           Up(f) == f = [i \in 0..k |-> IF i = 0 THEN <<>> ELSE f[i - 1] \o Expanded(tokens[i], n, HasTime(tokens))]
           V == CHOOSE f : Up(f)
           go == [i \in 1..k |-> [x \in Seq(Int) |-> x \o Expanded(tokens[i], n, HasTime(tokens))]]
           S == Seq(Int)
<1>1. k \in Nat /\ \A i \in 1..k : tokens[i] \in TokenRecords
  OBVIOUS
<1>2. file_name(tokens, n) = V[k]
  BY DEF file_name
<1> HIDE DEF k
<1>3. \A i \in 1..k : \A x \in S : go[i][x] = x \o Expanded(tokens[i], n, HasTime(tokens))
  OBVIOUS
<1>4. \A i \in 1..k : \A x \in S : x \o Expanded(tokens[i], n, HasTime(tokens)) \in S
  <2> TAKE i \in 1..k
  <2>1. PICK e \in Seq(Int) : e = Expanded(tokens[i], n, HasTime(tokens))
    BY <1>1, ExpandedIs
  <2> QED BY <2>1
<1>5. <<>> \in S
  OBVIOUS
<1> HIDE DEF go, S
<1>6. StaysIn(go, k, S)
  BY <1>3, <1>4 DEF StaysIn
<1>7. PICK f : Iterates(f, k, S, <<>>, go)
  BY <1>1, <1>5, <1>6, IterationExists
<1>8. f \in [0..k -> S] /\ f[0] = <<>> /\ \A i \in 1..k : i - 1 \in 0..k /\ f[i] = f[i - 1] \o Expanded(tokens[i], n, HasTime(tokens))
  <2>1. f \in [0..k -> S] /\ f[0] = <<>> /\ \A i \in 1..k : f[i] = go[i][f[i - 1]]
    BY <1>7 DEF Iterates
  <2>2. \A i \in 1..k : i - 1 \in 0..k /\ f[i - 1] \in S
    BY <1>1, <2>1
  <2> QED BY <1>3, <2>1, <2>2
<1>9. \A i \in 0..k : i = 0 \/ i \in 1..k
  BY <1>1
<1>10. \A i \in 0..k : f[i] = IF i = 0 THEN <<>> ELSE f[i - 1] \o Expanded(tokens[i], n, HasTime(tokens))
  BY <1>8, <1>9
<1>11. Up(f)
  BY <1>8, <1>10
<1>12. Up(V)
  <2> HIDE DEF Up
  <2> QED BY <1>11
<1> HIDE DEF V
<1>13. \A i \in 0..k : V[i] = IF i = 0 THEN <<>> ELSE V[i - 1] \o Expanded(tokens[i], n, HasTime(tokens))
  BY <1>12
<1>14. V[0] = <<>> /\ \A i \in 1..k : V[i] = V[i - 1] \o Expanded(tokens[i], n, HasTime(tokens))
  <2>1. 0 \in 0..k /\ \A i \in 1..k : i \in 0..k /\ i # 0
    BY <1>1
  <2> QED BY <1>13, <2>1, Zenon
<1>15. Alike(V, f, k)
  BY <1>8, <1>14 DEF Alike
<1>16. \A i \in 0..k : V[i] = f[i]
  BY <1>1, <1>15, IterationIsUnique
<1>17. \A i \in 0..k : V[i] \in Seq(Int)
  BY <1>8, <1>16 DEF S
<1> HIDE DEF Up
<1> QED BY <1>2, <1>14, <1>17 DEF Builds, k

\* Where a piece is in the name, and what the earlier ones were stays.
BeginsWith(f, a) ==
    f \in Seq(Int) /\ a \in Seq(Int) /\ Len(a) <= Len(f) /\ \A k \in 1..Len(a) : f[k] = a[k]
Joins(b, a, e) ==
    /\ BeginsWith(b, a) /\ e \in Seq(Int) /\ Len(b) = Len(a) + Len(e)
    /\ \A k \in 1..Len(e) : b[Len(a) + k] = e[k]

LEMMA NameGrows ==
    ASSUME NEW tokens \in Seq(TokenRecords), NEW n \in Nat, NEW up, Builds(up, tokens, n),
           NEW i \in 1..Len(tokens)
    PROVE  Joins(up[i], up[i - 1], Expanded(tokens[i], n, HasTime(tokens)))
<1>1. PICK e : e = Expanded(tokens[i], n, HasTime(tokens))
  OBVIOUS
<1>2. i \in 0..Len(tokens) /\ i - 1 \in 0..Len(tokens) /\ tokens[i] \in TokenRecords
  OBVIOUS
<1>3. e \in Seq(Int)
  BY <1>1, <1>2, ExpandedIs
<1>4. up[i - 1] \in Seq(Int) /\ up[i] \in Seq(Int) /\ up[i] = up[i - 1] \o e
  BY <1>1, <1>2 DEF Builds
<1>5. PICK a, b : a = up[i - 1] /\ b = up[i]
  OBVIOUS
<1>6. a \in Seq(Int) /\ b \in Seq(Int) /\ b = a \o e
  BY <1>4, <1>5
<1>7. /\ Len(b) = Len(a) + Len(e) /\ \A k \in 1..Len(a) : b[k] = a[k]
      /\ \A k \in 1..Len(e) : b[Len(a) + k] = e[k]
  BY <1>3, <1>6
<1>8. Len(e) \in Nat /\ Len(a) \in Nat
  BY <1>3, <1>6
<1>9. Joins(b, a, e)
  BY <1>3, <1>6, <1>7, <1>8 DEF Joins, BeginsWith
<1> QED BY <1>1, <1>5, <1>9

\* The name begins with what the first tokens became.
LEMMA NameBegins ==
    ASSUME NEW tokens \in Seq(TokenRecords), NEW n \in Nat, NEW up, Builds(up, tokens, n),
           NEW i \in 0..Len(tokens)
    PROVE  BeginsWith(up[Len(tokens)], up[i])
<1> DEFINE N == Len(tokens)
           Good == {j \in Nat : i + j <= N => BeginsWith(up[i + j], up[i])}
<1>1. N \in Nat /\ i \in 0..N /\ N - i \in Nat /\ up[i] \in Seq(Int)
  BY DEF Builds
<1>2. 0 \in Good
  <2>1. i + 0 = i /\ Len(up[i]) \in Nat
    BY <1>1
  <2> QED BY <1>1, <2>1 DEF BeginsWith
<1>3. ASSUME NEW j \in 1..N - i, j - 1 \in Good PROVE j \in Good
  <2>1. PICK m \in 1..Len(tokens) : m = i + j /\ m - 1 = i + (j - 1) /\ i + (j - 1) <= N /\ j \in Nat
    <3>1. i + j \in 1..Len(tokens) /\ (i + j) - 1 = i + (j - 1) /\ i + (j - 1) <= N /\ j \in Nat
      BY <1>1
    <3> QED BY <3>1
  <2>2. BeginsWith(up[m - 1], up[i])
    BY <1>3, <2>1
  <2>3. PICK e : Joins(up[m], up[m - 1], e)
    BY NameGrows
  <2>4. PICK a, b, c : a = up[i] /\ b = up[m - 1] /\ c = up[m]
    OBVIOUS
  <2>5. BeginsWith(b, a) /\ Joins(c, b, e)
    BY <2>2, <2>3, <2>4
  <2>6. BeginsWith(c, a)
    BY <2>5 DEF BeginsWith, Joins
  <2> QED BY <2>1, <2>4, <2>6
<1>4. N - i \in Good
  <2> HIDE DEF Good, N
  <2>1. N - i \in 0..N - i
    BY <1>1
  <2> QED BY <1>1, <1>2, <1>3, <2>1, InductionUpTo
<1>5. i + (N - i) = N
  BY <1>1
<1> QED BY <1>1, <1>4, <1>5

\* The run of digits at p, which a piece of the name is, ends behind it.
LEMMA EndOfDigitsIs ==
    ASSUME NEW f \in Seq(Int), NEW p \in Nat, NEW q \in Nat, p <= q, q <= Len(f), ~IsDigit(f[q]),
           \A k \in p..q - 1 : IsDigit(f[k])
    PROVE  EndOfDigits(f, p) = q
<1> DEFINE Ends(k) == /\ \A j \in p..k - 1 : IsDigit(f[j])
                      /\ k = Len(f) + 1 \/ ~IsDigit(f[k])
<1>1. q \in p..Len(f) + 1 /\ Ends(q)
  OBVIOUS
<1>2. ASSUME NEW k \in p..Len(f) + 1, Ends(k) PROVE k = q
  <2>1. CASE k < q
    <3>1. k \in p..q - 1 /\ k # Len(f) + 1
      BY <2>1
    <3> QED BY <1>2, <3>1
  <2>2. CASE k > q
    <3>1. q \in p..k - 1
      BY <2>2
    <3> QED BY <1>2, <3>1
  <2> QED BY <2>1, <2>2
<1>3. EndOfDigits(f, p) = CHOOSE k \in p..Len(f) + 1 : Ends(k)
  BY DEF EndOfDigits
<1> HIDE DEF Ends
<1> QED BY <1>1, <1>2, <1>3

\* match_pattern goes over the piece that a token became: a number is followed
\* by a letter or a percent sign, which is no digit.
Signs == {"letter", "percent"}
Sign(token) == IF token.kind = "percent" THEN Percent ELSE token.c

LEMMA GoesOverPiece ==
    ASSUME NEW tokens \in Seq(TokenRecords), NumbersStandApart(tokens), PercentsAreUnescaped(tokens),
           NEW n \in Nat, NEW up, Builds(up, tokens, n), NEW i \in 1..Len(tokens), NEW c
    PROVE  Over([at |-> Len(up[i - 1]) + 1, fits |-> TRUE, counter |-> c], up[Len(tokens)], tokens[i])
             = [at |-> Len(up[i]) + 1, fits |-> TRUE,
                counter |-> IF tokens[i].kind = "counter" THEN n ELSE c]
<1> DEFINE N == Len(tokens)
<1>1. PICK f, a, b, e, token : f = up[N] /\ a = up[i - 1] /\ b = up[i] /\ token = tokens[i]
                        /\ e = Expanded(token, n, HasTime(tokens))
  OBVIOUS
<1>2. N \in Nat /\ i \in 0..N /\ i - 1 \in 0..N /\ N \in 0..N /\ token \in TokenRecords
  BY <1>1
<1>3. /\ a \in Seq(Int) /\ b \in Seq(Int) /\ e \in Seq(Int) /\ Len(b) = Len(a) + Len(e)
      /\ \A k \in 1..Len(e) : b[Len(a) + k] = e[k]
  <2>1. Joins(up[i], up[i - 1], Expanded(tokens[i], n, HasTime(tokens)))
    BY NameGrows
  <2>2. Joins(b, a, e)
    BY <1>1, <2>1
  <2> QED BY <2>2 DEF Joins, BeginsWith
<1>4. f \in Seq(Int) /\ Len(b) <= Len(f) /\ \A k \in 1..Len(b) : f[k] = b[k]
  <2>1. BeginsWith(up[Len(tokens)], up[i])
    BY <1>2, NameBegins
  <2>2. BeginsWith(f, b)
    BY <1>1, <2>1
  <2> QED BY <2>2 DEF BeginsWith
<1>5. PICK pos \in Nat, size \in Nat : pos = Len(a) + 1 /\ size = Len(e)
  BY <1>3
<1>6. pos \in Nat /\ pos >= 1 /\ pos + size = Len(b) + 1 /\ pos + size <= Len(f) + 1
  BY <1>3, <1>4, <1>5
<1>7. \A k \in 1..size : f[(pos - 1) + k] = e[k]
  <2> TAKE k \in 1..size
  <2>1. (pos - 1) + k = Len(a) + k /\ Len(a) + k \in 1..Len(b)
    BY SMTT(40), <1>3, <1>5
  <2> QED BY <1>3, <1>4, <1>5, <2>1
<1>8. PICK m : m = [at |-> pos, fits |-> TRUE, counter |-> c]
  OBVIOUS
<1>9. m.at = pos /\ m.fits = TRUE /\ m.counter = c
  BY <1>8
<1>10. /\ token.kind \in Signs => size = 1 /\ e[1] = Sign(token)
       /\ token.kind = "time" => token.n \in Nat /\ size = token.n /\ \A k \in 1..size : IsDigit(e[k])
       /\ token.kind = "counter" => token.width \in Nat /\ e = Padded(n, token.width)
  <2>1. PICK timed : timed = HasTime(tokens)
    OBVIOUS
  <2>2. token.kind = "percent" => timed
    BY <1>1, <2>1 DEF PercentsAreUnescaped
  <2>3. e = Expanded(token, n, timed)
    BY <1>1, <2>1
  <2>4. /\ token.kind = "letter" => Len(e) = 1 /\ e[1] = token.c
        /\ token.kind = "percent" => (timed => Len(e) = 1) /\ e[1] = Percent
        /\ token.kind = "time" => token.n \in Nat /\ Len(e) = token.n /\ \A k \in 1..token.n : IsDigit(e[k])
        /\ token.kind = "counter" => token.width \in Nat /\ e = Padded(n, token.width)
    BY ONLY <1>2, <2>3, n \in Nat, ExpandedIs
  <2>5. token.kind \in Signs => size = 1 /\ e[1] = Sign(token)
    <3>1. CASE token.kind = "letter"
      BY <1>5, <2>4, <3>1 DEF Sign
    <3>2. CASE token.kind = "percent"
      BY <1>5, <2>2, <2>4, <3>2 DEF Sign
    <3> QED BY <3>1, <3>2 DEF Signs
  <2> QED BY <1>5, <2>4, <2>5
<1>11. token.kind \in Signs \cup {"time", "counter"}
  BY <1>2 DEF TokenRecords, Signs
<1>12. ASSUME token.kind \notin Signs PROVE pos + size <= Len(f) /\ ~IsDigit(f[pos + size])
  <2>1. i < N /\ tokens[i + 1].kind \in Signs /\ Sign(tokens[i + 1]) < 0
    <3>1. i < N /\ (\/ tokens[i + 1].kind = "percent"
                    \/ tokens[i + 1].kind = "letter" /\ tokens[i + 1].c < 0)
      BY <1>1, <1>2, <1>12 DEF NumbersStandApart, Signs
    <3> QED BY <3>1 DEF Signs, Sign, Percent
  <2>2. PICK d : d = up[i + 1]
    OBVIOUS
  <2>3. PICK x : x = Expanded(tokens[i + 1], n, HasTime(tokens))
    OBVIOUS
  <2>4. i + 1 \in 1..N /\ i + 1 \in 0..N /\ (i + 1) - 1 = i /\ tokens[i + 1] \in TokenRecords
    BY <1>2, <2>1
  <2>5. Len(d) = Len(b) + Len(x) /\ \A k \in 1..Len(x) : d[Len(b) + k] = x[k]
    <3>1. PICK j \in 1..Len(tokens) : j = i + 1 /\ j - 1 = i
      BY <2>4
    <3>2. Joins(up[j], up[j - 1], Expanded(tokens[j], n, HasTime(tokens)))
      BY NameGrows
    <3>3. Joins(d, b, x)
      BY <1>1, <2>2, <2>3, <3>1, <3>2
    <3> QED BY <3>3 DEF Joins
  <2>6. Len(x) = 1 /\ x[1] = Sign(tokens[i + 1])
    <3>1. PICK timed : timed = HasTime(tokens)
      OBVIOUS
    <3>2. PICK next \in TokenRecords : next = tokens[i + 1]
      BY <2>4
    <3>3. next.kind = "percent" => timed
      BY <2>4, <3>1, <3>2 DEF PercentsAreUnescaped
    <3>4. x = Expanded(next, n, timed)
      BY <2>3, <3>1, <3>2
    <3>5. /\ next.kind = "letter" => Len(x) = 1 /\ x[1] = next.c
          /\ next.kind = "percent" => (timed => Len(x) = 1) /\ x[1] = Percent
      BY ONLY <3>4, next \in TokenRecords, n \in Nat, ExpandedIs
    <3>6. CASE next.kind = "letter"
      BY <3>2, <3>5, <3>6 DEF Sign
    <3>7. CASE next.kind = "percent"
      BY <3>2, <3>3, <3>5, <3>7 DEF Sign
    <3> QED BY <2>1, <3>2, <3>6, <3>7 DEF Signs
  <2>7. Len(d) <= Len(f) /\ \A k \in 1..Len(d) : f[k] = d[k]
    <3>1. PICK j \in 0..Len(tokens) : j = i + 1
      BY <2>4
    <3>2. BeginsWith(up[Len(tokens)], up[j])
      BY NameBegins
    <3>3. BeginsWith(f, d)
      BY <1>1, <2>2, <3>1, <3>2
    <3> QED BY <3>3 DEF BeginsWith
  <2>8. pos + size = Len(b) + 1 /\ Len(d) = Len(b) + 1 /\ Len(b) \in Nat
    BY <1>3, <1>6, <2>5, <2>6
  <2>9. f[pos + size] = Sign(tokens[i + 1])
    BY <2>5, <2>6, <2>7, <2>8
  <2>10. Sign(tokens[i + 1]) \in Int
    BY <2>1, <2>4 DEF TokenRecords, Signs, Sign, Percent
  <2>11. PICK y \in Int : y = Sign(tokens[i + 1])
    BY <2>10
  <2>12. y < 0 /\ f[pos + size] = y
    BY <2>1, <2>9, <2>11
  <2>13. ~IsDigit(y)
    BY <2>12 DEF IsDigit
  <2>14. pos + size <= Len(f)
    <3>1. Len(d) <= Len(f)
      BY <2>7
    <3> QED BY <2>8, <3>1
  <2> QED BY <2>12, <2>13, <2>14
<1>13. pos <= Len(f)
  <2>1. CASE token.kind \in Signs
    BY <1>4, <1>6, <1>10, <2>1
  <2>2. CASE token.kind \notin Signs
    BY <1>4, <1>6, <1>12, <2>2
  <2> QED BY <2>1, <2>2
<1>14. \A k \in pos..(pos + size) - 1 : k - (pos - 1) \in 1..size /\ f[k] = e[k - (pos - 1)]
  <2> TAKE k \in pos..(pos + size) - 1
  <2>1. PICK j \in 1..size : j = k - (pos - 1) /\ k = (pos - 1) + j
    BY <1>6
  <2> QED BY <1>7, <2>1
<1>15. CASE token.kind \in Signs
  <2>1. Over(m, f, token) = [m EXCEPT !.at = pos + 1, !.fits = (Sign(token) = f[pos])]
    <3>1. m.fits /\ ~(m.at > Len(f))
      BY <1>4, <1>9, <1>13
    <3>2. PICK sign : sign = Sign(token)
      OBVIOUS
    <3>3. Over(m, f, token) = OverLetter(m, f, sign)
      <4>1. CASE token.kind = "letter"
        BY <3>1, <3>2, <4>1 DEF Over, Sign
      <4>2. CASE token.kind = "percent"
        BY <3>1, <3>2, <4>2 DEF Over, Sign
      <4> QED BY <1>15, <4>1, <4>2 DEF Signs
    <3> QED BY <1>9, <3>2, <3>3 DEF OverLetter
  <2>2. f[pos] = Sign(token)
    <3>1. 1 \in 1..size /\ (pos - 1) + 1 = pos
      BY <1>6, <1>10, <1>15
    <3> QED BY <1>7, <1>10, <1>15, <3>1
  <2>3. Over(m, f, token) = [at |-> pos + 1, fits |-> TRUE, counter |-> c]
    BY <1>8, <2>1, <2>2
  <2>4. pos + 1 = Len(b) + 1
    BY <1>6, <1>10, <1>15
  <2> QED BY <1>1, <1>5, <1>8, <1>15, <2>3, <2>4 DEF Signs
<1>16. CASE token.kind = "time"
  <2>1. pos + size <= Len(f)
    BY <1>12, <1>16 DEF Signs
  <2>2. \A k \in pos..(pos + size) - 1 : IsDigit(f[k])
    BY <1>10, <1>14, <1>16
  <2>3. scan_digits(f, pos, size)
    BY <2>1, <2>2 DEF scan_digits
  <2>4. Over(m, f, token) = OverTime(m, f, size)
    <3>1. m.fits /\ ~(m.at > Len(f))
      BY <1>4, <1>5, <1>9, <1>13
    <3>2. size = token.n
      BY <1>10, <1>16
    <3> QED BY <1>16, <3>1, <3>2 DEF Over
  <2>5. PICK o : o = scan_digits(f, pos, size)
    OBVIOUS
  <2>6. o = TRUE
    BY <2>3, <2>5 DEF scan_digits
  <2>7. OverTime(m, f, size) = [m EXCEPT !.at = pos + size, !.fits = o]
    BY <1>9, <2>5 DEF OverTime
  <2>8. Over(m, f, token) = [at |-> pos + size, fits |-> TRUE, counter |-> c]
    BY <1>8, <2>4, <2>6, <2>7
  <2> QED BY <1>1, <1>5, <1>6, <1>8, <1>16, <2>8
<1>17. CASE token.kind = "counter"
  <2>1. pos + size <= Len(f) /\ ~IsDigit(f[pos + size])
    BY <1>12, <1>17 DEF Signs
  <2>2. PICK w \in Nat : w = token.width
    BY <1>10, <1>17
  <2>3. e \in Seq(0..9) /\ Number(e) = n /\ size >= w /\ size >= 1
    BY <1>5, <1>10, <1>17, <2>2, PaddedIs
  <2>4. \A k \in 1..size : IsDigit(e[k])
    BY <1>5, <2>3 DEF IsDigit
  <2>5. \A k \in pos..(pos + size) - 1 : IsDigit(f[k])
    BY <1>14, <2>4
  <2>6. EndOfDigits(f, pos) = pos + size
    <3>1. PICK q \in Nat : q = pos + size /\ pos <= q
      BY <1>6
    <3> QED BY <1>4, <2>1, <2>5, <3>1, EndOfDigitsIs
  <2>7. scan_digits(f, pos, w)
    <3>1. PICK L \in Nat : L = Len(f)
      BY <1>4
    <3>2. pos + size <= L
      BY <2>1, <3>1
    <3>3. pos + w <= L
      BY <2>3, <3>2
    <3>4. \A k \in pos..(pos + w) - 1 : k \in pos..(pos + size) - 1
      BY <2>3
    <3>5. \A k \in pos..(pos + w) - 1 : IsDigit(f[k])
      BY <2>5, <3>4
    <3>6. pos + w <= Len(f)
      BY <3>1, <3>3
    <3> QED BY <3>5, <3>6 DEF scan_digits
  <2>8. SubSeq(f, pos, (pos + size) - 1) = e
    <3>1. PICK s, last : s = SubSeq(f, pos, last) /\ last = (pos + size) - 1
      OBVIOUS
    <3>2. last \in Nat /\ pos <= last /\ last <= Len(f) /\ pos \in 1..Len(f) /\ (last - pos) + 1 = size
      BY <1>4, <1>6, <2>1, <2>3, <3>1
    <3>3. s \in Seq(Int) /\ Len(s) = (last - pos) + 1 /\ \A k \in 1..(last - pos) + 1 : s[k] = f[(pos + k) - 1]
      <4>1. pos \in Int /\ last \in Int /\ pos <= last
        BY <1>6, <3>2
      <4>2. \A k \in pos..last : f[k] \in Int
        BY <1>4, <3>2
      <4>3. /\ SubSeq(f, pos, last) \in Seq(Int)
            /\ Len(SubSeq(f, pos, last)) = IF pos <= last THEN last - pos + 1 ELSE 0
            /\ \A k \in 1..last - pos + 1 : SubSeq(f, pos, last)[k] = f[pos + k - 1]
        BY <4>1, <4>2, SubSeqProperties
      <4> QED BY <3>1, <4>1, <4>3
    <3>4. \A k \in 1..size : (pos + k) - 1 = (pos - 1) + k
      BY <1>6
    <3>5. \A k \in 1..size : s[k] = e[k]
      BY <1>7, <3>2, <3>3, <3>4
    <3>6. s = e
      BY <1>3, <1>5, <3>2, <3>3, <3>5, SeqEqual
    <3> QED BY <3>1, <3>6
  <2>9. pos + size # pos
    BY <1>6, <2>3
  <2>10. Over(m, f, token) = OverCounter(m, f, w)
    <3>1. m.fits /\ ~(m.at > Len(f))
      BY <1>4, <1>5, <1>9, <1>13
    <3> QED BY <1>17, <2>2, <3>1 DEF Over
  <2>11. PICK o : o = scan_digits(f, pos, w)
    OBVIOUS
  <2>12. o = TRUE
    BY <2>7, <2>11 DEF scan_digits
  <2>13. OverCounter(m, f, w) = [at |-> pos + size, fits |-> o, counter |-> n]
    BY <1>9, <2>3, <2>6, <2>8, <2>9, <2>11 DEF OverCounter
  <2> QED BY <1>1, <1>5, <1>6, <1>8, <1>17, <2>10, <2>12, <2>13
<1> QED BY <1>11, <1>15, <1>16, <1>17

\* So it matches the whole name, and reads the counter.
LEMMA MatchUndoesNaming ==
    ASSUME NEW tokens \in Seq(TokenRecords), NumbersStandApart(tokens), PercentsAreUnescaped(tokens),
           NEW n \in Nat
    PROVE  /\ file_name(tokens, n) \in Seq(Int)
           /\ match_pattern(file_name(tokens, n), tokens).match
           /\ (\E i \in DOMAIN tokens : tokens[i].kind = "counter")
                => match_pattern(file_name(tokens, n), tokens).counter = n
<1> DEFINE N == Len(tokens)
<1>1. PICK up : Builds(up, tokens, n) /\ file_name(tokens, n) = up[N]
  BY NameSteps
<1>2. PICK f : f = up[N]
  OBVIOUS
<1>3. N \in Nat /\ f \in Seq(Int) /\ up[0] = <<>>
  BY <1>1, <1>2 DEF Builds
<1> DEFINE read(j) == IF \E i \in 1..j : tokens[i].kind = "counter" THEN n ELSE 0
           over == [j \in 0..N |-> [at |-> Len(up[j]) + 1, fits |-> TRUE, counter |-> read(j)]]
           Up(g) == g = [j \in 0..N |-> IF j = 0 THEN [at |-> 1, fits |-> TRUE, counter |-> 0]
                                        ELSE Over(g[j - 1], f, tokens[j])]
           V == CHOOSE g : Up(g)
<1>4. match_pattern(f, tokens)
        = [match |-> V[N].fits /\ (V[N].at <= Len(f) => scan_digits(f, V[N].at, Len(f) + 1 - V[N].at)),
           counter |-> V[N].counter]
  BY DEF match_pattern
<1>5. over[0] = [at |-> 1, fits |-> TRUE, counter |-> 0]
  <2>1. Len(up[0]) + 1 = 1 /\ 0 \in 0..N /\ read(0) = 0
    BY <1>3
  <2> QED BY <2>1
<1>6. ASSUME NEW j \in 1..N PROVE over[j] = Over(over[j - 1], f, tokens[j])
  <2>1. j \in 0..N /\ j - 1 \in 0..N
    BY <1>3
  <2>2. over[j - 1] = [at |-> Len(up[j - 1]) + 1, fits |-> TRUE, counter |-> read(j - 1)]
    BY <2>1
  <2>3. Over(over[j - 1], f, tokens[j])
          = [at |-> Len(up[j]) + 1, fits |-> TRUE,
             counter |-> IF tokens[j].kind = "counter" THEN n ELSE read(j - 1)]
    <3> HIDE DEF over, read
    <3> QED BY <1>1, <1>2, <2>2, GoesOverPiece
  <2>4. read(j) = IF tokens[j].kind = "counter" THEN n ELSE read(j - 1)
    <3>1. \A i \in 1..j : i = j \/ i \in 1..j - 1
      BY <2>1
    <3>2. j \in 1..j /\ \A i \in 1..j - 1 : i \in 1..j
      BY <2>1
    <3> QED BY <3>1, <3>2
  <2> HIDE DEF read
  <2> QED BY <2>1, <2>3, <2>4
<1>7. Up(over)
  <2>1. over = [j \in 0..N |-> over[j]]
    OBVIOUS
  <2>2. \A j \in 0..N : j = 0 \/ j \in 1..N
    BY <1>3
  <2> HIDE DEF over
  <2> QED BY <1>5, <1>6, <2>1, <2>2
<1>8. Up(V)
  <2> HIDE DEF Up, over
  <2> QED BY <1>7
<1> HIDE DEF V, over
<1>9. \A j \in 0..N : V[j] = IF j = 0 THEN [at |-> 1, fits |-> TRUE, counter |-> 0]
                                ELSE Over(V[j - 1], f, tokens[j])
  BY <1>8
<1>10. V[0] = over[0] /\ \A j \in 1..N : V[j] = Over(V[j - 1], f, tokens[j])
  <2>1. 0 \in 0..N /\ \A j \in 1..N : j \in 0..N /\ j # 0
    BY <1>3
  <2> QED BY <1>5, <1>9, <2>1, Zenon
<1>11. Alike(V, over, N)
  BY <1>6, <1>10 DEF Alike
<1>12. V[N] = over[N]
  <2>1. N \in 0..N
    BY <1>3
  <2> HIDE DEF N
  <2> QED BY <1>3, <1>11, <2>1, IterationIsUnique
<1>13. V[N] = [at |-> Len(f) + 1, fits |-> TRUE, counter |-> read(N)]
  BY <1>2, <1>3, <1>12 DEF over
<1>14. V[N].fits = TRUE /\ V[N].at = Len(f) + 1 /\ V[N].counter = read(N)
  BY <1>13
<1>15. ~(Len(f) + 1 <= Len(f)) /\ DOMAIN tokens = 1..N
  BY <1>3
<1>16. match_pattern(f, tokens).match /\ match_pattern(f, tokens).counter = read(N)
  <2>1. PICK v, o : v = V[N] /\ o = (v.fits /\ (v.at <= Len(f) => scan_digits(f, v.at, Len(f) + 1 - v.at)))
    OBVIOUS
  <2>2. match_pattern(f, tokens) = [match |-> o, counter |-> v.counter]
    BY <1>4, <2>1
  <2>3. o = TRUE /\ v.counter = read(N)
    <3> HIDE DEF read
    <3>1. v.fits = TRUE /\ ~(v.at <= Len(f)) /\ v.counter = read(N)
      BY <1>14, <1>15, <2>1
    <3> QED BY <2>1, <3>1
  <2> HIDE DEF read
  <2> QED BY <2>2, <2>3
<1> QED BY <1>1, <1>2, <1>3, <1>15, <1>16

FPInv ==
    /\ pattern \in Patterns /\ NumbersStandApart(pattern) /\ counter \in FileCounters
    /\ fileName # <<>> => fileName = file_name(pattern, counter) \o clash
    /\ scanned # NotScanned => /\ fileName = file_name(pattern, counter) \o clash
                               /\ scanned = match_pattern(fileName, pattern)

LEMMA FPInvInit == FPInit => FPInv
BY DEF FPInit, NameFrom, FPInv

LEMMA FPInvStep == FPInv /\ [FPNext]_fpVars => FPInv'
<1> SUFFICES ASSUME FPInv, [FPNext]_fpVars PROVE FPInv'
  OBVIOUS
<1>1. CASE StoreAs
  BY <1>1 DEF StoreAs, FPInv
<1>2. CASE ScanFor
  BY <1>2 DEF ScanFor, FPInv
<1>3. CASE UNCHANGED fpVars
  BY <1>3 DEF fpVars, FPInv
<1> QED BY <1>1, <1>2, <1>3 DEF FPNext

LEMMA ScansUndo == FPInv => ScanUndoesNaming
<1> SUFFICES ASSUME FPInv, scanned # NotScanned, clash = <<>>, PercentsAreUnescaped(pattern)
             PROVE  scanned.match /\ (HasCounter => scanned.counter = counter)
  BY DEF ScanUndoesNaming
<1>1. pattern \in Seq(TokenRecords) /\ NumbersStandApart(pattern) /\ counter \in Nat
  BY FPAssumptions DEF FPInv
<1>2. PICK f : f = file_name(pattern, counter)
  OBVIOUS
<1>3. /\ f \in Seq(Int) /\ match_pattern(f, pattern).match
      /\ HasCounter => match_pattern(f, pattern).counter = counter
  BY <1>1, <1>2, MatchUndoesNaming DEF HasCounter
<1>4. fileName = f \o <<>> /\ scanned = match_pattern(fileName, pattern)
  BY <1>2 DEF FPInv
<1>5. f \o <<>> = f
  BY <1>3
<1> QED BY <1>3, <1>4, <1>5

\* Whatever the pattern, the counter and the date, as long as the numbers in the
\* pattern stand apart and no file is named with both signs of an escaped percent
\* sign, a scan recognizes a file that was stored under its own name and reads the
\* counter back that it was made with.
THEOREM ScansUndoNaming == FPSpec => []ScanUndoesNaming
<1> QED BY FPInvInit, FPInvStep, ScansUndo, PTL DEF FPSpec

-------------------------------------------------------------------------------
(* Once blocks, for any threads, flags and bounds.  RunsOnce and            *)
(* NoLostWakeup are inductive together with the types.                     *)

OnceInv == OnceTypeOK /\ RunsOnce /\ NoLostWakeup

LEMMA OnceTypesInit == OnceInit => OnceTypeOK
BY OnceBoundsAssumption DEF OnceInit, OnceTypeOK, Statuses

LEMMA OnceTypesNext == OnceTypeOK /\ [OnceNext]_onceVars => OnceTypeOK'
<1>. SUFFICES ASSUME OnceTypeOK, [OnceNext]_onceVars PROVE OnceTypeOK'
  OBVIOUS
<1>. USE DEF OnceTypeOK, Statuses, GoTo, SetStatus
<1>1. ASSUME NEW t \in Threads, NEW f \in Flags, executed(t, f) PROVE OnceTypeOK'
  <2>1. entries[t] + 1 \in 0..MaxCalls
    BY <1>1, OnceBoundsAssumption DEF executed
  <2>. QED BY <1>1, <2>1 DEF executed
<1>2. ASSUME NEW t \in Threads, enter_once_block(t) PROVE OnceTypeOK'
  <2>1. CASE status[at[t]] = "initialized"
    BY <1>2, <2>1 DEF enter_once_block
  <2>2. CASE status[at[t]] = "uninitialized"
    BY <1>2, <2>2 DEF enter_once_block
  <2>3. CASE status[at[t]] = "being_initialized"
    BY <1>2, <2>3 DEF enter_once_block
  <2>. QED BY <2>1, <2>2, <2>3
<1>3. ASSUME NEW t \in Threads, commit(t) PROVE OnceTypeOK'
  BY <1>3 DEF commit
<1>4. ASSUME NEW t \in Threads, rollback(t) PROVE OnceTypeOK'
  <2>1. failures' \in 0..MaxFailures
    BY <1>4, OnceBoundsAssumption DEF rollback
  <2>. QED BY <1>4, <2>1 DEF rollback
<1>5. ASSUME NEW t \in Threads, Broadcast(t) PROVE OnceTypeOK'
  BY <1>5 DEF Broadcast
<1>6. ASSUME NEW t \in Threads, WakesSpuriously(t) PROVE OnceTypeOK'
  BY <1>6 DEF WakesSpuriously
<1>7. CASE UNCHANGED onceVars
  BY <1>7 DEF onceVars
<1>. QED BY <1>1, <1>2, <1>3, <1>4, <1>5, <1>6, <1>7 DEF OnceNext

\* Every variable of the blocks keeps its type.
THEOREM OnceTypesAreCorrect == OnceSpec => []OnceTypeOK
BY OnceTypesInit, OnceTypesNext, PTL DEF OnceSpec

\* A flag tells whether a thread is inside its block and whether the block ran.
LEMMA RunsOnceNext == OnceTypeOK /\ RunsOnce /\ [OnceNext]_onceVars => RunsOnce'
<1>. SUFFICES ASSUME OnceTypeOK, RunsOnce, [OnceNext]_onceVars PROVE RunsOnce'
  OBVIOUS
<1>. USE DEF OnceTypeOK, RunsOnce, Statuses, GoTo, SetStatus
<1>1. ASSUME NEW t \in Threads, NEW f \in Flags, executed(t, f) PROVE RunsOnce'
  BY <1>1 DEF executed
<1>2. ASSUME NEW t \in Threads, enter_once_block(t) PROVE RunsOnce'
  <2>1. CASE status[at[t]] = "initialized"
    BY <1>2, <2>1 DEF enter_once_block
  <2>2. CASE status[at[t]] = "uninitialized"
    BY <1>2, <2>2 DEF enter_once_block
  <2>3. CASE status[at[t]] = "being_initialized"
    BY <1>2, <2>3 DEF enter_once_block
  <2>. QED BY <2>1, <2>2, <2>3
<1>3. ASSUME NEW t \in Threads, commit(t) PROVE RunsOnce'
  BY <1>3 DEF commit
<1>4. ASSUME NEW t \in Threads, rollback(t) PROVE RunsOnce'
  BY <1>4 DEF rollback
<1>5. ASSUME NEW t \in Threads, Broadcast(t) PROVE RunsOnce'
  BY <1>5 DEF Broadcast
<1>6. ASSUME NEW t \in Threads, WakesSpuriously(t) PROVE RunsOnce'
  BY <1>6 DEF WakesSpuriously
<1>7. CASE UNCHANGED onceVars
  BY <1>7 DEF onceVars
<1>. QED BY <1>1, <1>2, <1>3, <1>4, <1>5, <1>6, <1>7 DEF OnceNext

\* Every step that takes a flag out of being_initialized leaves a broadcast to
\* be made, and a broadcast leaves nobody waiting.
LEMMA NoLostWakeupNext ==
    OnceTypeOK /\ NoLostWakeup /\ [OnceNext]_onceVars => NoLostWakeup'
<1>. SUFFICES ASSUME OnceTypeOK, NoLostWakeup, [OnceNext]_onceVars PROVE NoLostWakeup'
  OBVIOUS
<1>. USE DEF OnceTypeOK, NoLostWakeup, Statuses, GoTo, SetStatus
<1>1. ASSUME NEW t \in Threads, NEW f \in Flags, executed(t, f) PROVE NoLostWakeup'
  BY <1>1 DEF executed
<1>2. ASSUME NEW t \in Threads, enter_once_block(t) PROVE NoLostWakeup'
  <2>1. CASE status[at[t]] = "initialized"
    BY <1>2, <2>1 DEF enter_once_block
  <2>2. CASE status[at[t]] = "uninitialized"
    BY <1>2, <2>2 DEF enter_once_block
  <2>3. CASE status[at[t]] = "being_initialized"
    BY <1>2, <2>3 DEF enter_once_block
  <2>. QED BY <2>1, <2>2, <2>3
<1>3. ASSUME NEW t \in Threads, commit(t) PROVE NoLostWakeup'
  BY <1>3 DEF commit
<1>4. ASSUME NEW t \in Threads, rollback(t) PROVE NoLostWakeup'
  BY <1>4 DEF rollback
<1>5. ASSUME NEW t \in Threads, Broadcast(t) PROVE NoLostWakeup'
  BY <1>5 DEF Broadcast
<1>6. ASSUME NEW t \in Threads, WakesSpuriously(t) PROVE NoLostWakeup'
  BY <1>6 DEF WakesSpuriously
<1>7. CASE UNCHANGED onceVars
  BY <1>7 DEF onceVars
<1>. QED BY <1>1, <1>2, <1>3, <1>4, <1>5, <1>6, <1>7 DEF OnceNext

LEMMA OnceInvariance == OnceSpec => []OnceInv
<1>1. OnceInit => OnceInv
  <2>1. OnceInit => RunsOnce /\ NoLostWakeup
    BY DEF OnceInit, RunsOnce, NoLostWakeup
  <2>. QED BY <2>1, OnceTypesInit DEF OnceInv
<1>2. OnceInv /\ [OnceNext]_onceVars => OnceInv'
  BY OnceTypesNext, RunsOnceNext, NoLostWakeupNext DEF OnceInv
<1>. QED BY <1>1, <1>2, PTL DEF OnceSpec

\* A block runs to its end at most once, in one thread at a time, whatever
\* exceptions leave it and whoever takes it over.
THEOREM BlockRunsOnce == OnceSpec => []RunsOnce
<1>1. OnceInv => RunsOnce
  BY DEF OnceInv
<1>. QED BY <1>1, OnceInvariance, PTL

\* Nobody waits for a flag without a thread inside the block or a broadcast to
\* come, although both are made after the mutex is released.
THEOREM WakeupIsNotLost == OnceSpec => []NoLostWakeup
<1>1. OnceInv => NoLostWakeup
  BY DEF OnceInv
<1>. QED BY <1>1, OnceInvariance, PTL

\* A thread passes a block it does not execute only when the block has run.
THEOREM PassersSeeInitialized == OnceSpec => PassedWhenInitialized
<1>. DEFINE Passed(t) ==
       standing'[t] = "idle" /\ (standing[t] = "enter" \/ entries'[t] # entries[t])
         => status[at'[t]] = "initialized" /\ runs[at'[t]] = 1
<1>1. ASSUME OnceInv, [OnceNext]_onceVars, NEW t \in Threads PROVE Passed(t)
  <2>. USE DEF OnceInv, OnceTypeOK, RunsOnce, Statuses, GoTo, SetStatus
  <2>1. ASSUME NEW u \in Threads, NEW f \in Flags, executed(u, f) PROVE Passed(t)
    BY <1>1, <2>1 DEF executed
  <2>2. ASSUME NEW u \in Threads, enter_once_block(u) PROVE Passed(t)
    <3>1. CASE status[at[u]] = "initialized"
      BY <1>1, <2>2, <3>1 DEF enter_once_block
    <3>2. CASE status[at[u]] = "uninitialized"
      BY <1>1, <2>2, <3>2 DEF enter_once_block
    <3>3. CASE status[at[u]] = "being_initialized"
      BY <1>1, <2>2, <3>3 DEF enter_once_block
    <3>. QED BY <1>1, <3>1, <3>2, <3>3
  <2>3. ASSUME NEW u \in Threads, commit(u) PROVE Passed(t)
    BY <1>1, <2>3 DEF commit
  <2>4. ASSUME NEW u \in Threads, rollback(u) PROVE Passed(t)
    BY <1>1, <2>4 DEF rollback
  <2>5. ASSUME NEW u \in Threads, Broadcast(u) PROVE Passed(t)
    BY <1>1, <2>5 DEF Broadcast
  <2>6. ASSUME NEW u \in Threads, WakesSpuriously(u) PROVE Passed(t)
    BY <1>1, <2>6 DEF WakesSpuriously
  <2>7. CASE UNCHANGED onceVars
    BY <1>1, <2>7 DEF onceVars
  <2>. QED BY <1>1, <2>1, <2>2, <2>3, <2>4, <2>5, <2>6, <2>7 DEF OnceNext
<1>2. OnceInv /\ [OnceNext]_onceVars => [\A t \in Threads : Passed(t)]_onceVars
  BY <1>1
<1>. QED BY <1>2, OnceInvariance, PTL DEF OnceSpec, PassedWhenInitialized

-------------------------------------------------------------------------------
(* The rotation predicates: whatever the lengths of days, weeks and months *)
(* are, whenever they are asked.                                           *)

\* A moment is a day and a time of day, in one way.
LEMMA DayAndTime ==
    ASSUME NEW t \in Nat
    PROVE  /\ date(t) \in Nat /\ time_of_day(t) \in 0..(DayLength - 1)
           /\ t = ptime(date(t), time_of_day(t))
<1>1. DayLength \in Nat /\ DayLength > 0
  BY RPAssumptions
<1> QED BY <1>1 DEF date, time_of_day, ptime

\* Of moments on two days, the one on the later day is later.
LEMMA LaterDay ==
    ASSUME NEW d \in Int, NEW e \in Int, d < e,
           NEW x \in 0..(DayLength - 1), NEW y \in 0..(DayLength - 1)
    PROVE  ptime(d, x) < ptime(e, y)
<1>1. DayLength \in Nat /\ DayLength > 0
  BY RPAssumptions
<1>2. PICK k \in Nat : e = d + 1 + k
  <2>1. e - d - 1 \in Nat /\ e = d + 1 + (e - d - 1)
    OBVIOUS
  <2> QED BY <2>1
<1>3. k * DayLength \in Nat
  BY <1>1
<1>4. e * DayLength = d * DayLength + DayLength + k * DayLength
  BY <1>1, <1>2
<1>5. d * DayLength \in Int
  BY <1>1
<1> QED BY <1>1, <1>3, <1>4, <1>5 DEF ptime

LEMMA MomentIs ==
    ASSUME NEW d \in Nat, NEW x \in 0..(DayLength - 1)
    PROVE  /\ ptime(d, x) \in Nat
           /\ date(ptime(d, x)) = d /\ time_of_day(ptime(d, x)) = x
<1>1. DayLength \in Nat /\ DayLength > 0
  BY RPAssumptions
<1> DEFINE t == ptime(d, x)
<1>2. t \in Nat
  BY <1>1 DEF ptime
<1>3. /\ date(t) \in Nat /\ time_of_day(t) \in 0..(DayLength - 1)
      /\ t = ptime(date(t), time_of_day(t))
  BY <1>2, DayAndTime
<1>4. ~(date(t) < d) /\ ~(d < date(t))
  <2> HIDE DEF t
  <2>1. t = ptime(d, x)
    BY DEF t
  <2>2. date(t) < d => ptime(date(t), time_of_day(t)) < ptime(d, x)
    BY <1>3, LaterDay
  <2>3. d < date(t) => ptime(d, x) < ptime(date(t), time_of_day(t))
    BY <1>3, LaterDay
  <2> QED BY <1>2, <1>3, <2>1, <2>2, <2>3
<1>5. date(t) = d
  BY <1>3, <1>4
<1>6. time_of_day(t) = x
  <2>1. d * DayLength \in Nat
    BY <1>1
  <2>2. t = d * DayLength + x /\ t = d * DayLength + time_of_day(t)
    BY <1>3, <1>5 DEF ptime
  <2> HIDE DEF t
  <2> QED BY <1>3, <2>1, <2>2
<1> QED BY <1>2, <1>5, <1>6

\* The first days of the months: each month begins where the last one ends.
FirstDaysTo(f, k) == f = [m \in 1..k |-> IF m = 1 THEN 0 ELSE f[m - 1] + MonthLengths[m - 1]]

LEMMA MonthsBegin ==
    ASSUME NEW k \in Nat \ {0}
    PROVE  \E f : FirstDaysTo(f, k)
<1> DEFINE Stuck == {j \in 1..k : ~ \E f : FirstDaysTo(f, j)}
<1>1. Stuck = {}
  <2> SUFFICES ASSUME Stuck # {} PROVE FALSE
    OBVIOUS
  <2>1. Stuck \subseteq Nat
    OBVIOUS
  <2> HIDE DEF Stuck
  <2>2. PICK x \in Stuck : \A y \in Stuck : x <= y
    BY <2>1, LeastElement
  <2>3. x \in 1..k /\ ~ \E f : FirstDaysTo(f, x)
    BY <2>2 DEF Stuck
  <2>4. CASE x = 1
    <3> DEFINE f == [m \in 1..1 |-> 0]
    <3>1. f = [m \in 1..1 |-> IF m = 1 THEN 0 ELSE f[m - 1] + MonthLengths[m - 1]]
      <4>1. \A m \in 1..1 : m = 1
        OBVIOUS
      <4> QED BY <4>1
    <3>2. FirstDaysTo(f, 1)
      BY <3>1 DEF FirstDaysTo
    <3> QED BY <2>3, <2>4, <3>2
  <2>5. CASE x # 1
    <3>1. x - 1 \in 1..k /\ x \in Nat /\ x - 1 \in Nat /\ ~(x <= x - 1)
      BY <2>3, <2>5
    <3>2. x - 1 \notin Stuck
      BY <2>2, <3>1
    <3>3. PICK f : FirstDaysTo(f, x - 1)
      BY <3>1, <3>2 DEF Stuck
    <3> DEFINE g == [m \in 1..x |-> IF m = 1 THEN 0 ELSE f[m - 1] + MonthLengths[m - 1]]
    <3>4. \A m \in 1..(x - 1) : f[m] = IF m = 1 THEN 0 ELSE f[m - 1] + MonthLengths[m - 1]
      BY <3>3 DEF FirstDaysTo
    <3>5. \A m \in 1..x : g[m] = IF m = 1 THEN 0 ELSE f[m - 1] + MonthLengths[m - 1]
      OBVIOUS
    <3>6. \A m \in 1..x : m # 1 => m - 1 \in 1..(x - 1)
      BY <3>1
    <3>7. \A m \in 1..(x - 1) : m \in 1..x
      BY <3>1
    <3>8. \A m \in 1..(x - 1) : g[m] = f[m]
      BY <3>4, <3>5, <3>7
    <3>9. \A m \in 1..x : m # 1 => g[m - 1] = f[m - 1]
      BY <3>6, <3>8
    <3>10. g = [m \in 1..x |-> IF m = 1 THEN 0 ELSE g[m - 1] + MonthLengths[m - 1]]
      BY <3>9
    <3>11. FirstDaysTo(g, x)
      BY <3>10 DEF FirstDaysTo
    <3> QED BY <2>3, <3>11
  <2> QED BY <2>4, <2>5
<1>2. k \in 1..k
  OBVIOUS
<1> QED BY <1>1, <1>2

LEMMA MonthsFollow ==
    /\ FirstDay(1) = 0
    /\ \A m \in 1..Len(MonthLengths) :
          /\ FirstDay(m) \in Nat /\ MonthLengths[m] \in Nat \ {0}
          /\ FirstDay(m + 1) = FirstDay(m) + MonthLengths[m]
<1> DEFINE n == Len(MonthLengths)
           len(m) == MonthLengths[m]
<1>1. n \in Nat /\ \A m \in 1..n : len(m) \in Nat \ {0}
  BY RPAssumptions
<1>2. firstDays = CHOOSE f : FirstDaysTo(f, n + 1)
  BY DEF firstDays, FirstDaysTo
<1>3. FirstDaysTo(firstDays, n + 1)
  <2>1. n + 1 \in Nat \ {0}
    BY <1>1
  <2>2. \E f : FirstDaysTo(f, n + 1)
    BY <2>1, MonthsBegin
  <2> QED BY ONLY <1>2, <2>2
<1>4. \A m \in 1..(n + 1) : firstDays[m] = IF m = 1 THEN 0 ELSE firstDays[m - 1] + len(m - 1)
  BY <1>3 DEF FirstDaysTo
<1> HIDE DEF n, len
<1>5. 1 \in 1..(n + 1)
  BY <1>1
<1>6. firstDays[1] = 0
  BY <1>4, <1>5
<1>7. \A m \in 1..n : m + 1 \in 1..(n + 1) /\ m + 1 # 1 /\ (m + 1) - 1 = m
  BY <1>1
<1>8. \A m \in 1..n : firstDays[m + 1] = firstDays[m] + len(m)
  BY <1>4, <1>7
<1>9. \A m \in 1..n : firstDays[m] \in Nat
  <2> DEFINE Bad == {m \in 1..n : firstDays[m] \notin Nat}
  <2> SUFFICES ASSUME Bad # {} PROVE FALSE
    OBVIOUS
  <2>1. Bad \subseteq Nat
    BY <1>1
  <2> HIDE DEF Bad
  <2>2. PICK x \in Bad : \A y \in Bad : x <= y
    BY <2>1, LeastElement
  <2>3. x \in 1..n /\ firstDays[x] \notin Nat
    BY <2>2 DEF Bad
  <2>4. x # 1
    BY <1>6, <2>3
  <2>5. x - 1 \in 1..n /\ ~(x <= x - 1) /\ (x - 1) + 1 = x
    BY <1>1, <2>3, <2>4
  <2>6. firstDays[x - 1] \in Nat
    BY <2>2, <2>5 DEF Bad
  <2>7. firstDays[x] = firstDays[x - 1] + len(x - 1) /\ len(x - 1) \in Nat
    BY <1>1, <1>8, <2>5
  <2> QED BY <2>3, <2>6, <2>7
<1> QED BY <1>1, <1>6, <1>8, <1>9 DEF FirstDay, n, len

\* A month ends before the next ones begin.
LEMMA MonthsInOrder ==
    \A m, l \in 1..Len(MonthLengths) : m < l => FirstDay(m) + MonthLengths[m] <= FirstDay(l)
<1> DEFINE n == Len(MonthLengths)
           len(m) == MonthLengths[m]
<1>1. n \in Nat
  BY RPAssumptions
<1>2. \A m \in 1..n : FirstDay(m) \in Nat /\ len(m) \in Nat \ {0} /\ FirstDay(m + 1) = FirstDay(m) + len(m)
  BY MonthsFollow
<1> HIDE DEF n, len
<1>3. SUFFICES ASSUME NEW m \in 1..n PROVE \A l \in 1..n : m < l => FirstDay(m) + len(m) <= FirstDay(l)
  BY DEF n, len
<1> DEFINE Bad == {l \in 1..n : m < l /\ ~(FirstDay(m) + len(m) <= FirstDay(l))}
<1>4. SUFFICES ASSUME Bad # {} PROVE FALSE
  OBVIOUS
<1>5. Bad \subseteq Nat
  BY <1>1
<1> HIDE DEF Bad
<1>6. PICK x \in Bad : \A y \in Bad : x <= y
  BY <1>4, <1>5, LeastElement
<1>7. x \in 1..n /\ m < x /\ ~(FirstDay(m) + len(m) <= FirstDay(x))
  BY <1>6 DEF Bad
<1>8. x - 1 \in 1..n /\ ~(x <= x - 1) /\ (x - 1) + 1 = x /\ (x - 1 = m \/ m < x - 1)
  BY <1>1, <1>7
<1>9. FirstDay(x) = FirstDay(x - 1) + len(x - 1) /\ FirstDay(x - 1) \in Nat /\ len(x - 1) \in Nat
  BY <1>2, <1>8
<1>10. x - 1 # m
  BY <1>2, <1>7, <1>9
<1>11. FirstDay(m) + len(m) <= FirstDay(x - 1)
  BY <1>6, <1>8, <1>10 DEF Bad
<1>12. FirstDay(m) \in Nat /\ len(m) \in Nat
  BY <1>2
<1> QED BY <1>7, <1>9, <1>11, <1>12

\* A day of the calendar is in one month.
LEMMA MonthIs ==
    ASSUME NEW d \in Nat, NEW m \in 1..Len(MonthLengths),
           FirstDay(m) <= d, d < FirstDay(m) + MonthLengths[m]
    PROVE  MonthOf(d) = m /\ day(d) = d - FirstDay(m) + 1
<1> DEFINE n == Len(MonthLengths)
           len(l) == MonthLengths[l]
<1>1. DOMAIN MonthLengths = 1..n /\ n \in Nat
  BY RPAssumptions
<1>2. \A l \in 1..n : FirstDay(l) \in Nat /\ len(l) \in Nat
  BY MonthsFollow
<1>3. \A l, k \in 1..n : l < k => FirstDay(l) + len(l) <= FirstDay(k)
  BY MonthsInOrder
<1>4. FirstDay(m) <= d /\ d < FirstDay(m) + len(m) /\ m \in 1..n
  OBVIOUS
<1>5. MonthOf(d) = CHOOSE l \in 1..n : FirstDay(l) <= d /\ d < FirstDay(l) + len(l)
  BY <1>1 DEF MonthOf
<1> HIDE DEF n, len
<1>6. \A l \in 1..n : FirstDay(l) <= d /\ d < FirstDay(l) + len(l) => l = m
  <2> SUFFICES ASSUME NEW l \in 1..n, FirstDay(l) <= d, d < FirstDay(l) + len(l), l # m PROVE FALSE
    OBVIOUS
  <2>1. l < m \/ m < l
    BY <1>1, <1>4
  <2>2. FirstDay(l) \in Nat /\ len(l) \in Nat /\ FirstDay(m) \in Nat /\ len(m) \in Nat
    BY <1>2, <1>4
  <2>3. l < m => FirstDay(l) + len(l) <= FirstDay(m)
    BY <1>3, <1>4
  <2>4. m < l => FirstDay(m) + len(m) <= FirstDay(l)
    BY <1>3, <1>4
  <2> QED BY <1>4, <2>1, <2>2, <2>3, <2>4
<1>7. MonthOf(d) = m
  BY <1>4, <1>5, <1>6
<1> QED BY <1>7 DEF day

LEMMA DayIsInMonth ==
    ASSUME NEW d \in Nat, NEW k \in 1..Len(MonthLengths), d < FirstDay(k)
    PROVE  \E m \in 1..Len(MonthLengths) :
              m < k /\ FirstDay(m) <= d /\ d < FirstDay(m) + MonthLengths[m]
<1> DEFINE n == Len(MonthLengths)
           len(l) == MonthLengths[l]
<1>1. n \in Nat /\ k \in 1..n
  BY RPAssumptions
<1>2. FirstDay(1) = 0
  BY MonthsFollow
<1>3. \A l \in 1..n : FirstDay(l) \in Nat /\ len(l) \in Nat /\ FirstDay(l + 1) = FirstDay(l) + len(l)
  BY MonthsFollow
<1> HIDE DEF n, len
<1> DEFINE Later == {l \in 1..n : d < FirstDay(l)}
<1>4. Later \subseteq Nat /\ k \in Later
  BY <1>1
<1> HIDE DEF Later
<1>5. PICK x \in Later : \A y \in Later : x <= y
  BY <1>4, LeastElement
<1>6. x \in 1..n /\ d < FirstDay(x) /\ x <= k
  BY <1>4, <1>5 DEF Later
<1>7. x # 1
  BY <1>2, <1>6
<1>8. x - 1 \in 1..n /\ ~(x <= x - 1) /\ (x - 1) + 1 = x /\ x - 1 < k
  BY <1>1, <1>6, <1>7
<1>9. ~(d < FirstDay(x - 1))
  BY <1>5, <1>8 DEF Later
<1>10. FirstDay(x) = FirstDay(x - 1) + len(x - 1) /\ FirstDay(x - 1) \in Nat
  BY <1>3, <1>8
<1>11. FirstDay(x - 1) <= d /\ d < FirstDay(x - 1) + len(x - 1)
  BY <1>6, <1>9, <1>10
<1> QED BY <1>8, <1>11 DEF n, len

LEMMA BeforeLastMonth ==
    ASSUME NEW t \in Nat, t < ptime(FirstDay(Len(MonthLengths)), 0)
    PROVE  date(t) < FirstDay(Len(MonthLengths))
<1> DEFINE first == FirstDay(Len(MonthLengths))
           d == date(t)
<1>1. DayLength \in Nat /\ DayLength > 0 /\ Len(MonthLengths) \in Nat /\ Len(MonthLengths) > 2
  BY RPAssumptions
<1>2. first \in Nat
  BY <1>1, MonthsFollow
<1>3. d \in Nat /\ time_of_day(t) \in 0..(DayLength - 1) /\ t = ptime(d, time_of_day(t))
  BY DayAndTime
<1>4. first < d => ptime(first, 0) < ptime(d, time_of_day(t))
  <2> HIDE DEF first, d
  <2>1. 0 \in 0..(DayLength - 1)
    BY <1>1
  <2> QED BY <1>2, <1>3, <2>1, LaterDay
<1>5. ptime(first, 0) = first * DayLength /\ first * DayLength \in Nat
  <2> HIDE DEF first
  <2> QED BY <1>1, <1>2 DEF ptime
<1>6. first = d => ptime(first, 0) <= t
  <2>1. first = d => t = first * DayLength + time_of_day(t)
    BY <1>3 DEF ptime
  <2> HIDE DEF first, d
  <2> QED BY <1>3, <1>5, <2>1
<1>7. t < ptime(first, 0)
  OBVIOUS
<1> HIDE DEF first, d
<1>8. ~(first < d) /\ first # d
  BY <1>3, <1>4, <1>5, <1>6, <1>7
<1>9. d < first
  BY <1>2, <1>3, <1>8
<1> QED BY <1>9 DEF first, d

\* The predicate was asked before, at a moment before the last month.
Asked ==
    /\ point \in Points /\ rpNow \in Nat /\ previous \in Nat /\ previous <= rpNow
    /\ rpNow < ptime(FirstDay(Len(MonthLengths)), 0)

\* A day that the predicate can rotate on.
Suits(d) ==
    /\ point.kind = "weekday" => day_of_week(d) = point.day
    /\ point.kind = "monthday" => day(d) = point.day

Passed == point.time <= time_of_day(previous)

\* The first such day on which a rotation comes after m_Previous.
IsNextDay(e) ==
    /\ e \in Nat /\ date(previous) <= e
    /\ e = date(previous) => ~Passed
    /\ e < FirstDay(Len(MonthLengths)) => Suits(e)
    /\ \A c \in Nat : c < FirstDay(Len(MonthLengths)) /\ Suits(c) /\ date(previous) <= c /\ c < e
          => c = date(previous) /\ Passed

LEMMA NextDaily ==
    ASSUME Asked, point.kind = "not_specified"
    PROVE  \E e : IsNextDay(e) /\ NextPoint = ptime(e, point.time)
<1> DEFINE d == date(previous)
           e == d + IF Passed THEN 1 ELSE 0
<1>1. d \in Nat
  BY DayAndTime DEF Asked
<1>2. NextPoint = ptime(e, point.time)
  BY DEF NextPoint, next_daily, Passed
<1>3. \A c : Suits(c)
  BY DEF Suits
<1>4. e \in Nat /\ d <= e /\ (e = d => ~Passed) /\ \A c \in Nat : d <= c /\ c < e => c = d /\ Passed
  BY <1>1
<1>5. IsNextDay(e)
  BY <1>3, <1>4 DEF IsNextDay
<1> QED BY <1>2, <1>5

LEMMA NextWeekday ==
    ASSUME Asked, point.kind = "weekday"
    PROVE  \E e : IsNextDay(e) /\ NextPoint = ptime(e, point.time)
<1> DEFINE d == date(previous)
           w == day_of_week(d)
           p == point.day
           W == WeekLength
           passed == p = w /\ Passed
           e == d + p - w + IF p < w \/ passed THEN W ELSE 0
<1>1. W \in Nat /\ W > 0 /\ p \in Nat /\ p < W
  BY RPAssumptions DEF Asked
<1>2. d \in Nat
  BY DayAndTime DEF Asked
<1>3. NextPoint = ptime(e, point.time)
  BY DEF NextPoint, next_weekday, Passed
<1>4. \A c \in Nat : /\ c \div W \in Nat /\ day_of_week(c) \in 0..(W - 1)
                      /\ c = (c \div W) * W + day_of_week(c)
  BY <1>1 DEF day_of_week
<1>5. \A i, j \in Nat : i < j => i * W + W <= j * W
  <2> SUFFICES ASSUME NEW i \in Nat, NEW j \in Nat, i < j PROVE i * W + W <= j * W
    OBVIOUS
  <2>1. j - i - 1 \in Nat /\ j = i + 1 + (j - i - 1)
    OBVIOUS
  <2>2. PICK k \in Nat : j = i + 1 + k
    BY <2>1
  <2>3. j * W = i * W + W + k * W /\ k * W \in Nat /\ i * W \in Nat
    BY <1>1, <2>2
  <2> QED BY <1>1, <2>3
<1>6. \A i \in Nat : i * W \in Nat /\ i * W + W = (i + 1) * W
  BY <1>1
<1>7. \A i \in Nat : day_of_week(i * W + p) = p
  BY <1>1 DEF day_of_week
<1>8. \A c : Suits(c) <=> day_of_week(c) = p
  BY DEF Suits
<1>9. d = (d \div W) * W + w /\ d \div W \in Nat /\ w \in 0..(W - 1)
  BY <1>2, <1>4
<1> DEFINE q(c) == c \div W
<1>10. e = q(d) * W + p + IF p < w \/ passed THEN W ELSE 0
  <2>1. q(d) * W \in Nat
    BY <1>6, <1>9
  <2> QED BY <1>1, <1>9, <2>1
<1>11. day_of_week(e) = p /\ e \in Nat
  <2>1. CASE p < w \/ passed
    <3>1. e = (q(d) + 1) * W + p /\ q(d) + 1 \in Nat
      <4>1. q(d) * W \in Nat /\ q(d) * W + W = (q(d) + 1) * W
        BY <1>6, <1>9
      <4> QED BY <1>1, <1>9, <1>10, <2>1, <4>1
    <3>2. (q(d) + 1) * W \in Nat
      BY <1>6, <3>1
    <3>3. day_of_week((q(d) + 1) * W + p) = p
      BY <1>7, <3>1
    <3> HIDE DEF e, q, w
    <3> QED BY <1>1, <3>1, <3>2, <3>3
  <2>2. CASE ~(p < w \/ passed)
    <3>1. e = q(d) * W + p /\ q(d) \in Nat
      <4>1. q(d) * W \in Nat
        BY <1>6, <1>9
      <4> QED BY <1>1, <1>9, <1>10, <2>2, <4>1
    <3>2. q(d) * W \in Nat
      BY <1>6, <3>1
    <3>3. day_of_week(q(d) * W + p) = p
      BY <1>7, <3>1
    <3> HIDE DEF e, q, w
    <3> QED BY <1>1, <3>1, <3>2, <3>3
  <2> QED BY <2>1, <2>2
<1>12. d <= e /\ (e = d => ~Passed)
  <2>1. CASE p < w \/ passed
    <3>1. e = d + p - w + W
      BY <2>1
    <3> HIDE DEF e, d, w, p
    <3> QED BY <1>1, <1>2, <1>9, <3>1
  <2>2. CASE ~(p < w \/ passed)
    <3>1. e = d + p - w + 0
      BY <2>2
    <3>2. ~(p < w) /\ (p = w => ~Passed)
      BY <2>2
    <3> HIDE DEF e, d, w, p
    <3> QED BY <1>1, <1>2, <1>9, <3>1, <3>2
  <2> QED BY <2>1, <2>2
<1>13. ASSUME NEW c \in Nat, day_of_week(c) = p, d <= c, c < e
       PROVE  c = d /\ Passed
  <2>1. c = q(c) * W + p /\ q(c) \in Nat
    BY <1>4, <1>13
  <2>2. q(c) * W \in Nat /\ q(d) * W \in Nat
    BY <1>6, <1>9, <2>1
  <2>3. ~(q(c) < q(d))
    <3>1. q(c) < q(d) => q(c) * W + W <= q(d) * W
      BY <1>5, <1>9, <2>1
    <3> HIDE DEF q, e
    <3> QED BY <1>1, <1>9, <1>13, <2>1, <2>2, <3>1 DEF q
  <2>4. ~(q(d) < q(c))
    <3>1. q(d) < q(c) => q(d) * W + W <= q(c) * W
      BY <1>5, <1>9, <2>1
    <3> HIDE DEF q
    <3> QED BY <1>1, <1>10, <1>13, <2>1, <2>2, <3>1
  <2>5. q(c) = q(d)
    BY <1>9, <2>1, <2>3, <2>4
  <2> HIDE DEF q
  <2>6. c = q(d) * W + p
    BY <2>1, <2>5
  <2>7. p < w \/ passed
    BY <1>1, <1>10, <1>13, <2>2, <2>6
  <2>8. ~(p < w)
    BY <1>1, <1>9, <1>13, <2>2, <2>6 DEF q
  <2> QED BY <1>9, <2>6, <2>7, <2>8 DEF q
<1>14. IsNextDay(e)
  <2> HIDE DEF e, d, p
  <2> QED BY <1>8, <1>11, <1>12, <1>13 DEF IsNextDay, d
<1> QED BY <1>3, <1>14

LEMMA NextMonthday ==
    ASSUME Asked, point.kind = "monthday", EveryMonthGoesBeyond
    PROVE  \E e : IsNextDay(e) /\ NextPoint = ptime(e, point.time) /\ NextPoint # NoDate
<1> DEFINE n == Len(MonthLengths)
           len(l) == MonthLengths[l]
           d == date(previous)
           p == point.day
<1>1. n \in Nat /\ n > 2 /\ DOMAIN MonthLengths = 1..n
  BY RPAssumptions
<1>2. p \in Nat /\ p > 0 /\ point.time \in Nat /\ point.time < DayLength
  BY RPAssumptions DEF Asked
<1>3. \A l \in 1..n : p < len(l)
  BY <1>1 DEF EveryMonthGoesBeyond
<1>4. \A l \in 1..n : FirstDay(l) \in Nat /\ len(l) \in Nat /\ FirstDay(l + 1) = FirstDay(l) + len(l)
  BY MonthsFollow
<1>5. d \in Nat /\ d < FirstDay(n)
  <2>1. previous < ptime(FirstDay(n), 0)
    <3>1. FirstDay(n) \in Nat /\ DayLength \in Nat
      BY <1>1, <1>4, RPAssumptions
    <3>2. ptime(FirstDay(n), 0) \in Nat
      BY <3>1 DEF ptime
    <3> QED BY <3>2 DEF Asked
  <2> QED BY <2>1, DayAndTime, BeforeLastMonth DEF Asked
<1>6. PICK m \in 1..n : m < n /\ FirstDay(m) <= d /\ d < FirstDay(m) + len(m)
  <2>1. n \in 1..n
    BY <1>1
  <2> QED BY <1>5, <2>1, DayIsInMonth
<1>7. MonthOf(d) = m /\ day(d) = d - FirstDay(m) + 1
  BY <1>5, <1>6, MonthIs
<1>8. m + 1 \in 1..n /\ (m + 1) - 1 = m
  BY <1>1, <1>6
<1> DEFINE here == FirstDay(m) + p - 1
           passed == p = day(d) /\ Passed
           there == FirstDay(m + 1) + p - 1
           e == IF p < day(d) \/ passed THEN there ELSE here
<1>9. /\ FirstDay(m) \in Nat /\ len(m) \in Nat /\ FirstDay(m + 1) = FirstDay(m) + len(m) /\ p < len(m)
      /\ FirstDay(m + 1) \in Nat /\ len(m + 1) \in Nat /\ p < len(m + 1)
  BY <1>3, <1>4, <1>6, <1>8
<1>10. \A l \in 1..n : LET c == FirstDay(l) + p - 1 IN c \in Nat /\ MonthOf(c) = l /\ day(c) = p
  <2> SUFFICES ASSUME NEW l \in 1..n
               PROVE  LET c == FirstDay(l) + p - 1 IN c \in Nat /\ MonthOf(c) = l /\ day(c) = p
    OBVIOUS
  <2> DEFINE c == FirstDay(l) + p - 1
  <2>1. FirstDay(l) \in Nat /\ len(l) \in Nat /\ p < len(l)
    BY <1>3, <1>4
  <2>2. c \in Nat /\ FirstDay(l) <= c /\ c < FirstDay(l) + len(l)
    BY <1>2, <2>1
  <2>3. MonthOf(c) = l /\ day(c) = c - FirstDay(l) + 1
    <3> HIDE DEF c
    <3> QED BY <2>2, MonthIs
  <2>4. day(c) = p
    BY <1>2, <2>1, <2>3
  <2> QED BY <2>2, <2>3, <2>4
<1>11. here \in Nat /\ MonthOf(here) = m /\ day(here) = p
  BY <1>6, <1>10
<1>12. there \in Nat /\ day(there) = p
  BY <1>8, <1>10
<1>13. AddMonth(here) = there
  <2>1. p # len(m) /\ p < len(m + 1)
    BY <1>2, <1>9
  <2>2. Min({p, len(m + 1)}) = p
    <3> DEFINE k == len(m + 1)
    <3>1. p <= p /\ p <= k /\ ~(k <= p) /\ p \in Nat /\ k \in Nat
      BY <1>2, <1>9
    <3> HIDE DEF p, len, k
    <3>2. Min({p, k}) = CHOOSE x \in {p, k} : \A y \in {p, k} : x <= y
      BY DEF Min
    <3> QED BY <3>1, <3>2 DEF k
  <2>3. AddMonth(here) = FirstDay(m + 1) - 1 + IF p = len(m) THEN len(m + 1) ELSE Min({p, len(m + 1)})
    BY <1>8, <1>11 DEF AddMonth
  <2>4. AddMonth(here) = FirstDay(m + 1) - 1 + p
    BY <2>1, <2>2, <2>3
  <2> HIDE DEF p
  <2> QED BY <1>2, <1>9, <2>4
<1>14. NextPoint = ptime(e, point.time)
  <2>1. NextPoint = next_monthday
    BY DEF NextPoint
  <2>2. ~(p > len(m))
    BY <1>2, <1>9
  <2>3. next_monthday = ptime(IF p < day(d) \/ passed THEN AddMonth(here) ELSE here, point.time)
    BY <1>7, <2>2 DEF next_monthday, Passed
  <2> HIDE DEF here, there, passed
  <2> QED BY <1>13, <2>1, <2>3
<1> DEFINE suits(c) == day(c) = p
<1>15. \A c : Suits(c) <=> suits(c)
  BY DEF Suits
<1>16. e \in Nat /\ suits(e)
  <2> HIDE DEF here, there
  <2> QED BY <1>11, <1>12
<1>17. here < there /\ FirstDay(m + 1) <= there /\ here < FirstDay(m + 1)
  BY <1>2, <1>9
<1>18. ~(p < day(d) \/ passed) => d <= here /\ (here = d => ~Passed)
  <2>1. here = d => p = day(d)
    BY <1>2, <1>5, <1>7, <1>9
  <2>2. ~(p < day(d)) => d <= here
    BY <1>2, <1>5, <1>7, <1>9
  <2> HIDE DEF here, p
  <2> QED BY <2>1, <2>2
<1>19. d < there
  BY <1>5, <1>6, <1>9, <1>12, <1>17
<1>20. d <= e /\ (e = d => ~Passed)
  <2> HIDE DEF here, there, passed
  <2> QED BY <1>5, <1>12, <1>18, <1>19
<1>21. \A c \in Nat : FirstDay(m) <= c /\ c < FirstDay(m + 1) /\ suits(c) => c = here
  <2> SUFFICES ASSUME NEW c \in Nat, FirstDay(m) <= c, c < FirstDay(m + 1), suits(c) PROVE c = here
    OBVIOUS
  <2>1. day(c) = c - FirstDay(m) + 1
    BY <1>6, <1>9, MonthIs
  <2> QED BY <1>2, <1>9, <2>1
<1>22. ASSUME NEW c \in Nat, c < FirstDay(n), suits(c), d <= c, c < e
       PROVE  c = d /\ Passed
  <2>1. FirstDay(m) <= c
    BY <1>5, <1>6, <1>9, <1>22
  <2>2. c < FirstDay(m + 1)
    <3>1. SUFFICES ASSUME ~(c < FirstDay(m + 1)) PROVE FALSE
      OBVIOUS
    <3>2. e = there
      <4> HIDE DEF there
      <4> QED BY <1>9, <1>11, <1>17, <1>22, <3>1
    <3>3. c < there
      <4> HIDE DEF there, here
      <4> QED BY <1>22, <3>2
    <3>4. FirstDay(m + 1) <= c /\ c < FirstDay(m + 1) + len(m + 1)
      BY SMTT(40), <1>2, <1>9, <3>1, <3>3
    <3>5. day(c) = c - FirstDay(m + 1) + 1
      BY <1>8, <3>4, MonthIs
    <3>6. c = there
      BY <1>2, <1>9, <1>22, <3>5
    <3> HIDE DEF there
    <3> QED BY <1>12, <3>3, <3>6
  <2>3. c = here
    BY <1>21, <1>22, <2>1, <2>2
  <2>4. e # here
    <3> HIDE DEF here, e
    <3> QED BY <1>11, <1>22, <2>3
  <2>5. p < day(d) \/ passed
    BY <2>4
  <2>6. ~(p < day(d))
    <3>1. p <= day(d) => ~(d < here)
      BY <1>2, <1>5, <1>7, <1>9
    <3>2. p < day(d) => here < d
      BY <1>2, <1>5, <1>7, <1>9
    <3> HIDE DEF here
    <3> QED BY <1>5, <1>11, <1>22, <2>3, <3>2
  <2>7. p = day(d) => here = d
    BY <1>2, <1>5, <1>7, <1>9
  <2> HIDE DEF here, p
  <2> QED BY <2>3, <2>5, <2>6, <2>7
<1>23. IsNextDay(e)
  <2> HIDE DEF e, d, suits
  <2> QED BY <1>15, <1>16, <1>20, <1>22 DEF IsNextDay, d
<1>24. NextPoint # NoDate
  <2>1. point.time \in 0..(DayLength - 1)
    BY <1>2, RPAssumptions
  <2>2. ptime(e, point.time) \in Nat
    <3> HIDE DEF e
    <3> QED BY <1>16, <2>1, MomentIs
  <2> QED BY <1>14, <2>2 DEF NoDate
<1> QED BY <1>14, <1>23, <1>24

\* The next rotation is the first time of the schedule after m_Previous.
LEMMA NextOfTheDays ==
    ASSUME Asked, point.kind # "interval", point.time < DayLength,
           NEW e, IsNextDay(e), NextPoint = ptime(e, point.time)
    PROVE  rpNow >= NextPoint <=> \E t \in (previous + 1)..rpNow : Suits(date(t)) /\ time_of_day(t) = point.time
<1> DEFINE T == point.time
           first == FirstDay(Len(MonthLengths))
           next == ptime(e, T)
           d == date(previous)
<1>1. T \in 0..(DayLength - 1) /\ T \in Nat
  BY RPAssumptions DEF Asked
<1>2. e \in Nat /\ d <= e /\ (e = d => ~Passed) /\ (e < first => Suits(e))
  BY DEF IsNextDay
<1>3. \A c \in Nat : c < first /\ Suits(c) /\ d <= c /\ c < e => c = d /\ Passed
  BY DEF IsNextDay
<1>4. next \in Nat /\ date(next) = e /\ time_of_day(next) = T
  <2> HIDE DEF T
  <2> QED BY <1>1, <1>2, MomentIs
<1>5. /\ d \in Nat /\ time_of_day(previous) \in 0..(DayLength - 1)
      /\ previous = ptime(d, time_of_day(previous)) /\ previous \in Nat
  BY DayAndTime DEF Asked
<1>6. rpNow \in Nat /\ rpNow < ptime(first, 0)
  BY DEF Asked
<1>7. ptime(first, 0) \in Nat
  <2>1. first \in Nat
    BY MonthsFollow, RPAssumptions
  <2> HIDE DEF first
  <2> QED BY <2>1, RPAssumptions DEF ptime
<1>8. \A t \in Nat : t <= rpNow => date(t) < first
  BY <1>6, <1>7, BeforeLastMonth
<1>9. \A x \in Nat, y \in 0..(DayLength - 1), z \in 0..(DayLength - 1) : y <= z => ptime(x, y) <= ptime(x, z)
  <2> SUFFICES ASSUME NEW x \in Nat, NEW y \in 0..(DayLength - 1), NEW z \in 0..(DayLength - 1), y <= z
               PROVE  ptime(x, y) <= ptime(x, z)
    OBVIOUS
  <2>1. x * DayLength \in Nat
    BY RPAssumptions
  <2> QED BY <2>1 DEF ptime
<1>10. ASSUME rpNow >= NextPoint
       PROVE  \E t \in (previous + 1)..rpNow : Suits(date(t)) /\ time_of_day(t) = T
  <2>1. next <= rpNow
    BY <1>4, <1>6, <1>10
  <2>2. e < first
    BY <1>4, <1>8, <2>1
  <2>3. previous < next
    <3>1. CASE d < e
      <4>1. ptime(d, time_of_day(previous)) < ptime(e, T)
        <5> HIDE DEF d, T
        <5> QED BY <1>1, <1>2, <1>5, <3>1, LaterDay
      <4> QED BY <1>5, <4>1
    <3>2. CASE d = e
      <4>1. time_of_day(previous) < T
        BY <1>1, <1>2, <1>5, <3>2 DEF Passed
      <4>2. previous = d * DayLength + time_of_day(previous) /\ next = d * DayLength + T
        BY <1>5, <3>2 DEF ptime
      <4>3. d * DayLength \in Nat
        BY <1>5, RPAssumptions
      <4> HIDE DEF d, T, next
      <4> QED BY <1>1, <1>5, <4>1, <4>2, <4>3
    <3> HIDE DEF d, next
    <3> QED BY <1>2, <1>5, <3>1, <3>2
  <2>4. Suits(date(next)) /\ time_of_day(next) = T
    BY <1>2, <1>4, <2>2
  <2>5. next \in (previous + 1)..rpNow
    <3> HIDE DEF next
    <3> QED BY <1>4, <1>5, <1>6, <2>1, <2>3
  <2> QED BY <2>4, <2>5
<1>11. ASSUME NEW t \in (previous + 1)..rpNow, Suits(date(t)), time_of_day(t) = T
       PROVE  rpNow >= NextPoint
  <2> DEFINE c == date(t)
  <2>1. t \in Nat /\ previous < t /\ t <= rpNow
    BY <1>5, <1>6
  <2>2. c \in Nat /\ t = ptime(c, T) /\ c < first
    BY <1>8, <1>11, <2>1, DayAndTime
  <2>3. d <= c
    <3>1. c < d => ptime(c, T) < ptime(d, time_of_day(previous))
      <4> HIDE DEF c, d, T
      <4> QED BY <1>1, <1>5, <2>2, LaterDay
    <3> HIDE DEF c, d
    <3> QED BY <1>5, <2>1, <2>2, <3>1
  <2>4. ~(c < e)
    <3>1. SUFFICES ASSUME c < e PROVE FALSE
      OBVIOUS
    <3>2. c = d /\ Passed
      BY <1>3, <1>11, <2>2, <2>3, <3>1
    <3>3. T <= time_of_day(previous)
      BY <3>2 DEF Passed
    <3>4. ptime(d, T) <= ptime(d, time_of_day(previous))
      <4> HIDE DEF d, T
      <4> QED BY <1>1, <1>5, <1>9, <3>3
    <3>5. t <= previous
      BY <1>5, <2>2, <3>2, <3>4
    <3> QED BY <1>5, <2>1, <3>5
  <2>5. next <= t
    <3>1. e < c => ptime(e, T) < ptime(c, T)
      <4> HIDE DEF c, T
      <4> QED BY <1>1, <1>2, <2>2, LaterDay
    <3>2. e = c => next = t
      BY <2>2
    <3>3. e < c \/ e = c
      <4> HIDE DEF c
      <4> QED BY <1>2, <2>2, <2>4
    <3>4. e < c => next < t
      BY <2>2, <3>1
    <3> HIDE DEF c, next
    <3> QED BY <1>4, <2>1, <3>2, <3>3, <3>4
  <2>6. NextPoint = next
    OBVIOUS
  <2> HIDE DEF next
  <2> QED BY <1>4, <1>6, <2>1, <2>5, <2>6
<1> QED BY <1>10, <1>11

LEMMA NextComesFirst ==
    ASSUME Asked, point.kind = "monthday" => EveryMonthGoesBeyond
    PROVE  /\ NextPoint # NoDate
           /\ rpNow >= NextPoint <=> \E t \in (previous + 1)..rpNow : Scheduled(t)
<1>1. point.time \in Nat /\ previous \in Nat /\ rpNow \in Nat
  BY RPAssumptions DEF Asked
<1>2. point.kind \in {"not_specified", "weekday", "monthday"} => point.time < DayLength
  BY RPAssumptions DEF Asked
<1>3. CASE point.kind = "interval"
  <2>1. NextPoint = previous + point.time
    BY <1>3 DEF NextPoint, next_interval
  <2>2. point.time > 0
    BY <1>3, RPAssumptions DEF Asked
  <2>3. \A t : Scheduled(t) <=> previous # NotADateTime /\ t - previous = point.time
    BY <1>3 DEF Scheduled
  <2>4. NextPoint # NoDate
    BY <1>1, <2>1 DEF NoDate
  <2>5. \A t \in (previous + 1)..rpNow : Scheduled(t) => t = NextPoint
    BY <1>1, <2>1, <2>3
  <2>6. rpNow >= NextPoint => NextPoint \in (previous + 1)..rpNow /\ Scheduled(NextPoint)
    BY <1>1, <2>1, <2>2, <2>3 DEF NotADateTime
  <2>7. \A t \in (previous + 1)..rpNow : rpNow >= t
    BY <1>1
  <2> QED BY <2>4, <2>5, <2>6, <2>7
<1>4. CASE point.kind \in {"not_specified", "weekday", "monthday"}
  <2>1. \E e : IsNextDay(e) /\ NextPoint = ptime(e, point.time)
    BY <1>4, NextDaily, NextWeekday, NextMonthday
  <2>2. PICK e : IsNextDay(e) /\ NextPoint = ptime(e, point.time)
    BY <2>1
  <2>3. rpNow >= NextPoint <=> \E t \in (previous + 1)..rpNow : Suits(date(t)) /\ time_of_day(t) = point.time
    BY <1>2, <1>4, <2>2, NextOfTheDays
  <2>4. \A t : Scheduled(t) <=> Suits(date(t)) /\ time_of_day(t) = point.time
    BY <1>4 DEF Scheduled, Suits
  <2>5. NextPoint # NoDate
    <3>1. e \in Nat /\ point.time \in 0..(DayLength - 1)
      BY <1>1, <1>2, <1>4, <2>2, RPAssumptions DEF IsNextDay
    <3>2. NextPoint \in Nat
      BY <2>2, <3>1, MomentIs
    <3> QED BY <3>2 DEF NoDate
  <2> QED BY <2>3, <2>4, <2>5
<1>5. point.kind \in {"not_specified", "weekday", "monthday", "interval"}
  BY RPAssumptions DEF Asked
<1> QED BY <1>3, <1>4, <1>5

-------------------------------------------------------------------------------
\* The history variable is what it is named for.
RPInv ==
    /\ point \in Points
    /\ rpNow \in Nat /\ rpNow < ptime(FirstDay(Len(MonthLengths)), 0)
    /\ due \in BOOLEAN
    /\ previous # NotADateTime =>
          /\ previous \in Nat /\ previous <= rpNow
          /\ due <=> \E t \in (previous + 1)..rpNow : Scheduled(t)

LEMMA RPInitHolds == RPInit => RPInv
<1> SUFFICES ASSUME NEW p \in Points, NEW start \in 0..ptime(FirstDay(2), 0), RPStart(p, start)
             PROVE  RPInv
  BY DEF RPInit
<1>1. /\ DayLength \in Nat /\ DayLength > 0
      /\ Len(MonthLengths) \in Nat /\ Len(MonthLengths) > 2 /\ 2 \in 1..Len(MonthLengths)
  BY RPAssumptions
<1>2. FirstDay(2) \in Nat /\ MonthLengths[2] \in Nat \ {0}
  BY <1>1, MonthsFollow
<1>3. FirstDay(2) + MonthLengths[2] <= FirstDay(Len(MonthLengths)) /\ FirstDay(Len(MonthLengths)) \in Nat
  BY <1>1, MonthsFollow, MonthsInOrder
<1>4. ptime(FirstDay(2), 0) < ptime(FirstDay(Len(MonthLengths)), 0)
  <2>1. FirstDay(2) < FirstDay(Len(MonthLengths))
    BY <1>2, <1>3
  <2>2. 0 \in 0..(DayLength - 1)
    BY <1>1
  <2> QED BY <1>2, <1>3, <2>1, <2>2, LaterDay
<1>5. ptime(FirstDay(2), 0) \in Nat /\ ptime(FirstDay(Len(MonthLengths)), 0) \in Nat
  BY <1>1, <1>2, <1>3 DEF ptime
<1>6. start \in Nat /\ start < ptime(FirstDay(Len(MonthLengths)), 0)
  BY <1>4, <1>5
<1> QED BY <1>6 DEF RPStart, RPInv

LEMMA RPStepHolds == RPInv /\ [RPNext]_rpVars => RPInv'
<1> SUFFICES ASSUME RPInv, [RPNext]_rpVars PROVE RPInv'
  OBVIOUS
<1>1. CASE Pass
  <2>1. /\ rpNow' = rpNow + 1 /\ previous' = previous /\ point' = point
        /\ due' = (due \/ Scheduled(rpNow + 1)) /\ rpNow + 1 < ptime(FirstDay(Len(MonthLengths)), 0)
    BY <1>1 DEF Pass
  <2>2. \A t : Scheduled(t)' <=> Scheduled(t)
    BY <2>1 DEF Scheduled
  <2>3. point' \in Points /\ rpNow' \in Nat /\ rpNow' < ptime(FirstDay(Len(MonthLengths)), 0)
    BY <2>1 DEF RPInv
  <2>4. due' \in BOOLEAN
    <3>1. Scheduled(rpNow + 1) \in BOOLEAN
      BY RPAssumptions DEF Scheduled, RPInv
    <3> QED BY <2>1, <3>1 DEF RPInv
  <2>5. ASSUME previous' # NotADateTime
        PROVE  previous' \in Nat /\ previous' <= rpNow'
    BY <2>1, <2>5 DEF RPInv
  <2>6. ASSUME previous' # NotADateTime
        PROVE  due' <=> \E t \in (previous' + 1)..rpNow' : Scheduled(t)'
    <3>1. due <=> \E t \in (previous + 1)..rpNow : Scheduled(t)
      BY <2>1, <2>6 DEF RPInv
    <3>2. rpNow \in Nat /\ previous \in Nat /\ previous <= rpNow
      BY <2>1, <2>6 DEF RPInv
    <3>3. \A t : t \in (previous + 1)..(rpNow + 1) <=> t \in (previous + 1)..rpNow \/ t = rpNow + 1
      BY <3>2
    <3> QED BY <2>1, <2>2, <3>1, <3>3
  <2> QED BY <2>1, <2>3, <2>4, <2>5, <2>6 DEF RPInv
<1>2. CASE Ask
  <2>1. rpNow' = rpNow /\ point' = point
    BY <1>2 DEF Ask
  <2>2. CASE previous' = rpNow /\ due' = FALSE
    <3>1. rpNow \in Nat /\ previous' <= rpNow' /\ ~ \E t : t \in (previous' + 1)..rpNow'
      BY <2>1, <2>2 DEF RPInv
    <3> QED BY <2>1, <2>2, <3>1 DEF RPInv
  <2>3. CASE UNCHANGED <<previous, due>>
    <3>1. \A t : Scheduled(t)' <=> Scheduled(t)
      BY <2>1, <2>3 DEF Scheduled
    <3> QED BY <2>1, <2>3, <3>1 DEF RPInv
  <2>4. (previous' = rpNow /\ due' = FALSE) \/ UNCHANGED <<previous, due>>
    BY <1>2 DEF Ask
  <2> QED BY <2>2, <2>3, <2>4
<1>3. CASE UNCHANGED rpVars
  <2>1. rpNow' = rpNow /\ point' = point /\ previous' = previous /\ due' = due
    BY <1>3 DEF rpVars
  <2>2. \A t : Scheduled(t)' <=> Scheduled(t)
    BY <2>1 DEF Scheduled
  <2> QED BY <2>1, <2>2 DEF RPInv
<1> QED BY <1>1, <1>2, <1>3 DEF RPNext

LEMMA AskTellsWhatIsDue ==
    ASSUME RPInv, Ask, previous # NotADateTime, point.kind = "monthday" => EveryMonthGoesBeyond
    PROVE  verdict' = IF due THEN "rotate" ELSE "no"
<1>1. Asked
  BY DEF Asked, RPInv
<1>2. NextPoint # NoDate /\ (rpNow >= NextPoint <=> \E t \in (previous + 1)..rpNow : Scheduled(t))
  BY <1>1, NextComesFirst
<1>3. due <=> \E t \in (previous + 1)..rpNow : Scheduled(t)
  BY DEF RPInv
<1>4. verdict' = IF rpNow >= NextPoint THEN "rotate" ELSE "no"
  BY <1>2 DEF Ask
<1>5. due <=> rpNow >= NextPoint
  BY <1>2, <1>3
<1> QED BY <1>4, <1>5

\* Whatever the lengths of the days, weeks and months are, a predicate that is
\* asked at any times says rotate exactly if a time of its schedule has come
\* since it last did (rotation_at_time_point::operator()), a day of the month
\* being one that every month goes beyond.
THEOREM RotationKeepsTheSchedule == RPSpec => RotatesOnSchedule
<1>1. RPInit => RPInv
  BY RPInitHolds
<1>2. RPInv /\ [RPNext]_rpVars => RPInv'
  BY RPStepHolds
<1>3. RPInv /\ [RPNext]_rpVars
      => [(point.kind = "monthday" => EveryMonthGoesBeyond)
          => (Ask /\ previous # NotADateTime => verdict' = IF due THEN "rotate" ELSE "no")]_rpVars
  BY AskTellsWhatIsDue
<1> QED BY <1>1, <1>2, <1>3, PTL DEF RPSpec, RotatesOnSchedule

-------------------------------------------------------------------------------
(* The text file backends and the file collector: any number of backends   *)
(* and processes, whatever fails.  What the collector does depends on sums *)
(* over its list: the size of a list does not depend on its order, and the *)
(* loop that makes room splits the list into the files that are kept, in   *)
(* their order, and those that are erased.  The invariant TFInv then says  *)
(* where a file is, when it was written, and that the numbers and times of *)
(* the files of one backend grow along the list: a scan may sort the list  *)
(* anew only because of the times.                                         *)

\* The sums of x[1], ..., x[i], for every i up to k.
Adds(f, x, k) ==
    /\ f[0] = 0
    /\ \A i \in 0..k : f[i] \in Nat
    /\ \A i \in 1..k : f[i] = f[i - 1] + x[i]

Sums(f, x, k) == f = [i \in 0..k |-> IF i = 0 THEN 0 ELSE f[i - 1] + x[i]]

\* The sums exist.
LEMMA SumsGoOn ==
    ASSUME NEW x, NEW k \in Nat
    PROVE  \E f : Sums(f, x, k)
<1> DEFINE Stuck == {j \in 0..k : ~ \E f : Sums(f, x, j)}
<1>1. Stuck = {}
  <2> SUFFICES ASSUME Stuck # {} PROVE FALSE
    OBVIOUS
  <2>1. Stuck \subseteq Nat
    OBVIOUS
  <2> HIDE DEF Stuck
  <2>2. PICK n \in Stuck : \A y \in Stuck : n <= y
    BY <2>1, LeastElement
  <2>3. n \in 0..k /\ ~ \E f : Sums(f, x, n)
    BY <2>2 DEF Stuck
  <2>4. CASE n = 0
    <3> DEFINE f == [i \in 0..0 |-> 0]
    <3>1. f = [i \in 0..0 |-> IF i = 0 THEN 0 ELSE f[i - 1] + x[i]]
      <4>1. \A i \in 0..0 : i = 0
        OBVIOUS
      <4> QED BY <4>1
    <3>2. Sums(f, x, 0)
      BY <3>1 DEF Sums
    <3> QED BY <2>3, <2>4, <3>2
  <2>5. CASE n # 0
    <3>1. n - 1 \in 0..k /\ n \in Nat /\ n - 1 \in Nat /\ ~(n <= n - 1)
      BY <2>3, <2>5
    <3>2. n - 1 \notin Stuck
      BY <2>2, <3>1
    <3>3. PICK f : Sums(f, x, n - 1)
      BY <3>1, <3>2 DEF Stuck
    <3> DEFINE g == [i \in 0..n |-> IF i = 0 THEN 0 ELSE f[i - 1] + x[i]]
    <3>4. \A i \in 0..(n - 1) : f[i] = IF i = 0 THEN 0 ELSE f[i - 1] + x[i]
      BY <3>3 DEF Sums
    <3>5. \A i \in 0..n : g[i] = IF i = 0 THEN 0 ELSE f[i - 1] + x[i]
      OBVIOUS
    <3>6. \A i \in 0..n : i # 0 => i - 1 \in 0..(n - 1)
      BY <3>1
    <3>7. \A i \in 0..(n - 1) : i \in 0..n
      BY <3>1
    <3>8. \A i \in 0..(n - 1) : g[i] = f[i]
      BY <3>4, <3>5, <3>7
    <3>9. \A i \in 0..n : i # 0 => g[i - 1] = f[i - 1]
      BY <3>6, <3>8
    <3>10. g = [i \in 0..n |-> IF i = 0 THEN 0 ELSE g[i - 1] + x[i]]
      BY <3>9
    <3>11. Sums(g, x, n)
      BY <3>10 DEF Sums
    <3> QED BY <2>3, <3>11
  <2> QED BY <2>4, <2>5
<1>2. k \in 0..k
  OBVIOUS
<1> QED BY <1>1, <1>2

\* They are natural numbers, each the one before and one more summand.
LEMMA SumsAdd ==
    ASSUME NEW x, NEW k \in Nat, \A i \in 1..k : x[i] \in Nat, NEW f, Sums(f, x, k)
    PROVE  Adds(f, x, k)
<1>1. \A i \in 0..k : f[i] = IF i = 0 THEN 0 ELSE f[i - 1] + x[i]
  BY DEF Sums
<1>2. 0 \in 0..k /\ \A i \in 1..k : i \in 0..k /\ i # 0
  OBVIOUS
<1>3. f[0] = 0 /\ \A i \in 1..k : f[i] = f[i - 1] + x[i]
  BY <1>1, <1>2
<1>4. \A i \in 0..k : f[i] \in Nat
  <2> DEFINE Bad == {i \in 0..k : f[i] \notin Nat}
  <2> SUFFICES ASSUME Bad # {} PROVE FALSE
    OBVIOUS
  <2>1. Bad \subseteq Nat
    OBVIOUS
  <2> HIDE DEF Bad
  <2>2. PICK n \in Bad : \A y \in Bad : n <= y
    BY <2>1, LeastElement
  <2>3. n \in 0..k /\ f[n] \notin Nat
    BY <2>2 DEF Bad
  <2>4. n # 0
    BY <1>3, <2>3
  <2>5. n \in 1..k /\ n - 1 \in 0..k /\ ~(n <= n - 1)
    BY <2>3, <2>4
  <2>6. f[n - 1] \in Nat
    BY <2>2, <2>5 DEF Bad
  <2>7. f[n] = f[n - 1] + x[n] /\ x[n] \in Nat
    BY <1>3, <2>5
  <2> QED BY <2>3, <2>6, <2>7
<1> QED BY <1>3, <1>4 DEF Adds

\* The same summands have the same sums.
LEMMA SumsOfTheSame ==
    ASSUME NEW x, NEW y, NEW k \in Nat, \A i \in 1..k : x[i] \in Nat /\ x[i] = y[i],
           NEW f, NEW g, Adds(f, x, k), Adds(g, y, k)
    PROVE  \A i \in 0..k : f[i] = g[i]
<1> DEFINE Bad == {i \in 0..k : f[i] # g[i]}
<1> SUFFICES ASSUME Bad # {} PROVE FALSE
  OBVIOUS
<1>1. Bad \subseteq Nat
  OBVIOUS
<1> HIDE DEF Bad
<1>2. PICK n \in Bad : \A z \in Bad : n <= z
  BY <1>1, LeastElement
<1>3. n \in 0..k /\ f[n] # g[n]
  BY <1>2 DEF Bad
<1>4. n # 0
  BY <1>3 DEF Adds
<1>5. n \in 1..k /\ n - 1 \in 0..k /\ ~(n <= n - 1)
  BY <1>3, <1>4
<1>6. f[n - 1] = g[n - 1]
  BY <1>2, <1>5 DEF Bad
<1>7. f[n] = f[n - 1] + x[n] /\ g[n] = g[n - 1] + y[n]
  BY <1>5 DEF Adds
<1> QED BY <1>3, <1>5, <1>6, <1>7

\* A sum does not change when the summand in place k is put at the end.
LEMMA SumsWithoutOne ==
    ASSUME NEW n \in Nat, NEW k \in 1..(n + 1), NEW x, NEW y, NEW f, NEW g,
           \A i \in 1..(n + 1) : x[i] \in Nat,
           \A i \in 1..n : y[i] = IF i < k THEN x[i] ELSE x[i + 1],
           Adds(f, x, n + 1), Adds(g, y, n)
    PROVE  f[n + 1] = g[n] + x[k]
<1> DEFINE Fits(i) == IF i < k THEN f[i] = g[i] ELSE f[i + 1] = g[i] + x[k]
           Bad == {i \in 0..n : ~Fits(i)}
<1>1. \A i \in 1..(n + 1) : f[i] = f[i - 1] + x[i] /\ f[i] \in Nat /\ f[i - 1] \in Nat
  <2>1. \A i \in 1..(n + 1) : i \in 0..(n + 1) /\ i - 1 \in 0..(n + 1)
    OBVIOUS
  <2> QED BY <2>1 DEF Adds
<1>2. \A i \in 1..n : g[i] = g[i - 1] + y[i] /\ g[i] \in Nat /\ g[i - 1] \in Nat
  <2>1. \A i \in 1..n : i \in 0..n /\ i - 1 \in 0..n
    OBVIOUS
  <2> QED BY <2>1 DEF Adds
<1>3. f[0] = 0 /\ g[0] = 0
  BY DEF Adds
<1>4. \A i \in 0..n : Fits(i)
  <2> SUFFICES ASSUME Bad # {} PROVE FALSE
    OBVIOUS
  <2>1. Bad \subseteq Nat
    OBVIOUS
  <2> HIDE DEF Bad
  <2>2. PICK j \in Bad : \A z \in Bad : j <= z
    BY <2>1, LeastElement
  <2>3. j \in 0..n /\ ~Fits(j)
    BY <2>2 DEF Bad
  <2>4. CASE j = 0
    <3>1. 0 < k
      OBVIOUS
    <3> QED BY <1>3, <2>3, <2>4, <3>1
  <2>5. CASE j # 0
    <3>1. j \in 1..n /\ j - 1 \in 0..n /\ ~(j <= j - 1)
      BY <2>3, <2>5
    <3>2. Fits(j - 1)
      BY <2>2, <3>1 DEF Bad
    <3>3. g[j] = g[j - 1] + y[j] /\ g[j - 1] \in Nat
      BY <1>2, <3>1
    <3>4. j + 1 \in 1..(n + 1) /\ j \in 1..(n + 1) /\ (j + 1) - 1 = j /\ (j - 1) + 1 = j
      BY <3>1
    <3>5. CASE j < k
      <4>1. f[j] = f[j - 1] + x[j]
        BY <1>1, <3>4
      <4>2. f[j - 1] = g[j - 1] /\ y[j] = x[j]
        <5>1. j - 1 < k
          BY <3>1, <3>5
        <5> QED BY <3>1, <3>2, <3>5, <5>1
      <4> QED BY <2>3, <3>3, <3>5, <4>1, <4>2
    <3>6. CASE j = k
      <4>1. f[j + 1] = f[j] + x[j + 1] /\ f[j] = f[j - 1] + x[j] /\ f[j - 1] \in Nat
        BY <1>1, <3>4
      <4>2. f[j - 1] = g[j - 1] /\ y[j] = x[j + 1]
        <5>1. j - 1 < k /\ ~(j < k)
          BY <3>1, <3>6
        <5> QED BY <3>1, <3>2, <5>1
      <4>3. x[j] \in Nat /\ x[j + 1] \in Nat
        BY <3>4
      <4>4. ~(j < k)
        BY <3>6, <3>1
      <4>5. f[j + 1] # g[j] + x[k]
        BY <2>3, <4>4
      <4>6. f[j + 1] = (g[j - 1] + x[j]) + x[j + 1] /\ g[j] = g[j - 1] + x[j + 1]
        BY <3>3, <4>1, <4>2
      <4>7. f[j + 1] = g[j] + x[j]
        BY <3>3, <4>3, <4>6
      <4> QED BY <3>6, <4>5, <4>7
    <3>7. CASE j > k
      <4>1. f[j + 1] = f[j] + x[j + 1] /\ f[j] \in Nat
        BY <1>1, <3>4
      <4>2. ~(j - 1 < k) /\ ~(j < k)
        BY <3>1, <3>7
      <4>3. f[j] = g[j - 1] + x[k] /\ y[j] = x[j + 1]
        BY <3>1, <3>2, <3>4, <4>2
      <4>4. x[k] \in Nat /\ x[j + 1] \in Nat
        BY <3>4
      <4>5. f[j + 1] # g[j] + x[k]
        BY <2>3, <4>2
      <4>6. f[j + 1] = (g[j - 1] + x[k]) + x[j + 1] /\ g[j] = g[j - 1] + x[j + 1]
        BY <3>3, <4>1, <4>3
      <4>7. f[j + 1] = g[j] + x[k]
        BY <3>3, <4>4, <4>6
      <4> QED BY <4>5, <4>7
    <3> QED BY <3>1, <3>5, <3>6, <3>7
  <2> QED BY <2>4, <2>5
<1>5. n \in 0..n /\ Fits(n)
  BY <1>4
<1>6. CASE n < k
  <2>1. k = n + 1 /\ f[n] = g[n]
    BY <1>5, <1>6
  <2>2. n + 1 \in 1..(n + 1) /\ (n + 1) - 1 = n
    OBVIOUS
  <2>3. f[n + 1] = f[n] + x[n + 1]
    BY <1>1, <2>2
  <2> QED BY <2>1, <2>3
<1>7. CASE ~(n < k)
  BY <1>5, <1>7
<1> QED BY <1>6, <1>7

\* Nor does it when the summands change places.
LEMMA SumsMoved ==
    ASSUME NEW n \in Nat, NEW x, NEW y, NEW p \in Bijection(1..n, 1..n), NEW f, NEW g,
           \A i \in 1..n : x[i] \in Nat /\ y[i] = x[p[i]],
           Adds(f, x, n), Adds(g, y, n)
    PROVE  f[n] = g[n]
<1> DEFINE Moved(k) == \A u, v, q, a, b :
              /\ q \in Bijection(1..k, 1..k)
              /\ \A i \in 1..k : u[i] \in Nat /\ v[i] = u[q[i]]
              /\ Adds(a, u, k) /\ Adds(b, v, k)
              => a[k] = b[k]
           Bad == {k \in Nat : ~Moved(k)}
<1>1. SUFFICES ASSUME Bad # {} PROVE FALSE
  BY DEF Bad
<1>2. Bad \subseteq Nat
  OBVIOUS
<1> HIDE DEF Bad
<1>3. PICK N \in Bad : \A z \in Bad : N <= z
  BY <1>1, <1>2, LeastElement
<1>4. N \in Nat /\ ~Moved(N)
  BY <1>3 DEF Bad
<1>5. PICK u, v, q, a, b :
        /\ q \in Bijection(1..N, 1..N)
        /\ \A i \in 1..N : u[i] \in Nat /\ v[i] = u[q[i]]
        /\ Adds(a, u, N) /\ Adds(b, v, N)
        /\ a[N] # b[N]
  BY <1>4
<1>6. N # 0
  BY <1>5 DEF Adds
<1> DEFINE m == N - 1
<1>7. m \in Nat /\ N = m + 1 /\ ~(N <= m) /\ N \in 1..N /\ 1..N = 1..(m + 1)
  BY <1>4, <1>6
<1>8. Moved(m)
  BY <1>3, <1>7 DEF Bad
<1>9. /\ q \in [1..N -> 1..N]
      /\ \A i, j \in 1..N : q[i] = q[j] => i = j
      /\ \A j \in 1..N : \E i \in 1..N : q[i] = j
  BY <1>5 DEF Bijection, Injection, Surjection, IsInjective
<1>10. PICK k \in 1..N : q[k] = N
  BY <1>7, <1>9
<1> HIDE DEF m, Moved
<1> DEFINE r == [i \in 1..m |-> IF i < k THEN q[i] ELSE q[i + 1]]
           w == [i \in 1..m |-> IF i < k THEN v[i] ELSE v[i + 1]]
<1>11. \A i \in 1..m : i \in 1..N /\ i + 1 \in 1..N
  BY <1>7
<1>12. \A i \in 1..m : r[i] = IF i < k THEN q[i] ELSE q[i + 1]
  OBVIOUS
<1>13. \A i \in 1..m : r[i] \in 1..N /\ r[i] # N
  <2>1. \A j \in 1..N : j # k => q[j] \in 1..N /\ q[j] # N
    BY <1>9, <1>10
  <2> SUFFICES ASSUME NEW i \in 1..m PROVE r[i] \in 1..N /\ r[i] # N
    OBVIOUS
  <2>2. i \in 1..N /\ i + 1 \in 1..N /\ (i < k => i # k) /\ (~(i < k) => i + 1 # k)
    BY <1>7, <1>10, <1>11
  <2>3. r[i] = IF i < k THEN q[i] ELSE q[i + 1]
    BY <1>12
  <2> HIDE DEF r
  <2> QED BY <2>1, <2>2, <2>3
<1>14. \A j \in 1..N : j # N <=> j \in 1..m
  BY <1>7
<1>15. \A i \in 1..m : r[i] \in 1..m
  BY <1>13, <1>14
<1>16. r \in [1..m -> 1..m]
  <2> HIDE DEF r
  <2>1. r = [i \in 1..m |-> r[i]]
    BY DEF r
  <2> QED BY <1>15, <2>1
<1>17. \A i, j \in 1..m : r[i] = r[j] => i = j
  <2> SUFFICES ASSUME NEW i \in 1..m, NEW j \in 1..m, r[i] = r[j] PROVE i = j
    OBVIOUS
  <2> DEFINE up(l) == IF l < k THEN l ELSE l + 1
  <2>1. up(i) \in 1..N /\ up(j) \in 1..N
    BY <1>11
  <2>2. r[i] = q[up(i)] /\ r[j] = q[up(j)]
    BY <1>12
  <2>3. up(i) = up(j)
    <3> HIDE DEF up, r
    <3> QED BY <1>9, <2>1, <2>2
  <2>4. k \in Nat /\ i \in Nat /\ j \in Nat
    BY <1>7, <1>10
  <2> QED BY <2>3, <2>4
<1>18. \A j \in 1..m : \E i \in 1..m : r[i] = j
  <2> SUFFICES ASSUME NEW j \in 1..m PROVE \E i \in 1..m : r[i] = j
    OBVIOUS
  <2>1. j \in 1..N /\ j # N
    BY <1>14, <1>11
  <2>2. PICK l \in 1..N : q[l] = j
    BY <1>9, <2>1
  <2>3. l # k
    BY <1>10, <2>1, <2>2
  <2>4. CASE l < k
    <3>1. l \in 1..m
      BY <1>7, <1>10, <2>4
    <3> QED BY <1>12, <2>2, <2>4, <3>1
  <2>5. CASE l > k
    <3>1. l - 1 \in 1..m /\ ~(l - 1 < k) /\ (l - 1) + 1 = l
      BY <1>7, <1>10, <2>5
    <3> QED BY <1>12, <2>2, <3>1
  <2> QED BY <1>7, <1>10, <2>3, <2>4, <2>5
<1>19. r \in Bijection(1..m, 1..m)
  <2> HIDE DEF r
  <2> QED BY <1>16, <1>17, <1>18 DEF Bijection, Injection, Surjection, IsInjective
<1>20. \A i \in 1..m : u[i] \in Nat /\ w[i] = u[r[i]]
  <2>1. \A i \in 1..m : w[i] = IF i < k THEN v[i] ELSE v[i + 1]
    OBVIOUS
  <2> HIDE DEF w, r
  <2> QED BY <1>5, <1>11, <1>12, <2>1
<1>21. \A i \in 1..N : v[i] \in Nat
  BY <1>5, <1>9
<1>22. \A i \in 1..m : w[i] \in Nat
  BY <1>11, <1>21
<1> HIDE DEF w, r
<1>23. PICK c : Adds(c, w, m)
  <2>1. PICK c : Sums(c, w, m)
    BY <1>7, SumsGoOn
  <2> QED BY <1>7, <1>22, <2>1, SumsAdd
<1>24. Adds(a, u, m)
  <2>1. \A i \in 0..m : i \in 0..N
    BY <1>7
  <2> QED BY <1>5, <1>11, <2>1 DEF Adds
<1>25. a[m] = c[m]
  BY <1>8, <1>19, <1>20, <1>23, <1>24 DEF Moved
<1>26. b[N] = c[m] + v[k]
  <2>1. \A i \in 1..m : w[i] = IF i < k THEN v[i] ELSE v[i + 1]
    BY DEF w
  <2>2. k \in 1..(m + 1) /\ Adds(b, v, m + 1) /\ \A i \in 1..(m + 1) : v[i] \in Nat
    BY <1>5, <1>7, <1>10, <1>21
  <2>3. b[m + 1] = c[m] + v[k]
    BY <1>7, <1>23, <2>1, <2>2, SumsWithoutOne
  <2> QED BY <1>7, <2>3
<1>27. a[N] = a[m] + u[N] /\ v[k] = u[N]
  <2>1. a[N] = a[N - 1] + u[N]
    BY <1>5, <1>7 DEF Adds
  <2> QED BY <1>5, <1>10, <2>1 DEF m
<1> QED BY <1>5, <1>25, <1>26, <1>27

\* Lists of file_info with sizes.
InfoRecords == [path : Paths, id : Nat, by : Backends, size : Nat, time : Nat]
FileRecords == [id : Nat, by : Backends, size : Nat, time : Nat]
SizesOf(list) == [i \in 1..Len(list) |-> list[i].size]

\* The sizes in a list are natural numbers,
LEMMA SizesAre ==
    ASSUME NEW list \in Seq(InfoRecords)
    PROVE  \A i \in 1..Len(list) : SizesOf(list)[i] = list[i].size /\ SizesOf(list)[i] \in Nat
<1>1. \A i \in 1..Len(list) : list[i] \in InfoRecords
  OBVIOUS
<1>2. \A info \in InfoRecords : info.size \in Nat
  BY DEF InfoRecords
<1> QED BY <1>1, <1>2 DEF SizesOf

\* its size is their sum,
LEMMA SizeIsSum ==
    ASSUME NEW list \in Seq(InfoRecords)
    PROVE  \E f : Adds(f, SizesOf(list), Len(list)) /\ SizeOf(list) = f[Len(list)]
<1> DEFINE k == Len(list)
           x == SizesOf(list)
           Is(f) == f = [i \in 0..k |-> IF i = 0 THEN 0 ELSE f[i - 1] + list[i].size]
           w == CHOOSE f : Is(f)
<1>1. k \in Nat
  OBVIOUS
<1>2. SizeOf(list) = w[k]
  BY DEF SizeOf
<1>3. \A i \in 1..k : x[i] = list[i].size /\ x[i] \in Nat
  BY SizesAre
<1> HIDE DEF k, x
<1>4. \A f : Is(f) <=> Sums(f, x, k)
  <2> SUFFICES ASSUME NEW f PROVE Is(f) <=> Sums(f, x, k)
    OBVIOUS
  <2>1. \A i \in 0..k : i = 0 \/ i \in 1..k
    BY <1>1
  <2>2. [i \in 0..k |-> IF i = 0 THEN 0 ELSE f[i - 1] + list[i].size]
        = [i \in 0..k |-> IF i = 0 THEN 0 ELSE f[i - 1] + x[i]]
    BY <1>3, <2>1
  <2> QED BY <2>2 DEF Sums
<1>5. Is(w)
  <2>1. \E f : Is(f)
    BY <1>1, <1>4, SumsGoOn
  <2> HIDE DEF Is
  <2> QED BY <2>1
<1>6. Sums(w, x, k)
  BY <1>4, <1>5
<1> HIDE DEF w, Is
<1>7. Adds(w, x, k)
  BY <1>1, <1>3, <1>6, SumsAdd
<1> QED BY <1>2, <1>7 DEF k, x

\* a natural number as well.
LEMMA SizeIsNat ==
    ASSUME NEW list \in Seq(InfoRecords)
    PROVE  SizeOf(list) \in Nat
<1>1. PICK f : Adds(f, SizesOf(list), Len(list)) /\ SizeOf(list) = f[Len(list)]
  BY SizeIsSum
<1>2. Len(list) \in 0..Len(list)
  OBVIOUS
<1> QED BY <1>1, <1>2 DEF Adds

LEMMA SizeOfNone == SizeOf(<<>>) = 0
<1>1. <<>> \in Seq(InfoRecords) /\ Len(<<>>) = 0
  OBVIOUS
<1>2. PICK f : Adds(f, SizesOf(<<>>), Len(<<>>)) /\ SizeOf(<<>>) = f[Len(<<>>)]
  BY ONLY <1>1, SizeIsSum
<1>3. f[0] = 0
  BY <1>2 DEF Adds
<1> QED BY <1>1, <1>2, <1>3

\* The sizes of two lists, one behind the other, add up.
LEMMA SizeOfBoth ==
    ASSUME NEW a \in Seq(InfoRecords), NEW b \in Seq(InfoRecords)
    PROVE  SizeOf(a \o b) = SizeOf(a) + SizeOf(b)
<1> DEFINE m == Len(a)
           n == Len(b)
           c == a \o b
<1>1. c \in Seq(InfoRecords) /\ Len(c) = m + n /\ m \in Nat /\ n \in Nat
  OBVIOUS
<1>2. \A i \in 1..m : c[i] = a[i]
  OBVIOUS
<1>3. \A i \in 1..n : c[m + i] = b[i]
  OBVIOUS
<1>4. PICK f : Adds(f, SizesOf(a), m) /\ SizeOf(a) = f[m]
  BY SizeIsSum
<1>5. PICK g : Adds(g, SizesOf(b), n) /\ SizeOf(b) = g[n]
  BY SizeIsSum
<1>6. PICK h : Adds(h, SizesOf(c), m + n) /\ SizeOf(c) = h[m + n]
  <2> HIDE DEF c
  <2> QED BY <1>1, SizeIsSum
<1> HIDE DEF c, m, n
<1>7. \A i \in 1..m : SizesOf(c)[i] = SizesOf(a)[i] /\ SizesOf(c)[i] \in Nat
  <2>1. \A i \in 1..m : SizesOf(a)[i] = a[i].size
    BY SizesAre DEF m
  <2>2. \A i \in 1..(m + n) : SizesOf(c)[i] = c[i].size /\ SizesOf(c)[i] \in Nat
    BY <1>1, SizesAre
  <2>3. \A i \in 1..m : i \in 1..(m + n)
    BY <1>1
  <2> QED BY <1>2, <2>1, <2>2, <2>3
<1>8. \A i \in 1..n : SizesOf(c)[m + i] = SizesOf(b)[i] /\ SizesOf(b)[i] \in Nat
  <2>1. \A i \in 1..n : SizesOf(b)[i] = b[i].size /\ SizesOf(b)[i] \in Nat
    BY SizesAre DEF n
  <2>2. \A i \in 1..(m + n) : SizesOf(c)[i] = c[i].size
    BY <1>1, SizesAre
  <2>3. \A i \in 1..n : m + i \in 1..(m + n)
    BY <1>1
  <2> QED BY <1>3, <2>1, <2>2, <2>3
<1>9. h[m] = f[m]
  <2>1. Adds(h, SizesOf(c), m)
    <3>1. \A i \in 0..m : i \in 0..(m + n)
      BY <1>1
    <3>2. \A i \in 1..m : i \in 1..(m + n)
      BY <1>1
    <3> QED BY <1>6, <3>1, <3>2 DEF Adds
  <2>2. \A i \in 0..m : h[i] = f[i]
    <3> DEFINE x == SizesOf(c)
               y == SizesOf(a)
    <3>1. \A i \in 1..m : x[i] \in Nat /\ x[i] = y[i]
      BY <1>7
    <3>2. Adds(h, x, m) /\ Adds(f, y, m)
      BY <1>4, <2>1
    <3>3. m \in Nat
      BY <1>1
    <3> HIDE DEF x, y
    <3> QED BY ONLY <3>1, <3>2, <3>3, SumsOfTheSame
  <2> QED BY <1>1, <2>2
<1> DEFINE Bad == {i \in 0..n : h[m + i] # f[m] + g[i]}
<1>10. Bad = {}
  <2> SUFFICES ASSUME Bad # {} PROVE FALSE
    OBVIOUS
  <2>1. Bad \subseteq Nat
    BY <1>1
  <2> HIDE DEF Bad
  <2>2. PICK j \in Bad : \A z \in Bad : j <= z
    BY <2>1, LeastElement
  <2>3. j \in 0..n /\ h[m + j] # f[m] + g[j]
    BY <2>2 DEF Bad
  <2>4. f[m] \in Nat
    BY <1>1, <1>4 DEF Adds
  <2>5. j # 0
    <3>1. m + 0 = m /\ g[0] = 0 /\ f[m] + 0 = f[m]
      BY <1>1, <1>5, <2>4 DEF Adds
    <3> QED BY <1>9, <2>3, <3>1
  <2>6. j \in 1..n /\ j - 1 \in 0..n /\ ~(j <= j - 1)
    BY <1>1, <2>3, <2>5
  <2>7. h[m + (j - 1)] = f[m] + g[j - 1]
    BY <2>2, <2>6 DEF Bad
  <2>8. m + j \in 1..(m + n) /\ (m + j) - 1 = m + (j - 1)
    BY <1>1, <2>6
  <2>9. h[m + j] = h[(m + j) - 1] + SizesOf(c)[m + j]
    BY <1>6, <2>8 DEF Adds
  <2>10. g[j] = g[j - 1] + SizesOf(b)[j] /\ g[j - 1] \in Nat
    BY <1>5, <2>6 DEF Adds
  <2>11. SizesOf(c)[m + j] = SizesOf(b)[j] /\ SizesOf(b)[j] \in Nat
    BY <1>8, <2>6
  <2>12. h[m + j] = (f[m] + g[j - 1]) + SizesOf(b)[j]
    BY <2>7, <2>8, <2>9, <2>11
  <2> QED BY <2>3, <2>4, <2>10, <2>11, <2>12
<1>11. n \in 0..n
  BY <1>1
<1>12. h[m + n] = f[m] + g[n]
  BY <1>10, <1>11
<1> QED BY <1>4, <1>5, <1>6, <1>12 DEF c

\* A file more at the end adds its size.
LEMMA SizeOfOne ==
    ASSUME NEW list \in Seq(InfoRecords), NEW info \in InfoRecords
    PROVE  SizeOf(Append(list, info)) = SizeOf(list) + info.size
<1>1. <<info>> \in Seq(InfoRecords) /\ Len(<<info>>) = 1 /\ <<info>>[1] = info
  OBVIOUS
<1>2. Append(list, info) = list \o <<info>>
  OBVIOUS
<1>3. SizeOf(list \o <<info>>) = SizeOf(list) + SizeOf(<<info>>)
  BY ONLY <1>1, SizeOfBoth, list \in Seq(InfoRecords)
<1>4. PICK f : Adds(f, SizesOf(<<info>>), 1) /\ SizeOf(<<info>>) = f[1]
  BY <1>1, SizeIsSum
<1>5. SizesOf(<<info>>)[1] = info.size /\ info.size \in Nat
  <2>1. 1 \in 1..Len(<<info>>)
    BY <1>1
  <2> QED BY <1>1, <2>1, SizesAre
<1>6. f[1] = f[1 - 1] + SizesOf(<<info>>)[1] /\ f[0] = 0
  BY <1>4 DEF Adds
<1>7. SizeOf(<<info>>) = info.size
  BY <1>4, <1>5, <1>6
<1> QED BY <1>2, <1>3, <1>7

\* The order of the list does not matter for its size.
LEMMA SizeOfMoved ==
    ASSUME NEW a \in Seq(InfoRecords), NEW b \in Seq(InfoRecords), Len(a) = Len(b),
           NEW p \in Bijection(1..Len(a), 1..Len(a)), \A i \in 1..Len(a) : b[i] = a[p[i]]
    PROVE  SizeOf(b) = SizeOf(a)
<1> DEFINE n == Len(a)
<1>1. n \in Nat /\ n = Len(b)
  OBVIOUS
<1>2. PICK f : Adds(f, SizesOf(a), n) /\ SizeOf(a) = f[n]
  BY SizeIsSum
<1>3. PICK g : Adds(g, SizesOf(b), n) /\ SizeOf(b) = g[n]
  BY <1>1, SizeIsSum
<1>4. \A i \in 1..n : p[i] \in 1..n
  BY DEF Bijection, Injection
<1>5. \A i \in 1..n : SizesOf(a)[i] = a[i].size /\ SizesOf(a)[i] \in Nat
  BY SizesAre
<1>6. \A i \in 1..n : SizesOf(b)[i] = b[i].size
  BY <1>1, SizesAre
<1>7. \A i \in 1..n : SizesOf(a)[i] \in Nat /\ SizesOf(b)[i] = SizesOf(a)[p[i]]
  BY <1>4, <1>5, <1>6
<1>8. p \in Bijection(1..n, 1..n)
  OBVIOUS
<1>9. f[n] = g[n]
  <2> DEFINE x == SizesOf(a)
             y == SizesOf(b)
  <2>1. n \in Nat /\ Adds(f, x, n) /\ Adds(g, y, n) /\ \A i \in 1..n : x[i] \in Nat /\ y[i] = x[p[i]]
    BY <1>1, <1>2, <1>3, <1>7
  <2>2. p \in Bijection(1..n, 1..n)
    BY <1>8
  <2> HIDE DEF n, x, y
  <2> QED BY ONLY <2>1, <2>2, SumsMoved
<1> QED BY <1>2, <1>3, <1>9

\* One turn of the loop that makes room, and all of them.
FirstRoom == [kept |-> <<>>, total |-> total, erased |-> {}, done |-> FALSE]
RoomRecords == [kept : Seq(InfoRecords), total : Int, erased : SUBSET Paths, done : BOOLEAN]
Visited(s, info, size, locked, needed) ==
    IF s.done \/ (s.total + size <= MaxSize /\ Cardinality(s.erased) >= needed)
    THEN [s EXCEPT !.kept = Append(@, info), !.done = TRUE]
    ELSE IF Exists(info.path) /\ info.path \in locked
    THEN [s EXCEPT !.kept = Append(@, info)]
    ELSE [s EXCEPT !.total = @ - info.size, !.erased = @ \cup {info.path}]
Rooms(f, size, locked, needed, k) ==
    f = [i \in 0..k |-> IF i = 0 THEN FirstRoom ELSE Visited(f[i - 1], files[i], size, locked, needed)]

\* The turns of the loop exist,
LEMMA RoomsGoOn ==
    ASSUME NEW size, NEW locked, NEW needed, NEW k \in Nat
    PROVE  \E f : Rooms(f, size, locked, needed, k)
<1> DEFINE Turn(s, i) == Visited(s, files[i], size, locked, needed)
           Stuck == {j \in 0..k : ~ \E f : Rooms(f, size, locked, needed, j)}
<1>1. Stuck = {}
  <2> SUFFICES ASSUME Stuck # {} PROVE FALSE
    OBVIOUS
  <2>1. Stuck \subseteq Nat
    OBVIOUS
  <2>2. \A f, j : Rooms(f, size, locked, needed, j)
                  <=> f = [i \in 0..j |-> IF i = 0 THEN FirstRoom ELSE Turn(f[i - 1], i)]
    BY DEF Rooms
  <2> HIDE DEF Stuck, Turn
  <2>3. PICK n \in Stuck : \A y \in Stuck : n <= y
    BY <2>1, LeastElement
  <2>4. n \in 0..k /\ ~ \E f : Rooms(f, size, locked, needed, n)
    BY <2>3 DEF Stuck
  <2>5. CASE n = 0
    <3> DEFINE f == [i \in 0..0 |-> FirstRoom]
    <3>1. f = [i \in 0..0 |-> IF i = 0 THEN FirstRoom ELSE Turn(f[i - 1], i)]
      <4>1. \A i \in 0..0 : i = 0
        OBVIOUS
      <4> QED BY <4>1
    <3>2. Rooms(f, size, locked, needed, 0)
      BY <2>2, <3>1
    <3> QED BY <2>4, <2>5, <3>2
  <2>6. CASE n # 0
    <3>1. n - 1 \in 0..k /\ n \in Nat /\ n - 1 \in Nat /\ ~(n <= n - 1)
      BY <2>4, <2>6
    <3>2. n - 1 \notin Stuck
      BY <2>3, <3>1
    <3>3. PICK f : Rooms(f, size, locked, needed, n - 1)
      BY <3>1, <3>2 DEF Stuck
    <3> DEFINE g == [i \in 0..n |-> IF i = 0 THEN FirstRoom ELSE Turn(f[i - 1], i)]
    <3>4. \A i \in 0..(n - 1) : f[i] = IF i = 0 THEN FirstRoom ELSE Turn(f[i - 1], i)
      BY <2>2, <3>3
    <3>5. \A i \in 0..n : g[i] = IF i = 0 THEN FirstRoom ELSE Turn(f[i - 1], i)
      OBVIOUS
    <3>6. \A i \in 0..n : i # 0 => i - 1 \in 0..(n - 1)
      BY <3>1
    <3>7. \A i \in 0..(n - 1) : i \in 0..n
      BY <3>1
    <3>8. \A i \in 0..(n - 1) : g[i] = f[i]
      BY <3>4, <3>5, <3>7
    <3>9. \A i \in 0..n : i # 0 => g[i - 1] = f[i - 1]
      BY <3>6, <3>8
    <3>10. g = [i \in 0..n |-> IF i = 0 THEN FirstRoom ELSE Turn(g[i - 1], i)]
      BY <3>9
    <3>11. Rooms(g, size, locked, needed, n)
      BY <2>2, <3>10
    <3> QED BY <2>4, <3>11
  <2> QED BY <2>5, <2>6
<1>2. k \in 0..k
  OBVIOUS
<1> QED BY <1>1, <1>2

\* and MakeRoom is the last of them.
LEMMA RoomIs ==
    ASSUME NEW size, NEW locked, NEW needed, files \in Seq(InfoRecords)
    PROVE  \E f : /\ MakeRoom(size, locked, needed) = f[Len(files)]
                  /\ f[0] = FirstRoom
                  /\ \A i \in 1..Len(files) : f[i] = Visited(f[i - 1], files[i], size, locked, needed)
<1> DEFINE n == Len(files)
           w == CHOOSE f : Rooms(f, size, locked, needed, n)
<1>1. n \in Nat
  OBVIOUS
<1>2. MakeRoom(size, locked, needed) = w[n]
  BY DEF MakeRoom, Rooms, Visited, FirstRoom
<1>3. Rooms(w, size, locked, needed, n)
  BY <1>1, RoomsGoOn
<1> HIDE DEF w
<1>4. \A i \in 0..n : w[i] = IF i = 0 THEN FirstRoom ELSE Visited(w[i - 1], files[i], size, locked, needed)
  BY <1>3 DEF Rooms
<1>5. 0 \in 0..n /\ \A i \in 1..n : i \in 0..n /\ i # 0
  BY <1>1
<1> HIDE DEF n
<1>6. w[0] = FirstRoom /\ \A i \in 1..n : w[i] = Visited(w[i - 1], files[i], size, locked, needed)
  BY <1>4, <1>5
<1> QED BY <1>2, <1>6 DEF n

\* A turn either keeps the file or takes it off the books.
KeepsFile(s, info, r) ==
    /\ r.kept = Append(s.kept, info) /\ r.total = s.total /\ r.erased = s.erased
ErasesFile(s, info, r) ==
    /\ r.kept = s.kept /\ r.total = s.total - info.size /\ r.erased = s.erased \cup {info.path}

\* A turn goes one of the two ways, and without locked files it erases until it
\* is done and keeps from then on.
LEMMA VisitIs ==
    ASSUME NEW s \in RoomRecords, NEW info \in InfoRecords, NEW size, NEW locked, NEW needed, NEW r,
           r = Visited(s, info, size, locked, needed)
    PROVE  /\ r \in RoomRecords
           /\ KeepsFile(s, info, r) \/ ErasesFile(s, info, r)
           /\ locked = {} /\ KeepsFile(s, info, r) => r.done
           /\ r.done = (s.done \/ (s.total + size <= MaxSize /\ Cardinality(s.erased) >= needed))
           /\ r.done => KeepsFile(s, info, r)
           /\ locked = {} /\ ~r.done => ErasesFile(s, info, r)
<1>1. /\ s.kept \in Seq(InfoRecords) /\ s.total \in Int /\ s.erased \in SUBSET Paths /\ s.done \in BOOLEAN
      /\ s = [kept |-> s.kept, total |-> s.total, erased |-> s.erased, done |-> s.done]
  BY DEF RoomRecords
<1>2. info.path \in Paths /\ info.size \in Nat
  BY DEF InfoRecords
<1>3. Append(s.kept, info) \in Seq(InfoRecords) /\ Append(s.kept, info) # s.kept
  <2>1. Append(s.kept, info) \in Seq(InfoRecords)
    BY <1>1
  <2>2. Len(Append(s.kept, info)) = Len(s.kept) + 1 /\ Len(s.kept) \in Nat
    BY <1>1
  <2> QED BY <2>1, <2>2
<1> DEFINE t == Append(s.kept, info)
           enough == s.done \/ (s.total + size <= MaxSize /\ Cardinality(s.erased) >= needed)
<1>4. CASE enough
  <2>1. r = [kept |-> t, total |-> s.total, erased |-> s.erased, done |-> TRUE]
    BY <1>1, <1>4 DEF Visited
  <2>2. r.kept = t /\ r.total = s.total /\ r.erased = s.erased /\ r.done = TRUE
    BY <2>1
  <2>3. r \in RoomRecords
    BY <1>1, <1>3, <2>1 DEF RoomRecords
  <2>4. KeepsFile(s, info, r)
    BY <2>2 DEF KeepsFile
  <2> HIDE DEF t
  <2> QED BY <1>4, <2>2, <2>3, <2>4
<1>5. CASE ~enough /\ Exists(info.path) /\ info.path \in locked
  <2>1. r = [kept |-> t, total |-> s.total, erased |-> s.erased, done |-> s.done]
    BY <1>1, <1>5 DEF Visited
  <2>2. ~s.done /\ ~enough
    BY <1>5
  <2>3. r.kept = t /\ r.total = s.total /\ r.erased = s.erased /\ ~r.done /\ locked # {}
    BY <1>5, <2>1, <2>2
  <2>4. r \in RoomRecords
    BY <1>1, <1>3, <2>1 DEF RoomRecords
  <2>5. KeepsFile(s, info, r)
    BY <2>3 DEF KeepsFile
  <2>6. r.done = FALSE
    BY <2>1, <1>1, <2>2
  <2>7. enough = FALSE
    BY <2>2
  <2> HIDE DEF t, enough
  <2>8. r.done = enough
    BY <2>6, <2>7
  <2> QED BY <2>3, <2>4, <2>5, <2>8 DEF enough
<1>6. CASE ~enough /\ ~(Exists(info.path) /\ info.path \in locked)
  <2>1. r = [kept |-> s.kept, total |-> s.total - info.size, erased |-> s.erased \cup {info.path}, done |-> s.done]
    BY <1>1, <1>6 DEF Visited
  <2>2. ~s.done /\ ~enough
    BY <1>6
  <2>3. s.total - info.size \in Int /\ s.erased \cup {info.path} \in SUBSET Paths
    BY <1>1, <1>2
  <2>4. r.kept = s.kept /\ r.total = s.total - info.size /\ r.erased = s.erased \cup {info.path} /\ ~r.done
    BY <2>1, <2>2
  <2>5. r \in RoomRecords
    BY <1>1, <2>1, <2>3 DEF RoomRecords
  <2>6. ~KeepsFile(s, info, r) /\ ErasesFile(s, info, r)
    BY <1>3, <2>4 DEF KeepsFile, ErasesFile
  <2>7. r.done = FALSE /\ enough = FALSE
    BY <1>1, <2>1, <2>2
  <2> HIDE DEF t, enough
  <2>8. r.done = enough
    BY <2>7
  <2> QED BY <2>4, <2>5, <2>6, <2>8 DEF enough
<1> QED BY <1>4, <1>5, <1>6

\* What i turns leave: the files at the positions q, in order; the others are
\* erased.
Leaves(s, q, i) ==
    /\ q \in [1..Len(s.kept) -> 1..i]
    /\ \A k, l \in 1..Len(s.kept) : k < l => q[k] < q[l]
    /\ \A k \in 1..Len(s.kept) : s.kept[k] = files[q[k]]
    /\ \A p \in s.erased : \E j \in 1..i : files[j].path = p /\ \A k \in 1..Len(s.kept) : q[k] # j
    /\ \A j \in 1..i : (\E k \in 1..Len(s.kept) : q[k] = j) \/ files[j].path \in s.erased

\* This goes on when a file is kept,
LEMMA KeepLeaves ==
    ASSUME NEW i \in Nat, NEW s \in RoomRecords, NEW r, NEW q, Leaves(s, q, i), KeepsFile(s, files[i + 1], r),
           files[i + 1] \in InfoRecords
    PROVE  \E t : Leaves(r, t, i + 1)
<1> DEFINE n == Len(s.kept)
           t == [k \in 1..(n + 1) |-> IF k = n + 1 THEN i + 1 ELSE q[k]]
<1>1. s.kept \in Seq(InfoRecords) /\ n \in Nat
  BY DEF RoomRecords
<1>2. /\ Len(r.kept) = n + 1 /\ r.kept[n + 1] = files[i + 1] /\ \A k \in 1..n : r.kept[k] = s.kept[k]
      /\ r.erased = s.erased
  BY <1>1 DEF KeepsFile
<1>3. /\ q \in [1..n -> 1..i] /\ \A k, l \in 1..n : k < l => q[k] < q[l]
      /\ \A k \in 1..n : s.kept[k] = files[q[k]]
  BY DEF Leaves
<1>4. /\ \A p \in s.erased : \E j \in 1..i : files[j].path = p /\ \A k \in 1..n : q[k] # j
      /\ \A j \in 1..i : (\E k \in 1..n : q[k] = j) \/ files[j].path \in s.erased
  BY DEF Leaves
<1> HIDE DEF n
<1>5. t[n + 1] = i + 1 /\ \A k \in 1..n : t[k] = q[k] /\ t[k] \in 1..i
  <2>1. n + 1 \in 1..(n + 1) /\ \A k \in 1..n : k \in 1..(n + 1) /\ k # n + 1
    BY <1>1
  <2> QED BY <1>3, <2>1
<1>6. \A k \in 1..(n + 1) : k = n + 1 \/ k \in 1..n
  BY <1>1
<1>7. \A j \in 1..(i + 1) : j = i + 1 \/ j \in 1..i
  OBVIOUS
<1>8. \A j \in 1..i : j \in 1..(i + 1) /\ j < i + 1 /\ j # i + 1
  OBVIOUS
<1>9. n + 1 \in 1..(n + 1) /\ i + 1 \in 1..(i + 1) /\ \A k \in 1..n : k \in 1..(n + 1) /\ ~(n + 1 < k)
  BY <1>1
<1>10. t \in [1..(n + 1) -> 1..(i + 1)]
  <2>1. \A k \in 1..(n + 1) : t[k] \in 1..(i + 1)
    <3> HIDE DEF t
    <3> QED BY <1>5, <1>6, <1>8, <1>9
  <2> HIDE DEF t
  <2>2. t = [k \in 1..(n + 1) |-> t[k]]
    BY DEF t
  <2> QED BY <2>1, <2>2
<1> HIDE DEF t
<1>11. \A k, l \in 1..(n + 1) : k < l => t[k] < t[l]
  <2> SUFFICES ASSUME NEW k \in 1..(n + 1), NEW l \in 1..(n + 1), k < l PROVE t[k] < t[l]
    OBVIOUS
  <2>1. k \in 1..n
    BY <1>1
  <2>2. CASE l = n + 1
    BY <1>5, <1>8, <2>1, <2>2
  <2>3. CASE l \in 1..n
    BY <1>3, <1>5, <2>1, <2>3
  <2> QED BY <1>6, <2>2, <2>3
<1>12. \A k \in 1..(n + 1) : r.kept[k] = files[t[k]]
  BY <1>2, <1>3, <1>5, <1>6
<1>13. \A p \in r.erased : \E j \in 1..(i + 1) : files[j].path = p /\ \A k \in 1..(n + 1) : t[k] # j
  <2> SUFFICES ASSUME NEW p \in s.erased
               PROVE  \E j \in 1..(i + 1) : files[j].path = p /\ \A k \in 1..(n + 1) : t[k] # j
    BY <1>2
  <2>1. PICK j \in 1..i : files[j].path = p /\ \A k \in 1..n : q[k] # j
    BY <1>4
  <2>2. \A k \in 1..(n + 1) : t[k] # j
    BY <1>5, <1>6, <1>8, <2>1
  <2> QED BY <1>8, <2>1, <2>2
<1>14. \A j \in 1..(i + 1) : (\E k \in 1..(n + 1) : t[k] = j) \/ files[j].path \in r.erased
  <2> SUFFICES ASSUME NEW j \in 1..(i + 1)
               PROVE  (\E k \in 1..(n + 1) : t[k] = j) \/ files[j].path \in r.erased
    OBVIOUS
  <2>1. CASE j = i + 1
    BY <1>5, <1>9, <2>1
  <2>2. CASE j \in 1..i
    <3>1. (\E k \in 1..n : q[k] = j) \/ files[j].path \in s.erased
      BY <1>4, <2>2
    <3> QED BY <1>2, <1>5, <1>9, <3>1
  <2> QED BY <1>7, <2>1, <2>2
<1> QED BY SMTT(40), <1>2, <1>10, <1>11, <1>12, <1>13, <1>14 DEF Leaves

\* and when one is erased.
LEMMA EraseLeaves ==
    ASSUME NEW i \in Nat, NEW s \in RoomRecords, NEW r, NEW q, Leaves(s, q, i), ErasesFile(s, files[i + 1], r)
    PROVE  Leaves(r, q, i + 1)
<1> DEFINE n == Len(s.kept)
<1>1. r.kept = s.kept /\ r.erased = s.erased \cup {files[i + 1].path} /\ Len(r.kept) = n
  BY DEF ErasesFile
<1>2. /\ q \in [1..n -> 1..i] /\ \A k, l \in 1..n : k < l => q[k] < q[l]
      /\ \A k \in 1..n : s.kept[k] = files[q[k]]
  BY DEF Leaves
<1>3. /\ \A p \in s.erased : \E j \in 1..i : files[j].path = p /\ \A k \in 1..n : q[k] # j
      /\ \A j \in 1..i : (\E k \in 1..n : q[k] = j) \/ files[j].path \in s.erased
  BY DEF Leaves
<1>4. \A j \in 1..(i + 1) : j = i + 1 \/ j \in 1..i
  OBVIOUS
<1>5. i + 1 \in 1..(i + 1) /\ \A j \in 1..i : j \in 1..(i + 1) /\ j # i + 1
  OBVIOUS
<1> HIDE DEF n
<1>6. q \in [1..n -> 1..(i + 1)]
  BY <1>2, <1>5
<1>7. \A p \in r.erased : \E j \in 1..(i + 1) : files[j].path = p /\ \A k \in 1..n : q[k] # j
  <2> SUFFICES ASSUME NEW p \in r.erased
               PROVE  \E j \in 1..(i + 1) : files[j].path = p /\ \A k \in 1..n : q[k] # j
    OBVIOUS
  <2>1. CASE p \in s.erased
    BY <1>3, <1>5, <2>1
  <2>2. CASE p = files[i + 1].path
    <3>1. \A k \in 1..n : q[k] # i + 1
      BY <1>2, <1>5
    <3> QED BY <1>5, <2>2, <3>1
  <2> QED BY <1>1, <2>1, <2>2
<1>8. \A j \in 1..(i + 1) : (\E k \in 1..n : q[k] = j) \/ files[j].path \in r.erased
  BY <1>1, <1>3, <1>4
<1> QED BY <1>1, <1>2, <1>6, <1>7, <1>8 DEF Leaves

\* In the end the books are right: the total is the size of the files kept.
LEMMA RoomLeaves ==
    ASSUME NEW size, NEW locked, NEW needed, NEW room,
           files \in Seq(InfoRecords), total = SizeOf(files), room = MakeRoom(size, locked, needed)
    PROVE  /\ room \in RoomRecords
           /\ room.total = SizeOf(room.kept)
           /\ \E q : Leaves(room, q, Len(files))
<1> DEFINE n == Len(files)
<1>1. n \in Nat /\ \A i \in 1..n : files[i] \in InfoRecords
  OBVIOUS
<1>2. PICK f : /\ room = f[n] /\ f[0] = FirstRoom
               /\ \A i \in 1..n : f[i] = Visited(f[i - 1], files[i], size, locked, needed)
  BY RoomIs
<1>3. PICK F : Adds(F, SizesOf(files), n) /\ SizeOf(files) = F[n]
  BY SizeIsSum
<1>4. \A i \in 1..n : F[i] = F[i - 1] + files[i].size /\ F[i] \in Nat /\ F[i - 1] \in Nat
  <2>1. \A i \in 1..n : i \in 0..n /\ i - 1 \in 0..n
    BY <1>1
  <2> QED BY <1>3, <2>1, SizesAre DEF Adds
<1>5. F[0] = 0 /\ F[n] = total /\ total \in Nat
  BY <1>3, SizeIsNat DEF Adds
<1> DEFINE Good(i) == /\ f[i] \in RoomRecords /\ f[i].total + F[i] = total + SizeOf(f[i].kept)
                      /\ \E q : Leaves(f[i], q, i)
           Bad == {i \in 0..n : ~Good(i)}
<1> HIDE DEF n
<1>6. Good(0)
  <2>1. <<>> \in Seq(InfoRecords) /\ total \in Int /\ {} \in SUBSET Paths
    BY <1>5
  <2>2. FirstRoom \in RoomRecords
    BY <2>1 DEF FirstRoom, RoomRecords
  <2>3. FirstRoom.total = total /\ FirstRoom.kept = <<>> /\ FirstRoom.erased = {} /\ Len(<<>>) = 0
    BY DEF FirstRoom
  <2>4. Leaves(FirstRoom, [k \in 1..0 |-> 0], 0)
    <3> DEFINE none == [k \in 1..0 |-> 0]
    <3>1. none \in [1..0 -> 1..0] /\ ~ \E k : k \in 1..0
      OBVIOUS
    <3> HIDE DEF none
    <3> QED BY <2>3, <3>1 DEF Leaves, none
  <2>5. FirstRoom.total + F[0] = total + SizeOf(FirstRoom.kept)
    BY <1>5, <2>3, SizeOfNone
  <2> QED BY <1>2, <2>2, <2>4, <2>5
<1>7. ASSUME NEW i \in 1..n, Good(i - 1) PROVE Good(i)
  <2> DEFINE s == f[i - 1]
             r == f[i]
  <2>1. i - 1 \in Nat /\ (i - 1) + 1 = i /\ files[i] \in InfoRecords
    BY <1>1
  <2>2. s \in RoomRecords /\ r = Visited(s, files[i], size, locked, needed)
    BY <1>2, <1>7
  <2>3. r \in RoomRecords /\ (KeepsFile(s, files[i], r) \/ ErasesFile(s, files[i], r))
    <3> HIDE DEF r, s
    <3> QED BY <2>1, <2>2, VisitIs
  <2>4. PICK q : Leaves(s, q, i - 1)
    BY <1>7
  <2>5. s.total + F[i - 1] = total + SizeOf(s.kept)
    BY <1>7
  <2>6. s.total \in Int /\ s.kept \in Seq(InfoRecords) /\ files[i].size \in Nat
    BY <2>1, <2>2 DEF RoomRecords, InfoRecords
  <2>7. SizeOf(s.kept) \in Nat
    BY <2>6, SizeIsNat
  <2>8. F[i] = F[i - 1] + files[i].size /\ F[i - 1] \in Nat
    BY <1>4
  <2> HIDE DEF s, r, Good
  <2>9. CASE KeepsFile(s, files[i], r)
    <3>1. \E t : Leaves(r, t, i)
      BY <2>1, <2>2, <2>4, <2>9, KeepLeaves
    <3>2. SizeOf(r.kept) = SizeOf(s.kept) + files[i].size /\ r.total = s.total
      BY <2>1, <2>6, <2>9, SizeOfOne DEF KeepsFile
    <3> DEFINE before == SizeOf(s.kept)
               after == SizeOf(r.kept)
    <3>3. before \in Nat /\ after = before + files[i].size /\ s.total + F[i - 1] = total + before
      BY <2>5, <2>7, <3>2
    <3> HIDE DEF before, after
    <3>4. r.total + F[i] = total + after
      <4> DEFINE a == F[i - 1]
                 b == F[i]
                 z == files[i].size
                 u == s.total
      <4>1. a \in Nat /\ b = a + z /\ z \in Nat /\ u \in Int /\ r.total = u
        BY <2>6, <2>8, <3>2
      <4>2. u + a = total + before /\ after = before + z
        BY <3>3
      <4> HIDE DEF a, b, z, u
      <4>3. u + b = total + after
        BY <1>5, <3>3, <4>1, <4>2
      <4> QED BY <4>1, <4>3 DEF b
    <3> QED BY <2>3, <3>1, <3>4 DEF Good, r, after
  <2>10. CASE ErasesFile(s, files[i], r)
    <3>1. Leaves(r, q, i)
      BY <2>1, <2>2, <2>4, <2>10, EraseLeaves
    <3>2. r.kept = s.kept /\ r.total = s.total - files[i].size
      BY <2>10 DEF ErasesFile
    <3>3. r.total + F[i] = total + SizeOf(r.kept)
      BY SMTT(40), <1>5, <2>5, <2>6, <2>7, <2>8, <3>2
    <3> QED BY <2>3, <3>1, <3>3 DEF Good, r
  <2> QED BY <2>3, <2>9, <2>10
<1>8. Good(n)
  <2> SUFFICES ASSUME Bad # {} PROVE FALSE
    BY <1>1
  <2>1. Bad \subseteq Nat
    BY <1>1
  <2> HIDE DEF Bad
  <2>2. PICK j \in Bad : \A z \in Bad : j <= z
    BY <2>1, LeastElement
  <2>3. j \in 0..n /\ ~Good(j)
    BY <2>2 DEF Bad
  <2> HIDE DEF Good
  <2>4. j # 0
    BY <1>6, <2>3
  <2>5. j \in 1..n /\ j - 1 \in 0..n /\ ~(j <= j - 1)
    BY <1>1, <2>3, <2>4
  <2>6. Good(j - 1)
    BY <2>2, <2>5 DEF Bad
  <2> QED BY <1>7, <2>3, <2>5, <2>6
<1>9. room \in RoomRecords /\ room.total + total = total + SizeOf(room.kept)
  BY <1>2, <1>5, <1>8
<1>10. room.kept \in Seq(InfoRecords) /\ room.total \in Int
  BY <1>9 DEF RoomRecords
<1>11. SizeOf(room.kept) \in Nat
  BY <1>10, SizeIsNat
<1>12. room.total = SizeOf(room.kept)
  BY <1>5, <1>9, <1>10, <1>11
<1>13. \E q : Leaves(room, q, n)
  BY <1>2, <1>8
<1> QED BY <1>9, <1>12, <1>13 DEF n

\* The list without its oldest files,
LEMMA NewestIs ==
    ASSUME files \in Seq(InfoRecords), NEW k \in 0..Len(files)
    PROVE  /\ Newest(k) \in Seq(InfoRecords) /\ Len(Newest(k)) = Len(files) - k
           /\ \A i \in 1..(Len(files) - k) : Newest(k)[i] = files[k + i]
<1> DEFINE n == Len(files)
           rest == Newest(k)
<1>1. n \in Nat /\ k \in 0..n /\ \A i \in 1..n : files[i] \in InfoRecords
  OBVIOUS
<1>2. rest = [i \in 1..(n - k) |-> files[k + i]]
  BY <1>1 DEF Newest
<1>3. \A i \in 1..(n - k) : k + i \in 1..n
  BY <1>1
<1> HIDE DEF n, rest
<1>4. rest \in [1..(n - k) -> InfoRecords] /\ n - k \in Nat
  BY <1>1, <1>2, <1>3
<1>5. rest \in Seq(InfoRecords) /\ Len(rest) = n - k
  BY <1>4, FunctionIsSeq
<1> QED BY <1>2, <1>5 DEF n, rest

\* and what it weighs without one more.
LEMMA NewestWeighs ==
    ASSUME files \in Seq(InfoRecords)
    PROVE  /\ Newest(0) = files
           /\ \A k \in 0..Len(files) : SizeOf(Newest(k)) \in Nat
           /\ \A k \in 0..(Len(files) - 1) :
                 SizeOf(Newest(k)) = files[k + 1].size + SizeOf(Newest(k + 1))
<1> DEFINE n == Len(files)
<1>1. n \in Nat /\ \A i \in 1..n : files[i] \in InfoRecords
  OBVIOUS
<1>2. Newest(0) = files
  BY DEF Newest
<1>3. \A k \in 0..n : SizeOf(Newest(k)) \in Nat
  <2> SUFFICES ASSUME NEW k \in 0..n PROVE SizeOf(Newest(k)) \in Nat
    OBVIOUS
  <2>1. Newest(k) \in Seq(InfoRecords)
    BY NewestIs
  <2> QED BY <2>1, SizeIsNat
<1>4. ASSUME NEW k \in 0..(n - 1)
      PROVE  SizeOf(Newest(k)) = files[k + 1].size + SizeOf(Newest(k + 1))
  <2> DEFINE a == Newest(k)
             b == Newest(k + 1)
             x == files[k + 1]
             one == <<x>>
  <2>1. k \in 0..n /\ k + 1 \in 0..n /\ x \in InfoRecords /\ k \in Nat
    BY <1>1
  <2>2. a \in Seq(InfoRecords) /\ Len(a) = n - k /\ \A i \in 1..(n - k) : a[i] = files[k + i]
    BY <2>1, NewestIs
  <2>3. b \in Seq(InfoRecords) /\ Len(b) = n - (k + 1) /\ \A i \in 1..(n - (k + 1)) : b[i] = files[(k + 1) + i]
    <3> DEFINE l == k + 1
    <3>1. l \in 0..Len(files) /\ b = Newest(l)
      BY <2>1
    <3> HIDE DEF l, b
    <3>2. b \in Seq(InfoRecords) /\ Len(b) = Len(files) - l /\ \A i \in 1..(Len(files) - l) : b[i] = files[l + i]
      BY <3>1, NewestIs
    <3> QED BY <3>2 DEF l
  <2> HIDE DEF a, b, x, n
  <2>4. one \in Seq(InfoRecords) /\ Len(one) = 1 /\ one[1] = x
    BY <2>1
  <2>5. a = one \o b
    <3> DEFINE c == one \o b
    <3>1. c \in Seq(InfoRecords) /\ Len(c) = n - k
      BY <1>1, <2>1, <2>3, <2>4
    <3>2. ASSUME NEW i \in 1..(n - k) PROVE a[i] = c[i]
      <4>1. CASE i = 1
        BY <1>1, <2>1, <2>2, <2>3, <2>4, <4>1 DEF x
      <4>2. CASE i # 1
        <5>1. i - 1 \in 1..(n - (k + 1)) /\ (k + 1) + (i - 1) = k + i
          BY <1>1, <2>1, <4>2
        <5>2. c[i] = b[i - 1]
          BY <1>1, <2>1, <2>3, <2>4, <4>2
        <5> QED BY <2>2, <2>3, <5>1, <5>2
      <4> QED BY <4>1, <4>2
    <3> HIDE DEF c
    <3>3. a = c
      BY <2>2, <3>1, <3>2, SeqEqual
    <3> QED BY <3>3 DEF c
  <2>6. SizeOf(one) = x.size
    <3>1. one = Append(<<>>, x)
      OBVIOUS
    <3>2. SizeOf(Append(<<>>, x)) = SizeOf(<<>>) + x.size
      <4> DEFINE none == <<>>
      <4>1. none \in Seq(InfoRecords)
        OBVIOUS
      <4> HIDE DEF none
      <4>2. SizeOf(Append(none, x)) = SizeOf(none) + x.size
        BY <2>1, <4>1, SizeOfOne
      <4> QED BY <4>2 DEF none
    <3>3. x.size \in Nat
      BY <2>1 DEF InfoRecords
    <3> HIDE DEF one
    <3> QED BY <3>1, <3>2, <3>3, SizeOfNone
  <2>7. SizeOf(a) = SizeOf(one) + SizeOf(b)
    BY <2>3, <2>4, <2>5, SizeOfBoth
  <2> QED BY <2>6, <2>7 DEF a, b, x
<1> QED BY <1>2, <1>3, <1>4

\* If all files can be removed, those of the first m of i turns are erased, and
\* the others are kept as soon as there is room: not one fewer would do.
ErasesFirst(s, m, i, size) ==
    /\ m \in 0..i /\ Len(s.kept) = i - m
    /\ \A k \in 1..(i - m) : s.kept[k] = files[m + k]
    /\ s.erased = {files[j].path : j \in 1..m}
    /\ s.total = SizeOf(Newest(m))
    /\ m > 0 => SizeOf(Newest(m - 1)) + size > MaxSize
    /\ s.done => s.total + size <= MaxSize
    /\ ~s.done => m = i

\* This goes on with every turn.
LEMMA TurnErasesFirst ==
    ASSUME files \in Seq(InfoRecords), NEW i \in 0..(Len(files) - 1),
           NEW s \in RoomRecords, NEW m, NEW size \in Nat, NEW r,
           ErasesFirst(s, m, i, size), r = Visited(s, files[i + 1], size, {}, 0)
    PROVE  \E l : ErasesFirst(r, l, i + 1, size)
<1> DEFINE info == files[i + 1]
<1>0. info \in InfoRecords /\ i \in Nat /\ i + 1 \in 0..Len(files) /\ MaxSize \in Nat
  BY TFAssumptions
<1>1. /\ r \in RoomRecords
      /\ r.done = (s.done \/ (s.total + size <= MaxSize /\ Cardinality(s.erased) >= 0))
      /\ r.done => KeepsFile(s, info, r)
      /\ ~r.done => ErasesFile(s, info, r)
  <2> DEFINE none == {}
  <2>1. r = Visited(s, info, size, none, 0) /\ none = {}
    OBVIOUS
  <2> HIDE DEF info, none
  <2> QED BY <1>0, <2>1, VisitIs
<1>2. /\ m \in 0..i /\ Len(s.kept) = i - m
      /\ \A k \in 1..(i - m) : s.kept[k] = files[m + k]
      /\ s.erased = {files[j].path : j \in 1..m}
      /\ s.total = SizeOf(Newest(m))
      /\ m > 0 => SizeOf(Newest(m - 1)) + size > MaxSize
      /\ s.done => s.total + size <= MaxSize
      /\ ~s.done => m = i
  BY DEF ErasesFirst
<1>3. s.kept \in Seq(InfoRecords)
  BY DEF RoomRecords
<1>4. CASE r.done
  <2>1. r.kept = Append(s.kept, info) /\ r.total = s.total /\ r.erased = s.erased
    BY <1>1, <1>4 DEF KeepsFile
  <2>2. r.total + size <= MaxSize
    BY <1>1, <1>2, <1>4, <2>1
  <2> HIDE DEF info
  <2>3. Len(r.kept) = (i - m) + 1 /\ r.kept[(i - m) + 1] = info /\ \A k \in 1..(i - m) : r.kept[k] = s.kept[k]
    <3> DEFINE l == i - m
    <3>1. l \in Nat /\ Len(s.kept) = l /\ s.kept \in Seq(InfoRecords) /\ info \in InfoRecords
      BY <1>0, <1>2, <1>3
    <3> HIDE DEF l
    <3>2. Len(r.kept) = l + 1 /\ r.kept[l + 1] = info /\ \A k \in 1..l : r.kept[k] = s.kept[k]
      BY <2>1, <3>1
    <3> QED BY <3>2 DEF l
  <2>4. m \in 0..(i + 1) /\ (i - m) + 1 = (i + 1) - m /\ m + ((i - m) + 1) = i + 1
    BY <1>2
  <2>5. \A k \in 1..((i + 1) - m) : k \in 1..(i - m) \/ k = (i - m) + 1
    BY <1>2
  <2>6. \A k \in 1..((i + 1) - m) : r.kept[k] = files[m + k]
    BY <1>2, <2>3, <2>4, <2>5 DEF info
  <2>7. Len(r.kept) = (i + 1) - m
    BY <2>3, <2>4
  <2>8. r.erased = {files[j].path : j \in 1..m}
    BY <1>2, <2>1
  <2>9. ErasesFirst(r, m, i + 1, size)
    BY <1>2, <1>4, <2>1, <2>2, <2>4, <2>6, <2>7, <2>8 DEF ErasesFirst
  <2> QED BY <2>9
<1>5. CASE ~r.done
  <2>1. r.kept = s.kept /\ r.erased = s.erased \cup {info.path} /\ r.total = s.total - info.size
    BY <1>1, <1>5 DEF ErasesFile
  <2>2. m = i
    BY <1>1, <1>2, <1>5
  <2>3. Len(r.kept) = (i + 1) - (i + 1) /\ i + 1 \in 0..(i + 1)
    BY <1>2, <2>1, <2>2
  <2>4. \A k : k \in 1..((i + 1) - (i + 1)) => FALSE
    OBVIOUS
  <2>5. r.erased = {files[j].path : j \in 1..(i + 1)}
    <3>1. \A j : j \in 1..(i + 1) <=> j \in 1..i \/ j = i + 1
      OBVIOUS
    <3>2. s.erased = {files[j].path : j \in 1..i}
      BY <1>2, <2>2
    <3> QED BY <2>1, <3>1, <3>2
  <2>6. SizeOf(Newest(i)) = info.size + SizeOf(Newest(i + 1)) /\ SizeOf(Newest(i)) \in Nat /\ SizeOf(Newest(i + 1)) \in Nat
    <3>1. i \in 0..Len(files)
      BY <1>0
    <3> QED BY <1>0, <3>1, NewestWeighs
  <2>7. r.total = SizeOf(Newest(i + 1))
    <3> DEFINE x == SizeOf(Newest(i))
               y == SizeOf(Newest(i + 1))
               z == info.size
    <3>1. x = z + y /\ x \in Nat /\ y \in Nat /\ z \in Nat /\ r.total = x - z
      BY <1>0, <1>2, <2>1, <2>2, <2>6 DEF InfoRecords
    <3> HIDE DEF x, y, z
    <3> QED BY <3>1 DEF y
  <2>8. SizeOf(Newest(i)) + size > MaxSize
    <3> DEFINE paths == {files[j].path : j \in 1..i}
               x == SizeOf(Newest(i))
    <3>1. IsFiniteSet(paths)
      <4> DEFINE numbers == 1..i
                 name == [j \in numbers |-> files[j].path]
      <4>1. IsFiniteSet(numbers)
        BY <1>0, FS_Interval
      <4>2. name \in Surjection(numbers, paths)
        BY DEF Surjection
      <4> HIDE DEF numbers, name, paths
      <4> QED BY <4>1, <4>2, FS_Surjection
    <3> HIDE DEF paths
    <3>2. Cardinality(paths) \in Nat /\ s.erased = paths
      BY <1>2, <2>2, <3>1, FS_CardinalityType DEF paths
    <3>3. ~(s.total + size <= MaxSize)
      <4> DEFINE fits == s.total + size <= MaxSize
                 count == Cardinality(s.erased)
      <4>1. count >= 0
        BY <3>2
      <4>2. r.done = (s.done \/ (fits /\ count >= 0))
        BY <1>1
      <4> HIDE DEF fits, count
      <4>3. ~fits
        BY <1>5, <4>1, <4>2
      <4> QED BY <4>3 DEF fits
    <3>4. x \in Nat /\ s.total = x
      BY <1>2, <2>2, <2>6
    <3> HIDE DEF x
    <3>5. x + size > MaxSize
      BY <1>0, <3>3, <3>4
    <3> QED BY <3>5 DEF x
  <2>9. (i + 1) - 1 = i
    BY <1>0
  <2>10. ErasesFirst(r, i + 1, i + 1, size)
    BY <1>5, <2>3, <2>4, <2>5, <2>7, <2>8, <2>9 DEF ErasesFirst
  <2> QED BY <2>10
<1> QED BY <1>4, <1>5

\* When no file is locked, the loop erases a first part of the list.
LEMMA RoomErasesFirst ==
    ASSUME NEW size \in Nat, NEW room, files \in Seq(InfoRecords), total = SizeOf(files),
           room = MakeRoom(size, {}, 0)
    PROVE  \E m : ErasesFirst(room, m, Len(files), size)
<1> DEFINE n == Len(files)
           none == {}
<1>1. n \in Nat /\ \A i \in 1..n : files[i] \in InfoRecords
  OBVIOUS
<1>2. PICK f : /\ room = f[n] /\ f[0] = FirstRoom
               /\ \A i \in 1..n : f[i] = Visited(f[i - 1], files[i], size, none, 0)
  <2>1. room = MakeRoom(size, none, 0)
    OBVIOUS
  <2> HIDE DEF none
  <2> QED BY <2>1, RoomIs
<1> DEFINE Good(i) == f[i] \in RoomRecords /\ \E m : ErasesFirst(f[i], m, i, size)
           Bad == {i \in 0..n : ~Good(i)}
<1> HIDE DEF n
<1>3. Good(0)
  <2>1. total \in Nat
    BY SizeIsNat
  <2>2. <<>> \in Seq(InfoRecords) /\ total \in Int /\ {} \in SUBSET Paths
    BY <2>1
  <2>3. FirstRoom \in RoomRecords
    BY <2>2 DEF FirstRoom, RoomRecords
  <2>4. /\ FirstRoom.kept = <<>> /\ FirstRoom.erased = {} /\ FirstRoom.done = FALSE /\ Len(<<>>) = 0
        /\ FirstRoom.total = SizeOf(Newest(0))
    BY NewestWeighs DEF FirstRoom
  <2>5. 0 \in 0..0 /\ 0 - 0 = 0 /\ (\A k : k \notin 1..0) /\ (\A k : k \notin 1..(0 - 0))
    OBVIOUS
  <2>6. {} = {files[j].path : j \in 1..0}
    BY <2>5
  <2>7. ErasesFirst(FirstRoom, 0, 0, size)
    BY <2>4, <2>5, <2>6 DEF ErasesFirst
  <2> QED BY <1>2, <2>3, <2>7
<1>4. ASSUME NEW i \in 1..n, Good(i - 1) PROVE Good(i)
  <2> DEFINE s == f[i - 1]
             r == f[i]
  <2>1. i - 1 \in Nat /\ (i - 1) + 1 = i /\ files[i] \in InfoRecords
    BY <1>1
  <2>2. s \in RoomRecords /\ r = Visited(s, files[i], size, {}, 0)
    BY <1>2, <1>4
  <2>3. PICK m : ErasesFirst(s, m, i - 1, size)
    BY <1>4
  <2> HIDE DEF s, r
  <2>4. r \in RoomRecords
    <3>1. r = Visited(s, files[i], size, none, 0)
      BY <2>2
    <3> HIDE DEF none
    <3> QED BY <2>1, <2>2, <3>1, VisitIs
  <2>5. \E l : ErasesFirst(r, l, i, size)
    <3> DEFINE h == i - 1
    <3>1. h \in 0..(Len(files) - 1) /\ h + 1 = i /\ r = Visited(s, files[h + 1], size, {}, 0)
      BY <1>1, <2>1, <2>2 DEF n
    <3>2. ErasesFirst(s, m, h, size)
      BY <2>3
    <3> HIDE DEF h
    <3>3. \E l : ErasesFirst(r, l, h + 1, size)
      BY <2>2, <3>1, <3>2, TurnErasesFirst
    <3> QED BY <3>1, <3>3
  <2> QED BY <2>4, <2>5 DEF r
<1>5. Good(n)
  <2> SUFFICES ASSUME Bad # {} PROVE FALSE
    BY <1>1
  <2>1. Bad \subseteq Nat
    BY <1>1
  <2> HIDE DEF Bad
  <2>2. PICK j \in Bad : \A z \in Bad : j <= z
    BY <2>1, LeastElement
  <2>3. j \in 0..n /\ ~Good(j)
    BY <2>2 DEF Bad
  <2> HIDE DEF Good
  <2>4. j # 0
    BY <1>3, <2>3
  <2>5. j \in 1..n /\ j - 1 \in 0..n /\ ~(j <= j - 1)
    BY <1>1, <2>3, <2>4
  <2>6. Good(j - 1)
    BY <2>2, <2>5 DEF Bad
  <2> QED BY <1>4, <2>3, <2>5, <2>6
<1> QED BY <1>2, <1>5 DEF n

Steps == {"idle", "ended", "store", "store_and_end", "collect", "collect_and_end", "open"}
Collecting(b) == step[b] \in {"collect", "collect_and_end"}

DiskTypes ==
    /\ inPlace \in BOOLEAN /\ clock \in Nat
    /\ started \in Nat /\ started <= MaxFiles /\ inherited \in Nat /\ inherited <= started
    /\ fs \in [DOMAIN fs -> FileRecords] /\ DOMAIN fs \subseteq Paths
    /\ IsFiniteSet(DOMAIN fs) /\ Cardinality(DOMAIN fs) <= started

BackendTypes ==
    /\ current \in [Backends -> Paths \cup {NoPath}]
    /\ target \in [Backends -> Paths \cup {NoPath}]
    /\ fileCounter \in [Backends -> Nat]
    /\ step \in [Backends -> Steps]
    /\ \A b \in Backends : Collecting(b) => target[b] # NoPath

\* The total is the size of the list.
Booked == files \in Seq(InfoRecords) /\ total = SizeOf(files)

\* Files have been opened and written before now.
Dated ==
    /\ \A p \in DOMAIN fs : fs[p].id <= started /\ fs[p].time <= clock
    /\ \A i \in 1..Len(files) : files[i].id <= started /\ files[i].time <= clock

\* A file is in the directory of the backend that opened it, with a counter that
\* is used up if the process did, until it is stored in the target directory and
\* listed.
Placed ==
    ~inPlace =>
    /\ \A p \in DOMAIN fs : p.dir # "target" => fs[p].by = p.dir
    /\ \A p \in DOMAIN fs : p.dir # "target" /\ fs[p].id > inherited =>
          current[p.dir] # NoPath /\ p.n < fileCounter[p.dir]
    /\ \A p \in DOMAIN fs : p.dir = "target" /\ fs[p].id > inherited => Accounted(p)
    /\ \A i \in 1..Len(files) : files[i].path.dir = "target"
    /\ \A b \in Backends : current[b] # NoPath => current[b].dir = b
    /\ \A b \in Backends : target[b] # NoPath => target[b].dir = "target"

\* The files that one backend of this process wrote are listed in the order of
\* their numbers and times, and the one that it writes comes behind them.
Ordered ==
    ~inPlace =>
    /\ \A i, j \in 1..Len(files) :
          i < j /\ files[i].by = files[j].by /\ files[j].id > inherited
          => files[i].id < files[j].id /\ (files[i].id > inherited => files[i].time <= files[j].time)
    /\ \A b \in Backends : current[b] \in DOMAIN fs /\ fs[current[b]].id > inherited =>
          \A i \in 1..Len(files) : files[i].by = b /\ files[i].id > inherited
              => files[i].id < fs[current[b]].id /\ files[i].time <= fs[current[b]].time

\* A file of an earlier process is listed behind all that are older, as the last
\* scan sorted them, unless it was stored by mistake.
Recovered ==
    ~inPlace /\ ~mistaken =>
    \A i, j \in 1..Len(files) : i < j /\ files[j].id <= inherited => files[i].time <= files[j].time

\* The earlier processes wrote before this one did.
Earlier(file, before, start) == IF file.id <= before THEN file.time <= start ELSE start <= file.time
Eras ==
    ~inPlace =>
    \E start \in Nat :
       /\ start <= clock
       /\ \A p \in DOMAIN fs : Earlier(fs[p], inherited, start)
       /\ \A i \in 1..Len(files) : Earlier(files[i], inherited, start)

\* A file is on the disk once and in the list once, under the same name.
Unique ==
    ~inPlace =>
    /\ \A x, y \in DOMAIN fs : fs[x].id = fs[y].id => x = y
    /\ \A i \in 1..Len(files) : \A x \in DOMAIN fs : files[i].id = fs[x].id => files[i].path = x
    /\ \A i, j \in 1..Len(files) : files[i].id = files[j].id => i = j

\* A backend that is storing a file has none open, and an open file is one of
\* this process.
Writing ==
    /\ open \in [Backends -> BOOLEAN] /\ faults \in Nat
    /\ \A b \in Backends : step[b] \notin {"idle", "ended"} => ~open[b]
    /\ ~inPlace => \A b \in Backends : open[b] /\ current[b] \in DOMAIN fs => fs[current[b]].id > inherited

\* Unless somebody interferes the list has each file of the disk once, and the
\* name that a file is about to be stored under is free.
Undisturbed ==
    ~inPlace /\ ~disturbed =>
    /\ \A i \in 1..Len(files) : files[i].path \in DOMAIN fs /\ fs[files[i].path].id = files[i].id
    /\ \A i, j \in 1..Len(files) : files[i].path = files[j].path => i = j
    /\ \A b \in Backends : Collecting(b) => target[b] \notin DOMAIN fs

TFInv ==
    /\ DiskTypes /\ BackendTypes /\ Booked /\ Dated /\ Placed /\ Ordered /\ Undisturbed
    /\ Recovered /\ Eras /\ Unique /\ Writing

\* An empty directory and a collector that knows no file.
LEMMA TFInitHolds == TFInit => TFInv
<1> SUFFICES ASSUME NEW oneDirectory \in BOOLEAN, NEW backends \in Starts(oneDirectory),
                    TFStart(oneDirectory, backends)
             PROVE  TFInv
  BY DEF TFInit
<1>1. DOMAIN fs = {} /\ files = <<>> /\ Len(files) = 0 /\ files \in Seq(InfoRecords)
  BY DEF TFStart
<1>2. \A i : i \notin 1..Len(files)
  BY <1>1
<1>3. backends \in [Backends -> {"idle", "ended"}]
  BY DEF Starts
<1>4. BackendTypes /\ \A b \in Backends : target[b] = NoPath /\ current[b] = NoPath /\ step[b] \in {"idle", "ended"}
  BY <1>3 DEF BackendTypes, TFStart, FreshBackends, Steps, Collecting
<1>5. DiskTypes
  <2>1. fs \in [DOMAIN fs -> FileRecords]
    BY <1>1 DEF TFStart
  <2>2. IsFiniteSet({}) /\ Cardinality({}) = 0
    BY FS_EmptySet
  <2> QED BY <1>1, <2>1, <2>2, TFAssumptions DEF DiskTypes, TFStart
<1>6. Booked
  BY <1>1, SizeOfNone DEF Booked, TFStart
<1>7. Dated
  BY <1>1, <1>2 DEF Dated
<1>8. Placed /\ Ordered /\ Undisturbed
  BY <1>1, <1>2, <1>4 DEF Placed, Ordered, Undisturbed, Collecting
<1>9. Recovered /\ Eras /\ Unique
  BY <1>1, <1>2, <1>5 DEF Recovered, Eras, Unique, DiskTypes
<1>10. Writing
  BY DEF Writing, TFStart, FreshBackends
<1> QED BY <1>4, <1>5, <1>6, <1>7, <1>8, <1>9, <1>10 DEF TFInv

\* A step that leaves the disk, the collector and the names alone.
LEMMA QuietStep ==
    ASSUME TFInv, UNCHANGED <<diskVars, collectorVars, current, fileCounter, target>>,
           step' \in [Backends -> Steps], \A b \in Backends : Collecting(b)' => Collecting(b),
           Writing'
    PROVE  TFInv'
<1>1. /\ inPlace' = inPlace /\ fs' = fs /\ clock' = clock /\ started' = started /\ inherited' = inherited
      /\ disturbed' = disturbed /\ files' = files /\ total' = total /\ mistaken' = mistaken
      /\ current' = current /\ fileCounter' = fileCounter /\ target' = target
  BY DEF diskVars, collectorVars
<1>2. DiskTypes'
  BY <1>1 DEF TFInv, DiskTypes
<1>3. BackendTypes'
  BY <1>1 DEF TFInv, BackendTypes
<1>4. Booked'
  BY <1>1 DEF TFInv, Booked
<1>5. Dated'
  BY <1>1 DEF TFInv, Dated
<1>6. Placed'
  BY <1>1 DEF TFInv, Placed, Accounted
<1>7. Ordered'
  BY <1>1 DEF TFInv, Ordered
<1>8. Undisturbed'
  BY <1>1 DEF TFInv, Undisturbed
<1>9. Recovered' /\ Eras' /\ Unique'
  BY <1>1 DEF TFInv, Recovered, Eras, Unique
<1> QED BY <1>2, <1>3, <1>4, <1>5, <1>6, <1>7, <1>8, <1>9 DEF TFInv

\* Where the backends stand when one of them goes on.
LEMMA StepsOn ==
    ASSUME BackendTypes, NEW b \in Backends, NEW location \in Steps, ContinueAt(b, location)
    PROVE  /\ step' \in [Backends -> Steps] /\ step'[b] = location
           /\ \A c \in Backends : c # b => step'[c] = step[c]
BY DEF BackendTypes, ContinueAt

\* A file is closed.
LEMMA RotatesKeepsIt ==
    ASSUME TFInv, NEW b \in Backends, consume_rotates(b) \/ destroy_backend(b)
    PROVE  TFInv'
<1>1. UNCHANGED <<diskVars, collectorVars, current, fileCounter, target>>
  BY DEF consume_rotates, destroy_backend
<1>2. BackendTypes
  BY DEF TFInv
<1>3. PICK location : location \in {"store", "store_and_end", "ended"} /\ ContinueAt(b, location)
  BY DEF consume_rotates, destroy_backend
<1>4. location \in Steps /\ location \notin {"collect", "collect_and_end"}
  BY <1>3 DEF Steps
<1>5. step' \in [Backends -> Steps] /\ step'[b] = location /\ \A c \in Backends : c # b => step'[c] = step[c]
  BY <1>2, <1>3, <1>4, StepsOn
<1>6. \A c \in Backends : Collecting(c)' => Collecting(c)
  BY <1>4, <1>5 DEF Collecting
<1>7. Writing'
  <2>1. Writing /\ faults' = faults /\ fs' = fs /\ current' = current /\ inherited' = inherited /\ inPlace' = inPlace
    BY DEF TFInv, consume_rotates, destroy_backend, diskVars
  <2>2. \/ open' = [open EXCEPT ![b] = FALSE]
        \/ open' = open /\ step'[b] = "ended"
    BY <1>2, <1>5 DEF consume_rotates, destroy_backend, CloseFile, ContinueAt, BackendTypes
  <2>3. open' \in [Backends -> BOOLEAN] /\ \A c \in Backends : (open'[c] => open[c]) /\ (c # b => step'[c] = step[c])
    BY <1>5, <2>1, <2>2 DEF Writing
  <2>4. ~open'[b] \/ step'[b] = "ended"
    BY <2>1, <2>2 DEF Writing
  <2> QED BY <2>1, <2>3, <2>4 DEF Writing
<1> QED BY <1>1, <1>5, <1>6, <1>7, QuietStep

\* A record is written to the file of a backend.
LEMMA ConsumeKeepsIt ==
    ASSUME TFInv, NEW b \in Backends, consume(b)
    PROVE  TFInv'
<1> DEFINE p == current[b]
           D == DOMAIN fs
           n == Len(files)
<1>1. /\ inPlace' = inPlace /\ started' = started /\ inherited' = inherited /\ disturbed' = disturbed
      /\ files' = files /\ total' = total /\ current' = current /\ fileCounter' = fileCounter
      /\ target' = target /\ step' = step /\ mistaken' = mistaken /\ open' = open /\ faults' = faults
      /\ open[b]
  BY DEF consume, collectorVars
<1>2. p \in D /\ fs' = [fs EXCEPT ![p].size = @ + 1, ![p].time = clock'] /\ clock' \in {clock, clock + 1}
  BY DEF consume, Exists, Passes
<1>3. clock \in Nat /\ fs \in [D -> FileRecords] /\ \A q \in D : fs[q].time <= clock /\ fs[q].id <= started
  BY DEF TFInv, DiskTypes, Dated
<1>4. fs[p] \in FileRecords /\ fs[p].size \in Nat /\ clock' \in Nat /\ clock <= clock' /\ fs[p].size + 1 \in Nat
  BY <1>2, <1>3 DEF FileRecords
<1> DEFINE file == [fs[p] EXCEPT !.size = @ + 1, !.time = clock']
<1>5. file \in FileRecords /\ file.id = fs[p].id /\ file.by = fs[p].by /\ file.time = clock'
  BY <1>4 DEF FileRecords
<1>6. DOMAIN fs' = D /\ fs'[p] = file /\ \A q \in D : q # p => fs'[q] = fs[q]
  BY <1>2, <1>3
<1> HIDE DEF file, p
<1>7. fs' \in [D -> FileRecords]
  <2>1. \A q \in D : fs'[q] \in FileRecords
    BY <1>3, <1>5, <1>6
  <2>2. fs' = [q \in D |-> fs'[q]]
    BY <1>2, <1>3
  <2> QED BY <2>1, <2>2
<1>8. \A q \in D : fs'[q].id = fs[q].id /\ fs'[q].by = fs[q].by
  BY <1>5, <1>6
<1>9. DiskTypes'
  <2>1. DiskTypes
    BY DEF TFInv
  <2>2. fs' \in [DOMAIN fs' -> FileRecords] /\ DOMAIN fs' = DOMAIN fs
    BY <1>6, <1>7
  <2>3. clock' \in Nat
    BY <1>1, <1>4
  <2> HIDE DEF D
  <2> QED BY <1>1, <2>1, <2>2, <2>3 DEF DiskTypes
<1>10. BackendTypes' /\ Booked'
  BY <1>1 DEF TFInv, BackendTypes, Booked, Collecting
<1>11. Dated'
  <2>1. \A i \in 1..n : files[i].id <= started /\ files[i].time <= clock
    BY DEF TFInv, Dated
  <2>2. files \in Seq(InfoRecords)
    BY DEF TFInv, Booked
  <2>3. \A i \in 1..n : files[i].time \in Nat
    <3>1. \A i \in 1..n : files[i] \in InfoRecords
      BY <2>2
    <3> QED BY <3>1 DEF InfoRecords
  <2>4. \A i \in 1..n : files[i].time <= clock'
    BY <1>3, <1>4, <2>1, <2>3
  <2>5. \A q \in D : fs'[q].id <= started
    BY <1>3, <1>8
  <2>6. \A q \in D : fs'[q].time <= clock'
    <3>1. \A q \in D : fs[q].time \in Nat
      BY <1>3 DEF FileRecords
    <3>2. \A q \in D : fs[q].time <= clock'
      BY <1>3, <1>4, <3>1
    <3> QED BY <1>4, <1>5, <1>6, <3>2
  <2> QED BY <1>1, <1>6, <2>1, <2>4, <2>5, <2>6 DEF Dated
<1>12. Placed'
  BY <1>1, <1>6, <1>8 DEF TFInv, Placed, Accounted
<1>13. Ordered'
  <2>1. SUFFICES ASSUME ~inPlace PROVE Ordered'
    BY <1>1 DEF Ordered
  <2>2. ASSUME NEW c \in Backends, current[c] \in D, fs'[current[c]].id > inherited,
               NEW i \in 1..n, files[i].by = c, files[i].id > inherited
        PROVE  files[i].id < fs'[current[c]].id /\ files[i].time <= fs'[current[c]].time
    <3>1. fs[current[c]].id > inherited /\ fs'[current[c]].id = fs[current[c]].id
      BY <1>8, <2>2
    <3>2. files[i].id < fs[current[c]].id /\ files[i].time <= fs[current[c]].time
      BY <2>1, <2>2, <3>1 DEF TFInv, Ordered
    <3>3. CASE current[c] = p
      <4>1. fs'[current[c]].time = clock'
        BY <1>5, <1>6, <3>3
      <4>2. files[i].time <= clock /\ files[i] \in InfoRecords
        <5>1. files \in Seq(InfoRecords)
          BY DEF TFInv, Booked
        <5> QED BY <5>1 DEF TFInv, Dated
      <4>3. files[i].time \in Nat
        BY <4>2 DEF InfoRecords
      <4> QED BY <1>3, <1>4, <3>1, <3>2, <4>1, <4>2, <4>3
    <3>4. CASE current[c] # p
      BY <1>6, <2>2, <3>1, <3>2, <3>4
    <3> QED BY <3>3, <3>4
  <2>3. \A i, j \in 1..n :
          i < j /\ files[i].by = files[j].by /\ files[j].id > inherited
          => files[i].id < files[j].id /\ (files[i].id > inherited => files[i].time <= files[j].time)
    BY <2>1 DEF TFInv, Ordered
  <2> QED BY <1>1, <1>6, <2>2, <2>3 DEF Ordered
<1>14. Undisturbed'
  BY <1>1, <1>6, <1>8 DEF TFInv, Undisturbed, Collecting
<1>15. Recovered' /\ Unique'
  BY <1>1, <1>6, <1>8 DEF TFInv, Recovered, Unique
<1>16. Writing'
  BY <1>1, <1>6, <1>8 DEF TFInv, Writing
<1>17. Eras'
  <2>1. SUFFICES ASSUME ~inPlace PROVE Eras'
    BY <1>1 DEF Eras
  <2>2. PICK start \in Nat : /\ start <= clock /\ \A q \in D : Earlier(fs[q], inherited, start)
                             /\ \A i \in 1..n : Earlier(files[i], inherited, start)
    BY <2>1 DEF TFInv, Eras
  <2>3. fs[p].id > inherited /\ fs[p].id \in Nat /\ inherited \in Nat
    BY <1>1, <1>2, <1>4, <2>1 DEF TFInv, Writing, DiskTypes, FileRecords, p
  <2>4. start <= clock'
    BY <1>3, <1>4, <2>2
  <2>5. Earlier(fs'[p], inherited, start)
    BY <1>5, <1>6, <2>3, <2>4 DEF Earlier
  <2>6. \A q \in D : Earlier(fs'[q], inherited, start)
    BY <1>6, <2>2, <2>5
  <2> QED BY <1>1, <1>6, <2>2, <2>4, <2>6 DEF Eras
<1> QED BY <1>9, <1>10, <1>11, <1>12, <1>13, <1>14, <1>15, <1>16, <1>17 DEF TFInv

\* The next file of a backend is opened, or cannot be.
LEMMA OpensKeepsIt ==
    ASSUME TFInv, NEW b \in Backends, consume_opens(b)
    PROVE  TFInv'
<1> DEFINE D == DOMAIN fs
           n == Len(files)
           path == Path(Dir(b), fileCounter[b], -1)
           file == [id |-> started + 1, by |-> b, size |-> 1, time |-> clock']
<1>1. /\ inPlace' = inPlace /\ inherited' = inherited /\ disturbed' = disturbed
      /\ files' = files /\ total' = total /\ target' = target /\ mistaken' = mistaken
      /\ current' = [current EXCEPT ![b] = path]
      /\ fileCounter' = [fileCounter EXCEPT ![b] = @ + 1]
      /\ ContinueAt(b, "idle")
  BY DEF consume_opens, collectorVars
<1>2. \/ started < MaxFiles /\ started' = started + 1 /\ clock' \in {clock, clock + 1} /\ fs' = With(fs, path, file)
      \/ UNCHANGED <<fs, clock, started>>
  BY DEF consume_opens, Passes
<1>3. /\ BackendTypes /\ DiskTypes /\ files \in Seq(InfoRecords)
      /\ clock \in Nat /\ started \in Nat /\ inherited \in Nat /\ inherited <= started
      /\ fileCounter[b] \in Nat /\ current \in [Backends -> Paths \cup {NoPath}] /\ fileCounter \in [Backends -> Nat]
  BY DEF TFInv, BackendTypes, DiskTypes, Booked
<1>4. path \in Paths /\ path.dir = Dir(b) /\ path.n = fileCounter[b] /\ path # NoPath
  BY <1>3, TFAssumptions DEF Path, Paths, Dir
<1>5. step' \in [Backends -> Steps] /\ step'[b] = "idle" /\ \A c \in Backends : c # b => step'[c] = step[c]
  <2>1. "idle" \in Steps
    BY DEF Steps
  <2> QED BY <1>1, <1>3, <2>1, StepsOn
<1>6. \A c \in Backends : Collecting(c)' => Collecting(c)
  BY <1>5 DEF Collecting
<1>7. /\ current'[b] = path /\ fileCounter'[b] = fileCounter[b] + 1
      /\ \A c \in Backends : c # b => current'[c] = current[c] /\ fileCounter'[c] = fileCounter[c]
  BY <1>1, <1>3
<1>8. BackendTypes'
  <2>1. current' \in [Backends -> Paths \cup {NoPath}] /\ fileCounter' \in [Backends -> Nat]
    BY <1>1, <1>3, <1>4
  <2> QED BY <1>1, <1>3, <1>5, <1>6, <2>1 DEF BackendTypes
<1>9. Booked'
  BY <1>1 DEF TFInv, Booked
<1>10. ~inPlace => path.dir = b /\ b # "target"
  BY <1>4, TFAssumptions DEF Dir
<1> HIDE DEF path
<1>11. \A i \in 1..n : files[i] \in InfoRecords /\ files[i].id \in Nat /\ files[i].time \in Nat
  <2>1. \A i \in 1..n : files[i] \in InfoRecords
    BY <1>3
  <2> QED BY <2>1 DEF InfoRecords
<1>12. \A i \in 1..n : files[i].id <= started /\ files[i].time <= clock
  BY DEF TFInv, Dated
<1>13. ~inPlace =>
         /\ \A p \in D : p.dir # "target" => fs[p].by = p.dir
         /\ \A p \in D : p.dir # "target" /\ fs[p].id > inherited => current[p.dir] # NoPath /\ p.n < fileCounter[p.dir]
         /\ \A p \in D : p.dir = "target" /\ fs[p].id > inherited => Accounted(p)
         /\ \A i \in 1..n : files[i].path.dir = "target"
         /\ \A c \in Backends : current[c] # NoPath => current[c].dir = c
         /\ \A c \in Backends : target[c] # NoPath => target[c].dir = "target"
  BY DEF TFInv, Placed
<1>14. ~inPlace =>
         \A i, j \in 1..n :
            i < j /\ files[i].by = files[j].by /\ files[j].id > inherited
            => files[i].id < files[j].id /\ (files[i].id > inherited => files[i].time <= files[j].time)
  BY DEF TFInv, Ordered
<1>15. ~inPlace => \A c \in Backends : current[c] \in D /\ fs[current[c]].id > inherited =>
          \A i \in 1..n : files[i].by = c /\ files[i].id > inherited
              => files[i].id < fs[current[c]].id /\ files[i].time <= fs[current[c]].time
  BY DEF TFInv, Ordered
<1>16. ~inPlace => \A c \in Backends : c # b => current[c] # path
  BY <1>4, <1>10, <1>13
<1>17. \A p \in D : p \in Paths /\ fs[p] \in FileRecords /\ fs[p].id \in Nat /\ fs[p].time \in Nat
                    /\ fs[p].id <= started /\ fs[p].time <= clock
  <2>1. \A p \in D : p \in Paths /\ fs[p] \in FileRecords
    BY <1>3 DEF DiskTypes
  <2> QED BY <2>1 DEF FileRecords, TFInv, Dated
<1>18. \A p \in Paths : p.dir # "target" => p.dir \in Backends /\ p.n \in Nat
  BY DEF Paths
<1>19. \A p \in D : p.dir \in Backends => fileCounter[p.dir] \in Nat /\ fileCounter'[p.dir] \in Nat
                                          /\ fileCounter[p.dir] <= fileCounter'[p.dir]
  BY <1>3, <1>7
<1>20. \A p : Accounted(p) => Accounted(p)'
  BY <1>1 DEF Accounted
<1>21. CASE started < MaxFiles /\ started' = started + 1 /\ clock' \in {clock, clock + 1} /\ fs' = With(fs, path, file)
  <2>0. clock' \in Nat /\ clock <= clock'
    BY <1>3, <1>21
  <2>1. DOMAIN fs' = D \cup {path} /\ fs'[path] = file /\ \A p \in D : p # path => fs'[p] = fs[p]
    BY <1>21 DEF With
  <2>2. file \in FileRecords /\ file.id = started + 1 /\ file.by = b /\ file.time = clock'
    BY <1>3, <2>0 DEF FileRecords
  <2> HIDE DEF file
  <2>3. DiskTypes'
    <3>1. fs' = [p \in DOMAIN fs' |-> fs'[p]]
      BY <1>21 DEF With
    <3>2. \A p \in DOMAIN fs' : fs'[p] \in FileRecords /\ p \in Paths
      BY <1>4, <1>17, <2>1, <2>2
    <3>3. fs' \in [DOMAIN fs' -> FileRecords] /\ DOMAIN fs' \subseteq Paths
      BY <3>1, <3>2
    <3>4. IsFiniteSet(D) /\ Cardinality(D) <= started /\ inPlace \in BOOLEAN /\ started \in Nat /\ MaxFiles \in Nat
      BY <1>3, TFAssumptions DEF DiskTypes
    <3>5. IsFiniteSet(D \cup {path}) /\ Cardinality(D \cup {path}) <= Cardinality(D) + 1 /\ Cardinality(D) \in Nat
          /\ Cardinality(D \cup {path}) \in Nat
      BY <3>4, FS_AddElement, FS_CardinalityType
    <3>6. IsFiniteSet(DOMAIN fs') /\ Cardinality(DOMAIN fs') <= started + 1
      BY <2>1, <3>4, <3>5
    <3>7. started + 1 \in Nat /\ started + 1 <= MaxFiles /\ inherited <= started + 1
      BY <1>3, <1>21, <3>4
    <3> QED BY <1>1, <1>3, <1>21, <2>0, <3>3, <3>4, <3>6, <3>7 DEF DiskTypes
  <2>4. Dated'
    <3>1. \A p \in DOMAIN fs' : fs'[p].id <= started + 1 /\ fs'[p].time <= clock'
      BY <1>3, <1>17, <2>0, <2>1, <2>2
    <3>2. ASSUME NEW i \in 1..n PROVE files[i].id <= started + 1 /\ files[i].time <= clock'
      <4>1. files[i].id \in Nat /\ files[i].id <= started /\ files[i].time \in Nat /\ files[i].time <= clock
        BY <1>11, <1>12
      <4> QED BY <1>3, <2>0, <4>1
    <3> QED BY <1>1, <1>21, <3>1, <3>2 DEF Dated
  <2>5. Placed'
    <3>1. SUFFICES ASSUME ~inPlace PROVE Placed'
      BY <1>1 DEF Placed
    <3>2. \A p \in DOMAIN fs' : p.dir # "target" => fs'[p].by = p.dir
      BY <1>10, <1>13, <2>1, <2>2, <3>1
    <3>3. \A p \in DOMAIN fs' : p.dir # "target" /\ fs'[p].id > inherited =>
             current'[p.dir] # NoPath /\ p.n < fileCounter'[p.dir]
      <4> SUFFICES ASSUME NEW p \in DOMAIN fs', p.dir # "target", fs'[p].id > inherited
                   PROVE  current'[p.dir] # NoPath /\ p.n < fileCounter'[p.dir]
        OBVIOUS
      <4>1. CASE p = path
        BY <1>3, <1>4, <1>7, <1>10, <3>1, <4>1
      <4>2. CASE p # path
        <5>1. p \in D /\ fs'[p] = fs[p]
          BY <2>1, <4>2
        <5>2. current[p.dir] # NoPath /\ p.n < fileCounter[p.dir]
          BY <1>13, <3>1, <5>1
        <5>3. p.dir \in Backends /\ p.n \in Nat
          BY <1>17, <1>18, <5>1
        <5>4. fileCounter[p.dir] \in Nat /\ fileCounter'[p.dir] \in Nat /\ fileCounter[p.dir] <= fileCounter'[p.dir]
          BY <1>19, <5>1, <5>3
        <5>5. current'[p.dir] # NoPath
          BY <1>4, <1>7, <5>2, <5>3
        <5> QED BY <5>2, <5>3, <5>4, <5>5
      <4> QED BY <4>1, <4>2
    <3>4. \A p \in DOMAIN fs' : p.dir = "target" /\ fs'[p].id > inherited => Accounted(p)'
      BY <1>10, <1>13, <1>20, <2>1, <3>1
    <3>5. \A c \in Backends : current'[c] # NoPath => current'[c].dir = c
      BY <1>7, <1>10, <1>13, <3>1
    <3> QED BY <1>1, <1>13, <3>1, <3>2, <3>3, <3>4, <3>5 DEF Placed
  <2>6. Ordered'
    <3>1. SUFFICES ASSUME ~inPlace PROVE Ordered'
      BY <1>1 DEF Ordered
    <3>2. ASSUME NEW c \in Backends, current'[c] \in DOMAIN fs', fs'[current'[c]].id > inherited,
                 NEW i \in 1..n, files[i].by = c, files[i].id > inherited
          PROVE  files[i].id < fs'[current'[c]].id /\ files[i].time <= fs'[current'[c]].time
      <4>1. CASE c = b
        <5>1. fs'[current'[c]].id = started + 1 /\ fs'[current'[c]].time = clock'
          BY <1>7, <2>1, <2>2, <4>1
        <5>2. files[i].id \in Nat /\ files[i].id <= started /\ files[i].time \in Nat /\ files[i].time <= clock
          BY <1>11, <1>12
        <5> QED BY <1>3, <2>0, <5>1, <5>2
      <4>2. CASE c # b
        <5>1. current'[c] = current[c] /\ current[c] # path
          BY <1>7, <1>16, <3>1, <4>2
        <5>2. current[c] \in D /\ fs'[current[c]] = fs[current[c]]
          BY <2>1, <3>2, <5>1
        <5> QED BY <1>15, <3>1, <3>2, <5>1, <5>2
      <4> QED BY <4>1, <4>2
    <3> QED BY <1>1, <1>14, <3>1, <3>2 DEF Ordered
  <2>7. Undisturbed'
    <3>1. SUFFICES ASSUME ~inPlace, ~disturbed PROVE Undisturbed'
      BY <1>1 DEF Undisturbed
    <3>2. /\ \A i \in 1..n : files[i].path \in D /\ fs[files[i].path].id = files[i].id
          /\ \A i, j \in 1..n : files[i].path = files[j].path => i = j
          /\ \A c \in Backends : Collecting(c) => target[c] \notin D
      BY <3>1 DEF TFInv, Undisturbed
    <3>3. \A i \in 1..n : files[i].path # path
      BY <1>10, <1>13, <3>1
    <3>4. \A i \in 1..n : files[i].path \in DOMAIN fs' /\ fs'[files[i].path].id = files[i].id
      BY <2>1, <3>2, <3>3
    <3>5. \A c \in Backends : Collecting(c) => target[c] # NoPath
      BY <1>3 DEF BackendTypes
    <3>6. \A c \in Backends : Collecting(c)' => target[c] \notin DOMAIN fs'
      BY <1>6, <1>10, <1>13, <2>1, <3>1, <3>2, <3>5
    <3> QED BY <1>1, <3>2, <3>4, <3>6 DEF Undisturbed
  <2>8. Recovered'
    BY <1>1 DEF TFInv, Recovered
  <2>9. Eras'
    <3>1. SUFFICES ASSUME ~inPlace PROVE Eras'
      BY <1>1 DEF Eras
    <3>2. PICK start \in Nat : /\ start <= clock /\ \A q \in D : Earlier(fs[q], inherited, start)
                               /\ \A i \in 1..n : Earlier(files[i], inherited, start)
      BY <3>1 DEF TFInv, Eras
    <3>3. start <= clock'
      BY <1>3, <2>0, <3>2
    <3>4. Earlier(file, inherited, start)
      BY <1>3, <2>2, <3>3 DEF Earlier
    <3>5. \A q \in DOMAIN fs' : Earlier(fs'[q], inherited, start)
      BY <2>1, <3>2, <3>4
    <3> QED BY <1>1, <3>2, <3>3, <3>5 DEF Eras
  <2>10. Unique'
    <3>1. SUFFICES ASSUME ~inPlace PROVE Unique'
      BY <1>1 DEF Unique
    <3>2. \A p \in D : fs[p].id # file.id
      BY <1>3, <1>17, <2>2
    <3>3. \A i \in 1..n : files[i].id # file.id
      BY <1>3, <1>11, <1>12, <2>2
    <3>4. /\ \A x, y \in D : fs[x].id = fs[y].id => x = y
          /\ \A i \in 1..n : \A x \in D : files[i].id = fs[x].id => files[i].path = x
          /\ \A i, j \in 1..n : files[i].id = files[j].id => i = j
      BY <3>1 DEF TFInv, Unique
    <3>5. \A x, y \in DOMAIN fs' : fs'[x].id = fs'[y].id => x = y
      BY <2>1, <3>2, <3>4
    <3>6. \A i \in 1..n : \A x \in DOMAIN fs' : files[i].id = fs'[x].id => files[i].path = x
      BY <2>1, <3>3, <3>4
    <3> QED BY <1>1, <3>4, <3>5, <3>6 DEF Unique
  <2>11. Writing'
    <3>1. open' = [open EXCEPT ![b] = TRUE] /\ faults' = faults
      BY <1>21, <2>1, <2>2, <1>3 DEF consume_opens
    <3>2. Writing
      BY DEF TFInv
    <3>3. open' \in [Backends -> BOOLEAN] /\ \A c \in Backends : c # b => open'[c] = open[c]
      BY <3>1, <3>2 DEF Writing
    <3>4. \A c \in Backends : step'[c] \notin {"idle", "ended"} => ~open'[c]
      BY <1>5, <3>2, <3>3 DEF Writing
    <3>5. ASSUME ~inPlace, NEW c \in Backends, open'[c], current'[c] \in DOMAIN fs'
          PROVE  fs'[current'[c]].id > inherited
      <4>1. CASE c = b
        BY <1>3, <1>7, <2>1, <2>2, <4>1
      <4>2. CASE c # b
        <5>1. current'[c] = current[c] /\ current[c] # path /\ open[c]
          BY <1>7, <1>16, <3>3, <3>5, <4>2
        <5>2. current[c] \in D /\ fs'[current[c]] = fs[current[c]]
          BY <2>1, <3>5, <5>1
        <5> QED BY <3>2, <3>5, <5>1, <5>2 DEF Writing
      <4> QED BY <4>1, <4>2
    <3> QED BY <1>1, <3>1, <3>2, <3>3, <3>4, <3>5 DEF Writing
  <2> QED BY <1>8, <1>9, <2>3, <2>4, <2>5, <2>6, <2>7, <2>8, <2>9, <2>10, <2>11 DEF TFInv
<1>22. CASE UNCHANGED <<fs, clock, started>>
  <2>1. fs' = fs /\ clock' = clock /\ started' = started
    BY <1>22
  <2>2. DiskTypes' /\ Dated'
    BY <1>1, <2>1 DEF TFInv, DiskTypes, Dated
  <2>3. Placed'
    <3>1. SUFFICES ASSUME ~inPlace PROVE Placed'
      BY <1>1 DEF Placed
    <3>2. \A p \in D : p.dir # "target" /\ fs[p].id > inherited =>
             current'[p.dir] # NoPath /\ p.n < fileCounter'[p.dir]
      <4> SUFFICES ASSUME NEW p \in D, p.dir # "target", fs[p].id > inherited
                   PROVE  current'[p.dir] # NoPath /\ p.n < fileCounter'[p.dir]
        OBVIOUS
      <4>1. current[p.dir] # NoPath /\ p.n < fileCounter[p.dir]
        BY <1>13, <3>1
      <4>2. p.dir \in Backends /\ p.n \in Nat
        BY <1>17, <1>18
      <4>3. fileCounter[p.dir] \in Nat /\ fileCounter'[p.dir] \in Nat /\ fileCounter[p.dir] <= fileCounter'[p.dir]
        BY <1>19, <4>2
      <4>4. current'[p.dir] # NoPath
        BY <1>4, <1>7, <4>1, <4>2
      <4> QED BY <4>1, <4>2, <4>3, <4>4
    <3>3. \A c \in Backends : current'[c] # NoPath => current'[c].dir = c
      BY <1>7, <1>10, <1>13, <3>1
    <3> QED BY <1>1, <1>13, <1>20, <2>1, <3>1, <3>2, <3>3 DEF Placed
  <2>4. Ordered'
    <3>1. SUFFICES ASSUME ~inPlace PROVE Ordered'
      BY <1>1 DEF Ordered
    <3>2. ASSUME NEW c \in Backends, current'[c] \in D, fs[current'[c]].id > inherited PROVE c # b
      <4>1. SUFFICES ASSUME c = b PROVE FALSE
        OBVIOUS
      <4>2. path \in D /\ fs[path].id > inherited
        BY <1>7, <3>2, <4>1
      <4>3. path.n < fileCounter[path.dir] /\ path.dir = b
        BY <1>10, <1>13, <3>1, <4>2
      <4> QED BY <1>3, <1>4, <4>3
    <3>3. ASSUME NEW c \in Backends, current'[c] \in D, fs[current'[c]].id > inherited,
                 NEW i \in 1..n, files[i].by = c, files[i].id > inherited
          PROVE  files[i].id < fs[current'[c]].id /\ files[i].time <= fs[current'[c]].time
      BY <1>7, <1>15, <3>1, <3>2, <3>3
    <3> QED BY <1>1, <1>14, <2>1, <3>1, <3>3 DEF Ordered
  <2>5. Undisturbed'
    BY <1>1, <1>6, <2>1 DEF TFInv, Undisturbed
  <2>6. Recovered' /\ Eras' /\ Unique'
    BY <1>1, <2>1 DEF TFInv, Recovered, Eras, Unique
  <2>7. Writing'
    <3>1. Writing
      BY DEF TFInv
    <3>2. open' = open /\ faults' = faults + 1
      BY <1>3, <1>22 DEF consume_opens, Fault
    <3>3. ~open[b]
      BY <3>1 DEF consume_opens, Writing
    <3>4. \A c \in Backends : step'[c] \notin {"idle", "ended"} => ~open'[c]
      BY <1>5, <3>1, <3>2 DEF Writing
    <3>5. \A c \in Backends : open'[c] => current'[c] = current[c] /\ open[c]
      BY <1>7, <3>2, <3>3
    <3> QED BY <1>1, <2>1, <3>1, <3>2, <3>4, <3>5 DEF Writing
  <2> QED BY <1>8, <1>9, <2>2, <2>3, <2>4, <2>5, <2>6, <2>7 DEF TFInv
<1> QED BY <1>2, <1>21, <1>22

\* One of the numbers 0..MaxFiles is free in the target directory, as there are
\* no more files than that.
LEMMA FreeNameIsFree ==
    ASSUME DiskTypes, NEW n \in Nat
    PROVE  FreeName(n) \in Paths /\ FreeName(n).dir = "target" /\ FreeName(n) \notin DOMAIN fs
<1> DEFINE name(k) == Path("target", n, k)
           Free == {k \in 0..MaxFiles : name(k) \notin DOMAIN fs}
           FirstFree(k) == k \in Free /\ \A m \in 0..k - 1 : name(m) \in DOMAIN fs
           k0 == CHOOSE k \in 0..MaxFiles : FirstFree(k)
<1>1. MaxFiles \in Nat /\ IsFiniteSet(DOMAIN fs) /\ Cardinality(DOMAIN fs) <= MaxFiles
      /\ Cardinality(DOMAIN fs) \in Nat
  <2>1. IsFiniteSet(DOMAIN fs) /\ Cardinality(DOMAIN fs) <= started /\ started <= MaxFiles /\ started \in Nat
    BY DEF DiskTypes
  <2>2. MaxFiles \in Nat /\ Cardinality(DOMAIN fs) \in Nat
    BY <2>1, TFAssumptions, FS_CardinalityType
  <2> QED BY <2>1, <2>2
<1>2. Free # {}
  <2> SUFFICES ASSUME Free = {} PROVE FALSE
    OBVIOUS
  <2> DEFINE f == [k \in 0..MaxFiles |-> name(k)]
             numbers == 0..MaxFiles
  <2>1. f \in [numbers -> DOMAIN fs]
    OBVIOUS
  <2>2. IsFiniteSet(numbers) /\ Cardinality(numbers) = MaxFiles + 1
    BY <1>1, FS_Interval
  <2>3. \A k, l \in numbers : f[k] = f[l] => k = l
    BY DEF Path
  <2>4. Cardinality(DOMAIN fs) < Cardinality(numbers)
    BY <1>1, <2>2
  <2> HIDE DEF f, numbers
  <2>5. \E k, l \in numbers : k # l /\ f[k] = f[l]
    BY <1>1, <2>1, <2>2, <2>4, FS_PigeonHole
  <2> QED BY <2>3, <2>5
<1>3. \E k \in 0..MaxFiles : FirstFree(k)
  <2>1. Free \subseteq Nat
    OBVIOUS
  <2>2. PICK k \in Free : \A m \in Free : k <= m
    BY <1>2, <2>1, LeastElement
  <2>3. k \in 0..MaxFiles /\ k \in Nat
    OBVIOUS
  <2>4. \A m \in 0..k - 1 : m \notin Free /\ m \in 0..MaxFiles
    BY <1>1, <2>2, <2>3
  <2> QED BY <2>3, <2>4
<1>4. k0 \in 0..MaxFiles /\ FirstFree(k0)
  BY <1>3
<1>5. FreeName(n) = name(k0)
  BY DEF FreeName, Exists
<1>6. k0 \in Nat
  BY <1>1, <1>4
<1>7. name(k0) \in Paths /\ name(k0).dir = "target"
  BY <1>6 DEF Path, Paths
<1> QED BY <1>4, <1>5, <1>7

\* A backend looks for a name in the target directory.
LEMMA ChooseNameKeepsIt ==
    ASSUME TFInv, NEW b \in Backends, ChooseName(b)
    PROVE  TFInv'
<1> DEFINE D == DOMAIN fs
           plain == Path("target", current[b].n, -1)
           name == IF ~inPlace /\ Exists(plain) THEN FreeName(current[b].n) ELSE plain
<1>1. /\ inPlace' = inPlace /\ fs' = fs /\ clock' = clock /\ started' = started /\ inherited' = inherited
      /\ disturbed' = disturbed /\ files' = files /\ total' = total
      /\ current' = current /\ fileCounter' = fileCounter /\ mistaken' = mistaken
  BY DEF ChooseName, diskVars, collectorVars, backendVars
<1>2. DiskTypes /\ BackendTypes /\ target \in [Backends -> Paths \cup {NoPath}] /\ D \subseteq Paths
  BY DEF TFInv, BackendTypes, DiskTypes
<1>3. DiskTypes' /\ Booked' /\ Dated' /\ Ordered'
  <2>1. DiskTypes' /\ Booked'
    BY <1>1 DEF TFInv, DiskTypes, Booked
  <2>2. Dated' /\ Ordered'
    BY <1>1 DEF TFInv, Dated, Ordered
  <2> QED BY <2>1, <2>2
<1>6. Recovered' /\ Eras' /\ Unique'
  BY <1>1 DEF TFInv, Recovered, Eras, Unique
<1>7. Writing'
  <2>1. Writing /\ open' = open /\ faults' = faults
    BY DEF TFInv, ChooseName, backendVars
  <2>2. ~open[b]
    BY <2>1 DEF ChooseName, Writing
  <2>3. \A c \in Backends : c # b => step'[c] = step[c]
    BY <1>2 DEF ChooseName, ContinueAt, BackendTypes
  <2> QED BY <1>1, <2>1, <2>2, <2>3 DEF Writing
<1>4. CASE current[b] \notin D
  <2>1. target' = target
    BY <1>4 DEF ChooseName, Exists
  <2>2. PICK location : location \in {"idle", "ended"} /\ ContinueAt(b, location)
    BY <1>4 DEF ChooseName, Exists
  <2>3. location \in Steps /\ location \notin {"collect", "collect_and_end"}
    BY <2>2 DEF Steps
  <2>4. step' \in [Backends -> Steps] /\ step'[b] = location /\ \A c \in Backends : c # b => step'[c] = step[c]
    BY <1>2, <2>2, <2>3, StepsOn
  <2>5. \A c \in Backends : Collecting(c)' => Collecting(c)
    BY <2>3, <2>4 DEF Collecting
  <2>6. UNCHANGED <<diskVars, collectorVars, current, fileCounter, target>>
    BY <2>1 DEF ChooseName, backendVars
  <2> QED BY <1>7, <2>4, <2>5, <2>6, QuietStep
<1>5. CASE current[b] \in D
  <2>1. target' = [target EXCEPT ![b] = name]
    BY <1>5 DEF ChooseName, Exists
  <2>2. PICK location : location \in {"collect", "collect_and_end"} /\ ContinueAt(b, location)
    BY <1>5 DEF ChooseName, Exists
  <2>3. location \in Steps
    BY <2>2 DEF Steps
  <2>4. step' \in [Backends -> Steps] /\ step'[b] = location /\ \A c \in Backends : c # b => step'[c] = step[c]
    BY <1>2, <2>2, <2>3, StepsOn
  <2>5. current[b].n \in Nat
    BY <1>2, <1>5 DEF Paths
  <2>6. plain \in Paths /\ plain.dir = "target"
    BY <2>5 DEF Path, Paths
  <2>7. /\ FreeName(current[b].n) \in Paths /\ FreeName(current[b].n).dir = "target"
        /\ FreeName(current[b].n) \notin D
    BY <1>2, <2>5, FreeNameIsFree
  <2>8. name \in Paths /\ name.dir = "target" /\ (~inPlace => name \notin D) /\ name # NoPath
    <3>1. name \in Paths /\ name.dir = "target" /\ (~inPlace => name \notin D)
      <4> HIDE DEF plain
      <4> QED BY <2>6, <2>7 DEF Exists
    <3> HIDE DEF name
    <3> QED BY <3>1, TFAssumptions
  <2> HIDE DEF name, plain
  <2>9. target'[b] = name /\ \A c \in Backends : c # b => target'[c] = target[c]
    BY <1>2, <2>1
  <2>10. BackendTypes'
    <3>1. target' \in [Backends -> Paths \cup {NoPath}]
      BY <1>2, <2>1, <2>8
    <3>2. \A c \in Backends : Collecting(c)' => target'[c] # NoPath
      BY <1>2, <2>4, <2>8, <2>9 DEF BackendTypes, Collecting
    <3> QED BY <1>1, <1>2, <2>4, <3>1, <3>2 DEF BackendTypes
  <2>11. Placed'
    <3>1. SUFFICES ASSUME ~inPlace PROVE Placed'
      BY <1>1 DEF Placed
    <3>2. \A c \in Backends : target[c] # NoPath => target[c].dir = "target"
      BY <3>1 DEF TFInv, Placed
    <3>3. \A c \in Backends : target'[c] # NoPath => target'[c].dir = "target"
      BY <2>8, <2>9, <3>2
    <3> QED BY <1>1, <3>1, <3>3 DEF TFInv, Placed, Accounted
  <2>12. Undisturbed'
    <3>1. SUFFICES ASSUME ~inPlace, ~disturbed PROVE Undisturbed'
      BY <1>1 DEF Undisturbed
    <3>2. \A c \in Backends : Collecting(c) => target[c] \notin D
      BY <3>1 DEF TFInv, Undisturbed
    <3>3. \A c \in Backends : Collecting(c)' => target'[c] \notin D
      BY <2>4, <2>8, <2>9, <3>1, <3>2 DEF Collecting
    <3> QED BY <1>1, <3>1, <3>3 DEF TFInv, Undisturbed
  <2> QED BY <1>3, <1>6, <1>7, <2>10, <2>11, <2>12 DEF TFInv
<1> QED BY <1>4, <1>5

\* Fewer files are on the disk.
LEMMA FewerFiles ==
    ASSUME DiskTypes, NEW paths, NEW left, left = Without(fs, paths)
    PROVE  /\ DOMAIN left = DOMAIN fs \ paths /\ \A p \in DOMAIN left : left[p] = fs[p]
           /\ left \in [DOMAIN left -> FileRecords] /\ DOMAIN left \subseteq Paths
           /\ IsFiniteSet(DOMAIN left) /\ Cardinality(DOMAIN left) <= started
<1> DEFINE D == DOMAIN fs
           L == D \ paths
<1>1. fs \in [D -> FileRecords] /\ D \subseteq Paths /\ IsFiniteSet(D) /\ Cardinality(D) <= started /\ started \in Nat
  BY DEF DiskTypes
<1>2. left = [p \in L |-> fs[p]]
  BY DEF Without
<1>3. DOMAIN left = L /\ \A p \in L : left[p] = fs[p]
  BY <1>2
<1>4. left \in [L -> FileRecords]
  BY <1>1, <1>2
<1>5. L \in SUBSET D
  OBVIOUS
<1> HIDE DEF D, L
<1>6. IsFiniteSet(L) /\ Cardinality(L) <= Cardinality(D)
  BY <1>1, <1>5, FS_Subset
<1>7. Cardinality(L) \in Nat /\ Cardinality(D) \in Nat
  BY <1>1, <1>6, FS_CardinalityType
<1>8. Cardinality(L) <= started
  BY <1>1, <1>6, <1>7
<1> QED BY <1>1, <1>3, <1>4, <1>5, <1>6, <1>8 DEF D, L

\* Whoever deletes files is noted.
LEMMA UserDeletesKeepsIt == TFInv /\ UserDeletes => TFInv'
<1> SUFFICES ASSUME TFInv, UserDeletes PROVE TFInv'
  OBVIOUS
<1>1. /\ inPlace' = inPlace /\ clock' = clock /\ started' = started /\ inherited' = inherited
      /\ disturbed' = TRUE /\ files' = files /\ total' = total /\ mistaken' = mistaken /\ open' = open
      /\ current' = current /\ fileCounter' = fileCounter /\ step' = step /\ target' = target
  BY DEF UserDeletes, collectorVars, backendVars
<1>2. PICK p : fs' = Without(fs, {p})
  BY DEF UserDeletes
<1>3. DiskTypes
  BY DEF TFInv
<1>4. /\ DOMAIN fs' = DOMAIN fs \ {p} /\ \A q \in DOMAIN fs' : fs'[q] = fs[q]
      /\ fs' \in [DOMAIN fs' -> FileRecords] /\ DOMAIN fs' \subseteq Paths
      /\ IsFiniteSet(DOMAIN fs') /\ Cardinality(DOMAIN fs') <= started
  <2> DEFINE one == {p}
  <2>1. fs' = Without(fs, one) /\ DOMAIN fs \ {p} = DOMAIN fs \ one
    BY <1>2
  <2> HIDE DEF one
  <2>2. /\ DOMAIN fs' = DOMAIN fs \ one /\ \A q \in DOMAIN fs' : fs'[q] = fs[q]
        /\ fs' \in [DOMAIN fs' -> FileRecords] /\ DOMAIN fs' \subseteq Paths
        /\ IsFiniteSet(DOMAIN fs') /\ Cardinality(DOMAIN fs') <= started
    BY ONLY <1>3, <2>1, FewerFiles
  <2> QED BY <2>1, <2>2
<1>5. DiskTypes'
  BY <1>1, <1>3, <1>4 DEF DiskTypes
<1>6. BackendTypes' /\ Booked'
  BY <1>1 DEF TFInv, BackendTypes, Booked, Collecting
<1>7. Dated' /\ Placed'
  BY <1>1, <1>4 DEF TFInv, Dated, Placed, Accounted
<1>8. Ordered'
  BY <1>1, <1>4 DEF TFInv, Ordered
<1>9. Undisturbed'
  BY <1>1 DEF Undisturbed
<1>10. Recovered' /\ Eras' /\ Unique'
  BY <1>1, <1>4 DEF TFInv, Recovered, Eras, Unique
<1>11. Writing'
  <2>1. Writing /\ faults' = faults + 1
    BY DEF TFInv, UserDeletes, Fault
  <2> QED BY <1>1, <1>4, <2>1 DEF Writing
<1> QED BY <1>5, <1>6, <1>7, <1>8, <1>9, <1>10, <1>11 DEF TFInv

\* A new process knows no file and has opened none.
LEMMA RestartKeepsIt == TFInv /\ restart => TFInv'
<1> SUFFICES ASSUME TFInv, restart PROVE TFInv'
  OBVIOUS
<1>1. /\ inPlace' = inPlace /\ fs' = fs /\ clock' = clock /\ started' = started /\ inherited' = started
      /\ disturbed' = disturbed /\ files' = <<>> /\ total' = 0
      /\ current' = [c \in Backends |-> NoPath] /\ target' = [c \in Backends |-> NoPath]
      /\ fileCounter' = [c \in Backends |-> 0] /\ step' \in Starts(inPlace)
      /\ open' = [c \in Backends |-> FALSE]
  BY DEF restart, FreshBackends
<1>2. step' \in [Backends -> {"idle", "ended"}]
  BY <1>1 DEF Starts
<1>3. Len(files') = 0 /\ files' \in Seq(InfoRecords) /\ \A i : i \notin 1..Len(files')
  <2>1. Len(files') = 0 /\ files' \in Seq(InfoRecords)
    BY <1>1
  <2> QED BY <2>1
<1>4. DiskTypes'
  BY <1>1 DEF TFInv, DiskTypes
<1>5. BackendTypes'
  <2>1. step' \in [Backends -> Steps]
    BY <1>2 DEF Steps
  <2>2. \A c \in Backends : ~Collecting(c)'
    BY <1>2 DEF Collecting
  <2> QED BY <1>1, <2>1, <2>2 DEF BackendTypes
<1>6. Booked'
  BY <1>1, <1>3, SizeOfNone DEF Booked
<1>7. Dated'
  BY <1>1, <1>3 DEF TFInv, Dated
<1>8. \A p \in DOMAIN fs' : ~(fs'[p].id > inherited')
  <2>1. \A p \in DOMAIN fs : fs[p].id <= started /\ fs[p] \in FileRecords /\ started \in Nat
    BY DEF TFInv, Dated, DiskTypes
  <2>2. \A p \in DOMAIN fs : fs[p].id \in Nat
    BY <2>1 DEF FileRecords
  <2> QED BY <1>1, <2>1, <2>2
<1>9. Placed'
  <2>1. ~inPlace => \A p \in DOMAIN fs : p.dir # "target" => fs[p].by = p.dir
    BY DEF TFInv, Placed
  <2> QED BY <1>1, <1>3, <1>8, <2>1 DEF Placed
<1>10. Ordered'
  BY <1>3, <1>8 DEF Ordered
<1>11. Undisturbed'
  <2>1. \A c \in Backends : ~Collecting(c)'
    BY <1>2 DEF Collecting
  <2> QED BY <1>3, <2>1 DEF Undisturbed
<1>12. Recovered'
  BY <1>3 DEF Recovered
<1>13. Eras'
  <2>1. \A p \in DOMAIN fs : fs[p].id <= started /\ fs[p].time <= clock
    BY DEF TFInv, Dated
  <2>2. clock \in Nat
    BY DEF TFInv, DiskTypes
  <2>3. \A p \in DOMAIN fs' : Earlier(fs'[p], inherited', clock)
    BY <1>1, <2>1 DEF Earlier
  <2> QED BY <1>1, <1>3, <2>2, <2>3 DEF Eras
<1>14. Unique'
  BY <1>1, <1>3 DEF TFInv, Unique
<1>15. Writing'
  <2>1. Writing /\ (faults' = faults \/ faults' = faults + 1)
    BY DEF TFInv, restart, Fault
  <2> QED BY <1>1, <2>1 DEF Writing
<1> QED BY <1>4, <1>5, <1>6, <1>7, <1>9, <1>10, <1>11, <1>12, <1>13, <1>14, <1>15 DEF TFInv

\* There is a number behind the numbers of finitely many paths.
LEMMA NumberBehind ==
    ASSUME NEW S, IsFiniteSet(S), S \subseteq Paths
    PROVE  \E m \in Nat : \A p \in S : p.n < m
<1> DEFINE Behind(T) == \E m \in Nat : \A p \in T : p.n < m
           Bad == {k \in Nat : \E T : T \subseteq Paths /\ IsFiniteSet(T) /\ Cardinality(T) = k /\ ~Behind(T)}
<1>1. Bad = {}
  <2> SUFFICES ASSUME Bad # {} PROVE FALSE
    OBVIOUS
  <2>1. Bad \subseteq Nat
    OBVIOUS
  <2>2. PICK k \in Bad : \A l \in Bad : k <= l
    <3> HIDE DEF Bad
    <3> QED BY <2>1, LeastElement
  <2>3. PICK T : T \subseteq Paths /\ IsFiniteSet(T) /\ Cardinality(T) = k /\ ~Behind(T)
    OBVIOUS
  <2>4. T # {}
    <3>1. SUFFICES ASSUME T = {} PROVE FALSE
      OBVIOUS
    <3>2. 0 \in Nat /\ \A p \in T : p.n < 0
      BY <3>1
    <3> QED BY <2>3, <3>2
  <2>5. PICK x : x \in T
    BY <2>4
  <2> DEFINE U == T \ {x}
  <2>6. IsFiniteSet(U) /\ Cardinality(U) = k - 1
    BY <2>3, <2>5, FS_RemoveElement
  <2>7. k - 1 \in Nat
    BY <2>6, FS_CardinalityType
  <2>8. k - 1 \notin Bad
    BY <2>2, <2>7
  <2>9. Behind(U)
    <3>1. U \subseteq Paths
      BY <2>3
    <3> QED BY <2>6, <2>7, <2>8, <3>1
  <2>10. PICK m \in Nat : \A p \in U : p.n < m
    BY <2>9
  <2>11. x.n \in Nat /\ \A p \in T : p.n \in Nat
    BY <2>3, <2>5 DEF Paths
  <2> DEFINE l == IF x.n < m THEN m ELSE x.n + 1
  <2>12. l \in Nat /\ x.n < l /\ m <= l
    BY <2>11
  <2>13. \A p \in T : p = x \/ p \in U
    OBVIOUS
  <2> HIDE DEF l, U
  <2>14. \A p \in T : p.n < l
    BY <2>10, <2>11, <2>12, <2>13
  <2> QED BY <2>3, <2>12, <2>14
<1>2. Cardinality(S) \in Nat
  BY FS_CardinalityType
<1> QED BY <1>1, <1>2

\* The counter that a scan goes on with.
LEMMA CounterGoesOn ==
    ASSUME NEW S, IsFiniteSet(S), S \subseteq Paths
    PROVE  Max({0} \cup {p.n + 1 : p \in S}) \in Nat
<1> DEFINE N == {0} \cup {p.n + 1 : p \in S}
<1>1. PICK m \in Nat : \A p \in S : p.n < m
  BY NumberBehind
<1>2. \A p \in S : p.n \in Nat
  BY DEF Paths
<1>3. N \subseteq 0..m /\ N # {}
  BY <1>1, <1>2
<1> HIDE DEF N
<1>4. \E x \in N : \A y \in N : y <= x
  BY <1>3, GreatestElement
<1>5. \A x, y \in N : y <= x <=> x >= y
  BY <1>3
<1>6. \E x \in N : \A y \in N : x >= y
  BY <1>4, <1>5
<1>7. Max(N) \in N
  BY <1>6 DEF Max
<1> QED BY <1>3, <1>7 DEF N

\* store_file when there is room: the file is moved and listed, or it is not.
Moves(b, room) ==
    /\ fs' = IF inPlace THEN Without(fs, room.erased)
             ELSE With(Without(Without(fs, room.erased), {current[b]}), target[b], fs[current[b]])
    /\ files' = Append(room.kept, Info(target[b], fs[current[b]]))
    /\ total' = room.total + fs[current[b]].size
Fails(b, room) ==
    ~inPlace /\ fs' = Without(fs, room.erased) /\ files' = room.kept /\ total' = room.total

\* store_file does one of the two, and moves the file if no call fails,
LEMMA StoresWith ==
    ASSUME faults \in Nat, NEW b \in Backends, store_file(b)
    PROVE  \E locked, needed, room :
              /\ room = MakeRoom(fs[current[b]].size, locked, needed)
              /\ Moves(b, room) \/ Fails(b, room)
              /\ UNCHANGED faults => Moves(b, room) /\ locked = {} /\ needed = 0
<1> DEFINE Room(locked, needed) == MakeRoom(fs[current[b]].size, locked, needed)
<1>1. PICK locked, needed, moved :
         /\ IF locked = {} /\ needed = 0 /\ moved THEN UNCHANGED faults ELSE Fault
         /\ \/ moved /\ Moves(b, Room(locked, needed))
            \/ ~moved /\ Fails(b, Room(locked, needed))
  <2>1. PICK locked \in {{}} \cup {{files[i].path} : i \in DOMAIN files}, needed \in 0..1, moved \in BOOLEAN :
          LET file == fs[current[b]]
              room == MakeRoom(file.size, locked, needed)
              left == Without(fs, room.erased)
          IN  /\ IF locked = {} /\ needed = 0 /\ moved THEN UNCHANGED faults ELSE Fault
              /\ \/ /\ moved
                    /\ fs' = IF inPlace THEN left
                             ELSE With(Without(left, {current[b]}), target[b], file)
                    /\ files' = Append(room.kept, Info(target[b], file))
                    /\ total' = room.total + file.size
                 \/ /\ ~inPlace /\ ~moved
                    /\ fs' = left /\ files' = room.kept /\ total' = room.total
    BY Zenon DEF store_file
  <2> HIDE DEF Room
  <2> QED BY <2>1 DEF Moves, Fails, Room
<1>2. PICK room : room = Room(locked, needed)
  OBVIOUS
<1> HIDE DEF Room
<1>3. Fault => ~UNCHANGED faults
  BY DEF Fault
<1>4. UNCHANGED faults => locked = {} /\ needed = 0 /\ moved
  BY <1>1, <1>3
<1> QED BY <1>1, <1>2, <1>4 DEF Room

\* and leaves the rest alone.
LEMMA StoresFrame ==
    ASSUME BackendTypes, NEW b \in Backends, store_file(b)
    PROVE  /\ inPlace' = inPlace /\ clock' = clock /\ started' = started /\ inherited' = inherited
           /\ current' = current /\ fileCounter' = fileCounter
           /\ disturbed' = (disturbed \/ \E other \in Backends \ {b} : target[other] = target[b])
           /\ mistaken' = (mistaken \/ fs[current[b]].id <= inherited)
           /\ open' = open /\ (faults' = faults \/ faults' = faults + 1)
           /\ Collecting(b) /\ current[b] \in DOMAIN fs
           /\ target'[b] = NoPath /\ \A c \in Backends : c # b => target'[c] = target[c]
           /\ target' \in [Backends -> Paths \cup {NoPath}]
           /\ step' \in [Backends -> Steps] /\ ~Collecting(b)'
           /\ \A c \in Backends : c # b => step'[c] = step[c]
           /\ \A c \in Backends : c # b /\ Collecting(c)' => Collecting(c)
<1>1. target \in [Backends -> Paths \cup {NoPath}] /\ target' = [target EXCEPT ![b] = NoPath]
  BY DEF BackendTypes, store_file
<1>2. target'[b] = NoPath /\ \A c \in Backends : c # b => target'[c] = target[c]
  BY <1>1
<1>3. target' \in [Backends -> Paths \cup {NoPath}]
  BY <1>1
<1>4. PICK location : location \in {"open", "ended", "idle"} /\ ContinueAt(b, location)
  BY DEF store_file
<1>5. location \in Steps /\ location \notin {"collect", "collect_and_end"}
  BY <1>4 DEF Steps
<1>6. step' \in [Backends -> Steps] /\ step'[b] = location /\ \A c \in Backends : c # b => step'[c] = step[c]
  BY <1>4, <1>5, StepsOn
<1>7. ~Collecting(b)' /\ \A c \in Backends : c # b /\ Collecting(c)' => Collecting(c)
  BY <1>5, <1>6 DEF Collecting
<1>8. /\ inPlace' = inPlace /\ clock' = clock /\ started' = started /\ inherited' = inherited
      /\ current' = current /\ fileCounter' = fileCounter
      /\ disturbed' = (disturbed \/ \E other \in Backends \ {b} : target[other] = target[b])
      /\ mistaken' = (mistaken \/ fs[current[b]].id <= inherited)
      /\ open' = open
  BY DEF store_file, backendVars
<1>9. faults' = faults \/ faults' = faults + 1
  BY DEF store_file, Fault
<1>10. Collecting(b) /\ current[b] \in DOMAIN fs
  BY DEF store_file, Collecting, Exists
<1> QED BY <1>2, <1>3, <1>6, <1>7, <1>8, <1>10, <1>9

\* The disk after it.
LEMMA DiskMoves ==
    ASSUME TFInv, NEW b \in Backends, Collecting(b), current[b] \in DOMAIN fs, NEW room, Moves(b, room), ~inPlace
    PROVE  /\ DOMAIN fs' = ((DOMAIN fs \ room.erased) \ {current[b]}) \cup {target[b]}
           /\ fs'[target[b]] = fs[current[b]]
           /\ \A p \in DOMAIN fs' : p # target[b] => p \in DOMAIN fs /\ fs'[p] = fs[p]
           /\ fs' \in [DOMAIN fs' -> FileRecords] /\ DOMAIN fs' \subseteq Paths
           /\ IsFiniteSet(DOMAIN fs') /\ Cardinality(DOMAIN fs') <= started
<1> DEFINE D == DOMAIN fs
           cur == current[b]
           tgt == target[b]
           L == (D \ room.erased) \ {cur}
           U == L \cup {tgt}
           V == D \ {cur}
<1>1. DiskTypes /\ tgt \in Paths
  BY DEF TFInv, BackendTypes
<1>2. fs \in [D -> FileRecords] /\ D \subseteq Paths /\ IsFiniteSet(D) /\ Cardinality(D) <= started /\ started \in Nat
      /\ cur \in D
  BY <1>1 DEF DiskTypes
<1>3. fs' = [p \in U |-> IF p = tgt THEN fs[cur] ELSE fs[p]]
  <2> DEFINE left == Without(Without(fs, room.erased), {cur})
  <2>1. DOMAIN left = L /\ \A p \in L : left[p] = fs[p]
    BY DEF Without
  <2>2. fs' = With(left, tgt, fs[cur])
    BY DEF Moves
  <2> HIDE DEF left, L
  <2>3. fs' = [p \in U |-> IF p = tgt THEN fs[cur] ELSE left[p]]
    BY <2>1, <2>2 DEF With
  <2> HIDE DEF cur, tgt
  <2>4. \A p \in U : (IF p = tgt THEN fs[cur] ELSE left[p]) = (IF p = tgt THEN fs[cur] ELSE fs[p])
    BY <2>1
  <2> QED BY <2>3, <2>4
<1> HIDE DEF cur, tgt
<1>4. DOMAIN fs' = U /\ fs'[tgt] = fs[cur] /\ \A p \in U : p # tgt => p \in D /\ fs'[p] = fs[p]
  BY <1>3
<1>5. fs' \in [U -> FileRecords] /\ U \subseteq Paths
  <2>1. \A p \in U : (IF p = tgt THEN fs[cur] ELSE fs[p]) \in FileRecords
    BY <1>2
  <2> QED BY <1>1, <1>2, <1>3, <2>1
<1>6. L \in SUBSET V
  OBVIOUS
<1> HIDE DEF L, D
<1>7. IsFiniteSet(V) /\ Cardinality(V) = Cardinality(D) - 1
  BY <1>2, FS_RemoveElement
<1> HIDE DEF V
<1>8. IsFiniteSet(L) /\ Cardinality(L) <= Cardinality(V)
  BY <1>6, <1>7, FS_Subset
<1>9. IsFiniteSet(U) /\ Cardinality(U) = IF tgt \in L THEN Cardinality(L) ELSE Cardinality(L) + 1
  BY <1>8, FS_AddElement
<1>10. Cardinality(D) \in Nat /\ Cardinality(V) \in Nat /\ Cardinality(L) \in Nat
  BY <1>2, <1>7, <1>8, FS_CardinalityType
<1>11. Cardinality(U) <= started
  BY <1>2, <1>7, <1>8, <1>9, <1>10
<1> QED BY <1>4, <1>5, <1>9, <1>11 DEF D, L, cur, tgt

\* What is kept stays in order, and the new file comes behind it with its
\* number and time behind those of its backend.
LEMMA StoreFileKeepsIt ==
    ASSUME TFInv, NEW b \in Backends, store_file(b)
    PROVE  TFInv'
<1> DEFINE D == DOMAIN fs
           n == Len(files)
           cur == current[b]
           tgt == target[b]
           file == fs[cur]
           stored == Info(tgt, file)
<1>1. PICK locked, needed, room :
         /\ room = MakeRoom(file.size, locked, needed)
         /\ Moves(b, room) \/ Fails(b, room)
  <2>1. faults \in Nat
    BY DEF TFInv, Writing
  <2> QED BY <2>1, StoresWith
<1> DEFINE K == Len(room.kept)
           E == room.erased
<1>2. BackendTypes /\ DiskTypes /\ files \in Seq(InfoRecords) /\ total = SizeOf(files)
  BY DEF TFInv, Booked
<1>3. /\ inPlace' = inPlace /\ clock' = clock /\ started' = started /\ inherited' = inherited
      /\ current' = current /\ fileCounter' = fileCounter
      /\ disturbed' = (disturbed \/ \E other \in Backends \ {b} : target[other] = tgt)
      /\ mistaken' = (mistaken \/ file.id <= inherited)
      /\ open' = open /\ (faults' = faults \/ faults' = faults + 1)
      /\ Collecting(b) /\ cur \in D
      /\ target'[b] = NoPath /\ \A c \in Backends : c # b => target'[c] = target[c]
      /\ target' \in [Backends -> Paths \cup {NoPath}]
      /\ step' \in [Backends -> Steps] /\ ~Collecting(b)'
      /\ \A c \in Backends : c # b => step'[c] = step[c]
      /\ \A c \in Backends : c # b /\ Collecting(c)' => Collecting(c)
  BY ONLY <1>2, StoresFrame, b \in Backends, store_file(b)
<1>4. room \in RoomRecords /\ room.total = SizeOf(room.kept) /\ \E q : Leaves(room, q, n)
  BY <1>1, <1>2, RoomLeaves
<1>5. PICK q : Leaves(room, q, n)
  BY <1>4
<1>6. /\ room.kept \in Seq(InfoRecords) /\ K \in Nat /\ n \in Nat
      /\ E \in SUBSET Paths
  BY <1>2, <1>4 DEF RoomRecords
<1>7. /\ \A k \in 1..K : q[k] \in 1..n /\ room.kept[k] = files[q[k]]
      /\ \A k, l \in 1..K : k < l => q[k] < q[l]
  BY <1>5 DEF Leaves
<1>8. /\ \A p \in E : \E j \in 1..n : files[j].path = p /\ \A k \in 1..K : q[k] # j
      /\ \A j \in 1..n : (\E k \in 1..K : q[k] = j) \/ files[j].path \in E
  BY <1>5 DEF Leaves
<1>9. \A k, l \in 1..K : k # l => q[k] # q[l]
  <2>1. \A k, l \in 1..K : k # l => k < l \/ l < k
    BY <1>6
  <2>2. \A k \in 1..K : q[k] \in Int
    BY <1>6, <1>7
  <2> QED BY <1>7, <2>1, <2>2
<1>10. tgt \in Paths /\ tgt # NoPath
  <2>1. tgt # NoPath /\ tgt \in Paths \cup {NoPath}
    BY <1>2, <1>3 DEF BackendTypes
  <2> QED BY <2>1
<1>11. file \in FileRecords /\ file.id \in Nat /\ file.time \in Nat /\ file.size \in Nat
       /\ file.id <= started /\ file.time <= clock /\ cur \in Paths
  <2>1. file \in FileRecords /\ cur \in Paths
    BY <1>2, <1>3 DEF DiskTypes
  <2>2. file.id <= started /\ file.time <= clock
    BY <1>3 DEF TFInv, Dated
  <2> QED BY <2>1, <2>2 DEF FileRecords
<1>12. /\ stored \in InfoRecords /\ stored.path = tgt /\ stored.id = file.id /\ stored.by = file.by
       /\ stored.time = file.time /\ stored.size = file.size
  BY <1>10, <1>11 DEF Info, InfoRecords, FileRecords
<1>13. /\ \A i \in 1..n : files[i] \in InfoRecords /\ files[i].id \in Nat /\ files[i].time \in Nat
       /\ \A i \in 1..n : files[i].id <= started /\ files[i].time <= clock
  <2>1. \A i \in 1..n : files[i] \in InfoRecords
    BY <1>2
  <2> QED BY <2>1 DEF InfoRecords, TFInv, Dated
<1>14. \A p \in D : fs[p].id <= started /\ fs[p].time <= clock
  BY DEF TFInv, Dated
<1>15. inherited \in Nat /\ started \in Nat
  BY <1>2 DEF DiskTypes
<1>16. ~inPlace =>
         /\ \A p \in D : p.dir # "target" => fs[p].by = p.dir
         /\ \A p \in D : p.dir # "target" /\ fs[p].id > inherited => current[p.dir] # NoPath /\ p.n < fileCounter[p.dir]
         /\ \A p \in D : p.dir = "target" /\ fs[p].id > inherited => Accounted(p)
         /\ \A i \in 1..n : files[i].path.dir = "target"
         /\ \A c \in Backends : current[c] # NoPath => current[c].dir = c
         /\ \A c \in Backends : target[c] # NoPath => target[c].dir = "target"
  BY DEF TFInv, Placed
<1>17. ~inPlace =>
         \A i, j \in 1..n :
            i < j /\ files[i].by = files[j].by /\ files[j].id > inherited
            => files[i].id < files[j].id /\ (files[i].id > inherited => files[i].time <= files[j].time)
  BY DEF TFInv, Ordered
<1>18. ~inPlace => \A c \in Backends : current[c] \in D /\ fs[current[c]].id > inherited =>
          \A i \in 1..n : files[i].by = c /\ files[i].id > inherited
              => files[i].id < fs[current[c]].id /\ files[i].time <= fs[current[c]].time
  BY DEF TFInv, Ordered
<1>19. ~inPlace => /\ cur.dir = b /\ tgt.dir = "target" /\ b # "target" /\ file.by = b
                   /\ \A c \in Backends : current[c] # NoPath => current[c].dir = c
  BY <1>3, <1>10, <1>11, <1>16, TFAssumptions
<1>20. ~inPlace /\ ~disturbed =>
         /\ \A i \in 1..n : files[i].path \in D /\ fs[files[i].path].id = files[i].id
         /\ \A i, j \in 1..n : files[i].path = files[j].path => i = j
         /\ \A c \in Backends : Collecting(c) => target[c] \notin D
  BY DEF TFInv, Undisturbed
<1>21. BackendTypes'
  <2>1. \A c \in Backends : Collecting(c)' => target'[c] # NoPath
    BY <1>2, <1>3 DEF BackendTypes
  <2> QED BY <1>2, <1>3, <2>1 DEF BackendTypes
<1>22. \A c \in Backends : current[c] \in D => current[c] # NoPath
  BY <1>2, TFAssumptions DEF DiskTypes
<1>23. DiskTypes => inPlace \in BOOLEAN /\ clock \in Nat /\ started \in Nat /\ started <= MaxFiles
                    /\ inherited \in Nat /\ inherited <= started
  BY DEF DiskTypes
<1>24. \A p \in E : ~inPlace => p.dir = "target"
  BY <1>8, <1>16
<1>25. Writing /\ ~open[b]
  BY <1>3 DEF TFInv, Writing, Collecting
<1>26. ~inPlace => /\ \A x, y \in D : fs[x].id = fs[y].id => x = y
                   /\ \A i \in 1..n : \A x \in D : files[i].id = fs[x].id => files[i].path = x
                   /\ \A i, j \in 1..n : files[i].id = files[j].id => i = j
  BY DEF TFInv, Unique
<1>27. ~inPlace /\ ~mistaken =>
          \A i, j \in 1..n : i < j /\ files[j].id <= inherited => files[i].time <= files[j].time
  BY DEF TFInv, Recovered
<1>28. ~inPlace => \E start \in Nat : /\ start <= clock /\ \A p \in D : Earlier(fs[p], inherited, start)
                                      /\ \A i \in 1..n : Earlier(files[i], inherited, start)
  BY DEF TFInv, Eras
<1>29. ~inPlace => /\ \A i \in 1..n : files[i].id # file.id
                   /\ \A c \in Backends : current[c] # tgt
  <2>1. \A c \in Backends : current[c] \in Paths \cup {NoPath}
    BY <1>2 DEF BackendTypes
  <2> HIDE DEF cur, tgt, file, D, n
  <2>2. ~inPlace => \A c \in Backends : current[c] # tgt
    BY <1>10, <1>19, <2>1, TFAssumptions
  <2>3. ~inPlace => \A i \in 1..n : files[i].id # file.id
    <3>1. cur \in D /\ file = fs[cur]
      BY <1>3 DEF file
    <3> QED BY <1>16, <1>19, <1>26, <3>1
  <2> QED BY <2>2, <2>3
<1>31. ASSUME \/ inPlace
              \/ \A c \in Backends : c # b /\ current[c] \in DOMAIN fs'
                                     => current[c] \in D /\ fs'[current[c]] = fs[current[c]]
       PROVE  Writing'
  BY <1>3, <1>25, <1>31 DEF Writing
<1> HIDE DEF D, n, cur, tgt, file, stored, K, E
\* What is on the disk, moved or not.
<1>30. CASE Moves(b, room)
  <2>1. files' = Append(room.kept, stored) /\ total' = room.total + file.size
    BY <1>30 DEF Moves, stored, tgt, file, cur
  <2>2. /\ files' \in Seq(InfoRecords) /\ Len(files') = K + 1 /\ files'[K + 1] = stored
        /\ \A k \in 1..K : files'[k] = files[q[k]] /\ files'[k] = room.kept[k]
    <3>1. /\ files' \in Seq(InfoRecords) /\ Len(files') = K + 1 /\ files'[K + 1] = stored
          /\ \A k \in 1..K : files'[k] = room.kept[k]
      BY <1>6, <1>12, <2>1 DEF K
    <3> QED BY <1>7, <3>1
  <2>3. Booked'
    <3>1. SizeOf(Append(room.kept, stored)) = SizeOf(room.kept) + stored.size
      BY <1>6, <1>12, SizeOfOne
    <3> QED BY <1>4, <1>12, <2>1, <2>2, <3>1 DEF Booked
  <2>4. \A i \in 1..(K + 1) : i = K + 1 \/ i \in 1..K
    BY <1>6
  <2>5. \A i \in 1..(K + 1) : files'[i].id <= started /\ files'[i].time <= clock
    BY <1>7, <1>11, <1>12, <1>13, <2>2, <2>4
  <2>6. CASE inPlace
    <3>1. fs' = Without(fs, room.erased)
      BY <1>30, <2>6 DEF Moves
    <3>2. /\ DOMAIN fs' = DOMAIN fs \ room.erased /\ \A p \in DOMAIN fs' : fs'[p] = fs[p]
          /\ fs' \in [DOMAIN fs' -> FileRecords] /\ DOMAIN fs' \subseteq Paths
          /\ IsFiniteSet(DOMAIN fs') /\ Cardinality(DOMAIN fs') <= started
      BY ONLY ZenonT(60), <1>2, <3>1, FewerFiles
    <3>3. DiskTypes'
      BY <1>2, <1>3, <1>23, <3>2 DEF DiskTypes
    <3>4. Dated'
      BY <1>3, <1>14, <2>2, <2>5, <3>2 DEF Dated, D
    <3>5. Placed' /\ Ordered' /\ Undisturbed'
      BY <1>3, <2>6 DEF Placed, Ordered, Undisturbed
    <3>6. Recovered' /\ Eras' /\ Unique'
      BY <1>3, <2>6 DEF Recovered, Eras, Unique
    <3>7. Writing'
      BY <1>31, <2>6
    <3> QED BY <1>21, <2>3, <3>3, <3>4, <3>5, <3>6, <3>7 DEF TFInv
  <2>7. CASE ~inPlace
    <3>1. /\ DOMAIN fs' = ((D \ E) \ {cur}) \cup {tgt}
          /\ fs'[tgt] = file
          /\ \A p \in DOMAIN fs' : p # tgt => p \in D /\ fs'[p] = fs[p]
          /\ fs' \in [DOMAIN fs' -> FileRecords] /\ DOMAIN fs' \subseteq Paths
          /\ IsFiniteSet(DOMAIN fs') /\ Cardinality(DOMAIN fs') <= started
      <4>1. Collecting(b) /\ current[b] \in DOMAIN fs
        BY <1>3 DEF cur, D
      <4>2. /\ DOMAIN fs' = ((DOMAIN fs \ room.erased) \ {current[b]}) \cup {target[b]}
            /\ fs'[target[b]] = fs[current[b]]
            /\ \A p \in DOMAIN fs' : p # target[b] => p \in DOMAIN fs /\ fs'[p] = fs[p]
            /\ fs' \in [DOMAIN fs' -> FileRecords] /\ DOMAIN fs' \subseteq Paths
            /\ IsFiniteSet(DOMAIN fs') /\ Cardinality(DOMAIN fs') <= started
        BY ONLY <1>30, <2>7, <4>1, TFInv, b \in Backends, DiskMoves
      <4> QED BY <4>2 DEF D, E, cur, tgt, file
    <3>2. DiskTypes'
      BY <1>2, <1>3, <1>23, <3>1 DEF DiskTypes
    <3>3. Dated'
      <4>1. \A p \in DOMAIN fs' : fs'[p].id <= started /\ fs'[p].time <= clock
        BY <1>11, <1>14, <3>1
      <4> QED BY <1>3, <2>2, <2>5, <4>1 DEF Dated
    <3>4. Placed'
      <4>1. \A p \in DOMAIN fs' : p.dir # "target" => fs'[p].by = p.dir
        BY <1>16, <1>19, <2>7, <3>1
      <4>2. \A p \in DOMAIN fs' : p.dir # "target" /\ fs'[p].id > inherited =>
               current'[p.dir] # NoPath /\ p.n < fileCounter'[p.dir]
        BY <1>3, <1>16, <1>19, <2>7, <3>1
      <4>3. ASSUME NEW p \in DOMAIN fs', p.dir = "target", fs'[p].id > inherited
            PROVE  Accounted(p)'
        <5>1. SUFFICES \E i \in 1..(K + 1) : files'[i].path = p
          BY <2>2 DEF Accounted
        <5>2. CASE p = tgt
          <6>1. K + 1 \in 1..(K + 1)
            BY <1>6
          <6> QED BY <1>12, <2>2, <5>2, <6>1
        <5>3. CASE p # tgt
          <6>1. p \in D /\ p \notin E /\ fs[p].id > inherited
            BY <3>1, <4>3, <5>3
          <6>2. PICK j \in 1..n : files[j].path = p
            <7>1. Accounted(p)
              BY <1>16, <2>7, <4>3, <6>1
            <7>2. DOMAIN files = 1..n
              BY <1>2 DEF n
            <7> QED BY <7>1, <7>2 DEF Accounted
          <6>3. PICK k \in 1..K : q[k] = j
            BY <1>8, <6>1, <6>2
          <6>4. k \in 1..(K + 1)
            BY <1>6
          <6> QED BY <2>2, <6>2, <6>3, <6>4
        <5> QED BY <5>2, <5>3
      <4>4. \A i \in 1..(K + 1) : files'[i].path.dir = "target"
        BY <1>7, <1>12, <1>16, <1>19, <2>2, <2>4, <2>7
      <4>5. \A c \in Backends : target'[c] # NoPath => target'[c].dir = "target"
        BY <1>3, <1>16, <2>7
      <4> QED BY <1>3, <1>16, <2>2, <2>7, <4>1, <4>2, <4>3, <4>4, <4>5 DEF Placed
    <3>5. Ordered'
      <4>1. ASSUME NEW i \in 1..(K + 1), NEW j \in 1..(K + 1), i < j, files'[i].by = files'[j].by,
                   files'[j].id > inherited
            PROVE  files'[i].id < files'[j].id /\ (files'[i].id > inherited => files'[i].time <= files'[j].time)
        <5>1. i \in 1..K
          BY <1>6, <4>1
        <5>2. files'[i] = files[q[i]] /\ q[i] \in 1..n
          BY <1>7, <2>2, <5>1
        <5>3. CASE j \in 1..K
          <6>1. files'[j] = files[q[j]] /\ q[j] \in 1..n /\ q[i] < q[j]
            BY <1>7, <2>2, <4>1, <5>1, <5>3
          <6> QED BY <1>17, <2>7, <4>1, <5>2, <6>1
        <5>4. CASE j = K + 1
          <6>1. files'[j].id = file.id /\ files'[j].by = file.by /\ files'[j].time = file.time
            BY <1>12, <2>2, <5>4
          <6>2. files[q[i]].by = b /\ file.id > inherited
            BY <1>19, <2>7, <4>1, <5>2, <6>1
          <6>3. files[q[i]].id > inherited => files[q[i]].id < file.id /\ files[q[i]].time <= file.time
            <7>1. current[b] \in D /\ fs[current[b]] = file
              BY <1>3 DEF cur, file
            <7> QED BY <1>18, <2>7, <5>2, <6>2, <7>1
          <6>4. files[q[i]].id \in Nat
            BY <1>13, <5>2
          <6>5. files[q[i]].id < file.id
            <7> DEFINE x == files[q[i]].id
                       y == file.id
            <7>1. x \in Nat /\ y \in Nat /\ inherited \in Nat /\ y > inherited /\ (x > inherited => x < y)
              BY <1>11, <1>15, <6>2, <6>3, <6>4
            <7> HIDE DEF x, y
            <7>2. x < y
              BY <7>1
            <7> QED BY <7>2 DEF x, y
          <6> QED BY <5>2, <6>1, <6>3, <6>5
        <5> QED BY <2>4, <5>3, <5>4
      <4>2. ASSUME NEW c \in Backends, current[c] \in DOMAIN fs', fs'[current[c]].id > inherited,
                   NEW i \in 1..(K + 1), files'[i].by = c, files'[i].id > inherited
            PROVE  files'[i].id < fs'[current[c]].id /\ files'[i].time <= fs'[current[c]].time
        <5>1. current[c] # tgt
          <6>1. current[c] \in Paths \cup {NoPath}
            BY <1>2 DEF BackendTypes
          <6> QED BY <1>10, <1>19, <2>7, TFAssumptions
        <5>2. current[c] \in D /\ fs'[current[c]] = fs[current[c]] /\ current[c] # cur
          BY <3>1, <4>2, <5>1
        <5>3. c # b
          BY <5>2 DEF cur
        <5>4. i \in 1..K
          BY <1>12, <1>19, <2>2, <2>4, <2>7, <4>2, <5>3
        <5>5. files'[i] = files[q[i]] /\ q[i] \in 1..n
          BY <1>7, <2>2, <5>4
        <5> QED BY <1>18, <2>7, <4>2, <5>2, <5>5
      <4> QED BY <1>3, <2>2, <2>7, <4>1, <4>2 DEF Ordered
    <3>6. Undisturbed'
      <4>1. SUFFICES ASSUME ~disturbed, \A c \in Backends : c # b => target[c] # tgt PROVE Undisturbed'
        BY <1>3 DEF Undisturbed
      <4>2. \A k \in 1..K : /\ files'[k].path \in D /\ files'[k].path # tgt /\ files'[k].path \in DOMAIN fs'
                            /\ fs'[files'[k].path].id = files'[k].id
        <5> SUFFICES ASSUME NEW k \in 1..K
                     PROVE  /\ files'[k].path \in D /\ files'[k].path # tgt /\ files'[k].path \in DOMAIN fs'
                            /\ fs'[files'[k].path].id = files'[k].id
          OBVIOUS
        <5>1. files'[k] = files[q[k]] /\ q[k] \in 1..n
          BY <1>7, <2>2
        <5>2. files'[k].path \in D /\ fs[files'[k].path].id = files'[k].id
          BY <1>20, <2>7, <4>1, <5>1
        <5>3. files'[k].path # tgt
          BY <1>3, <1>20, <2>7, <4>1, <5>2 DEF tgt
        <5>4. files'[k].path # cur
          BY <1>16, <1>19, <2>7, <5>1
        <5>5. files'[k].path \notin E
          <6>1. SUFFICES ASSUME files'[k].path \in E PROVE FALSE
            OBVIOUS
          <6>2. PICK j \in 1..n : files[j].path = files'[k].path /\ \A l \in 1..K : q[l] # j
            BY <1>8, <6>1
          <6>3. j = q[k]
            BY <1>20, <2>7, <4>1, <5>1, <6>2
          <6> QED BY <6>2, <6>3
        <5> QED BY <3>1, <5>2, <5>3, <5>4, <5>5
      <4>3. \A i \in 1..(K + 1) : files'[i].path \in DOMAIN fs' /\ fs'[files'[i].path].id = files'[i].id
        <5>1. tgt \in DOMAIN fs' /\ fs'[tgt].id = stored.id /\ files'[K + 1].path = tgt
          BY <1>12, <2>2, <3>1
        <5> QED BY <2>2, <2>4, <4>2, <5>1
      <4>4. ASSUME NEW i \in 1..(K + 1), NEW j \in 1..(K + 1), files'[i].path = files'[j].path
            PROVE  i = j
        <5>1. files'[K + 1].path = tgt
          BY <1>12, <2>2
        <5>2. CASE i \in 1..K /\ j \in 1..K
          <6>1. files'[i] = files[q[i]] /\ q[i] \in 1..n /\ files'[j] = files[q[j]] /\ q[j] \in 1..n
            BY <1>7, <2>2, <5>2
          <6>2. q[i] = q[j]
            BY <1>20, <2>7, <4>1, <4>4, <6>1
          <6> QED BY <1>9, <5>2, <6>2
        <5>3. CASE i = K + 1 \/ j = K + 1
          BY <2>4, <4>2, <4>4, <5>1, <5>3
        <5> QED BY <2>4, <5>2, <5>3
      <4>5. \A c \in Backends : Collecting(c)' => target'[c] \notin DOMAIN fs'
        <5>1. \A c \in Backends : Collecting(c)' => c # b /\ Collecting(c) /\ target'[c] = target[c]
          BY <1>3
        <5>2. \A c \in Backends : Collecting(c) /\ c # b => target[c] \notin D /\ target[c] # tgt
          BY <1>20, <2>7, <4>1
        <5>3. \A p \in DOMAIN fs' : p = tgt \/ p \in D
          BY <3>1
        <5> QED BY <5>1, <5>2, <5>3
      <4> QED BY <2>2, <4>3, <4>4, <4>5 DEF Undisturbed
    <3>7. Recovered'
      <4>1. SUFFICES ASSUME ~mistaken, ~(file.id <= inherited), NEW i \in 1..(K + 1), NEW j \in 1..(K + 1),
                            i < j, files'[j].id <= inherited
                     PROVE  files'[i].time <= files'[j].time
        BY <1>3, <2>2 DEF Recovered
      <4>2. j # K + 1
        BY <1>12, <2>2, <4>1
      <4>3. j \in 1..K /\ i \in 1..K
        BY <1>6, <4>1, <4>2
      <4>4. /\ files'[i] = files[q[i]] /\ files'[j] = files[q[j]] /\ q[i] < q[j]
            /\ q[i] \in 1..n /\ q[j] \in 1..n
        BY <1>7, <2>2, <4>1, <4>3
      <4> QED BY <1>27, <2>7, <4>1, <4>4
    <3>8. Eras'
      <4>1. PICK start \in Nat : /\ start <= clock /\ \A p \in D : Earlier(fs[p], inherited, start)
                                 /\ \A i \in 1..n : Earlier(files[i], inherited, start)
        BY <1>28, <2>7
      <4>2. Earlier(file, inherited, start)
        BY <1>3, <4>1 DEF file
      <4>3. \A p \in DOMAIN fs' : Earlier(fs'[p], inherited, start)
        BY <3>1, <4>1, <4>2
      <4>4. Earlier(stored, inherited, start)
        BY <1>12, <4>2 DEF Earlier
      <4>5. \A i \in 1..(K + 1) : Earlier(files'[i], inherited, start)
        BY <1>7, <2>2, <2>4, <4>1, <4>4
      <4> QED BY <1>3, <2>2, <4>1, <4>3, <4>5 DEF Eras
    <3>9. Unique'
      <4>1. \A p \in DOMAIN fs' : p = tgt \/ (p \in D /\ p # cur /\ fs'[p] = fs[p])
        BY <3>1
      <4>2. \A p \in D : fs[p].id = file.id => p = cur
        BY <1>3, <1>26, <2>7 DEF file
      <4>3. \A x, y \in DOMAIN fs' : fs'[x].id = fs'[y].id => x = y
        BY <1>26, <2>7, <3>1, <4>1, <4>2
      <4>4. ASSUME NEW i \in 1..(K + 1), NEW x \in DOMAIN fs', files'[i].id = fs'[x].id
            PROVE  files'[i].path = x
        <5>1. CASE i = K + 1
          BY <1>12, <2>2, <3>1, <4>1, <4>2, <4>4, <5>1
        <5>2. CASE i \in 1..K
          <6>1. files'[i] = files[q[i]] /\ q[i] \in 1..n
            BY <1>7, <2>2, <5>2
          <6>2. x # tgt
            BY <1>29, <2>7, <3>1, <4>4, <6>1
          <6> QED BY <1>26, <2>7, <4>1, <4>4, <6>1, <6>2
        <5> QED BY <2>4, <5>1, <5>2
      <4>5. ASSUME NEW i \in 1..(K + 1), NEW j \in 1..(K + 1), files'[i].id = files'[j].id PROVE i = j
        <5>1. \A k \in 1..K : files'[k].id # file.id
          BY <1>7, <1>29, <2>2, <2>7
        <5>2. files'[K + 1].id = file.id
          BY <1>12, <2>2
        <5>3. CASE i \in 1..K /\ j \in 1..K
          <6>1. files'[i] = files[q[i]] /\ q[i] \in 1..n /\ files'[j] = files[q[j]] /\ q[j] \in 1..n
            BY <1>7, <2>2, <5>3
          <6>2. q[i] = q[j]
            BY <1>26, <2>7, <4>5, <6>1
          <6> QED BY <1>9, <5>3, <6>2
        <5> QED BY <2>4, <4>5, <5>1, <5>2, <5>3
      <4> QED BY <2>2, <4>3, <4>4, <4>5 DEF Unique
    <3>10. Writing'
      BY <1>29, <1>31, <2>7, <3>1
    <3> QED BY <1>21, <2>3, <3>2, <3>3, <3>4, <3>5, <3>6, <3>7, <3>8, <3>9, <3>10 DEF TFInv
  <2> QED BY <2>6, <2>7
<1>40. CASE Fails(b, room)
  <2>1. ~inPlace /\ files' = room.kept /\ total' = room.total /\ fs' = Without(fs, room.erased)
    BY <1>40 DEF Fails
  <2>2. /\ files' \in Seq(InfoRecords) /\ Len(files') = K
        /\ \A k \in 1..K : files'[k] = files[q[k]] /\ q[k] \in 1..n
    BY <1>6, <1>7, <2>1 DEF K
  <2>3. Booked'
    BY <1>4, <2>1, <2>2 DEF Booked
  <2>4. /\ DOMAIN fs' = D \ E /\ \A p \in DOMAIN fs' : fs'[p] = fs[p]
        /\ fs' \in [DOMAIN fs' -> FileRecords] /\ DOMAIN fs' \subseteq Paths
        /\ IsFiniteSet(DOMAIN fs') /\ Cardinality(DOMAIN fs') <= started
    <3>1. /\ DOMAIN fs' = DOMAIN fs \ room.erased /\ \A p \in DOMAIN fs' : fs'[p] = fs[p]
          /\ fs' \in [DOMAIN fs' -> FileRecords] /\ DOMAIN fs' \subseteq Paths
          /\ IsFiniteSet(DOMAIN fs') /\ Cardinality(DOMAIN fs') <= started
      BY ONLY ZenonT(60), <1>2, <2>1, FewerFiles
    <3> QED BY <3>1 DEF D, E
  <2>5. DiskTypes'
    BY <1>2, <1>3, <1>23, <2>4 DEF DiskTypes
  <2>6. Dated'
    <3>1. \A p \in DOMAIN fs' : fs'[p].id <= started /\ fs'[p].time <= clock
      BY <1>14, <2>4
    <3>2. \A k \in 1..K : files'[k].id <= started /\ files'[k].time <= clock
      BY <1>13, <2>2
    <3> QED BY <1>3, <2>2, <3>1, <3>2 DEF Dated
  <2>7. Placed'
    <3>1. ASSUME NEW p \in DOMAIN fs', p.dir = "target", fs'[p].id > inherited
          PROVE  Accounted(p)'
      <4>1. SUFFICES \E i \in 1..K : files'[i].path = p
        BY <2>2 DEF Accounted
      <4>2. p \in D /\ p \notin E /\ fs[p].id > inherited
        BY <2>4, <3>1
      <4>3. PICK j \in 1..n : files[j].path = p
        <5>1. Accounted(p)
          BY <1>16, <2>1, <3>1, <4>2
        <5>2. DOMAIN files = 1..n
          BY <1>2 DEF n
        <5> QED BY <5>1, <5>2 DEF Accounted
      <4>4. PICK k \in 1..K : q[k] = j
        BY <1>8, <4>2, <4>3
      <4> QED BY <2>2, <4>3, <4>4
    <3>2. \A p \in DOMAIN fs' : p.dir # "target" => fs'[p].by = p.dir
      BY <1>16, <2>1, <2>4
    <3>3. \A p \in DOMAIN fs' : p.dir # "target" /\ fs'[p].id > inherited =>
             current'[p.dir] # NoPath /\ p.n < fileCounter'[p.dir]
      BY <1>3, <1>16, <2>1, <2>4
    <3>4. \A k \in 1..K : files'[k].path.dir = "target"
      BY <1>16, <2>1, <2>2
    <3>5. \A c \in Backends : target'[c] # NoPath => target'[c].dir = "target"
      BY <1>3, <1>16, <2>1
    <3> QED BY <1>3, <1>16, <2>1, <2>2, <3>1, <3>2, <3>3, <3>4, <3>5 DEF Placed
  <2>8. Ordered'
    <3>1. \A i, j \in 1..K : i < j /\ files'[i].by = files'[j].by /\ files'[j].id > inherited
             => files'[i].id < files'[j].id /\ (files'[i].id > inherited => files'[i].time <= files'[j].time)
      BY SMTT(40), <1>7, <1>17, <2>1, <2>2
    <3>2. \A c \in Backends : current[c] \in DOMAIN fs' /\ fs'[current[c]].id > inherited =>
             \A i \in 1..K : files'[i].by = c /\ files'[i].id > inherited
                => files'[i].id < fs'[current[c]].id /\ files'[i].time <= fs'[current[c]].time
      BY <1>18, <2>1, <2>2, <2>4
    <3> QED BY <1>3, <2>2, <3>1, <3>2 DEF Ordered
  <2>9. Undisturbed'
    <3>1. SUFFICES ASSUME ~disturbed PROVE Undisturbed'
      BY <1>3 DEF Undisturbed
    <3>2. \A k \in 1..K : files'[k].path \in DOMAIN fs' /\ fs'[files'[k].path].id = files'[k].id
      <4> SUFFICES ASSUME NEW k \in 1..K
                   PROVE  files'[k].path \in DOMAIN fs' /\ fs'[files'[k].path].id = files'[k].id
        OBVIOUS
      <4>1. files'[k] = files[q[k]] /\ q[k] \in 1..n
        BY <2>2
      <4>2. files'[k].path \in D /\ fs[files'[k].path].id = files'[k].id
        BY <1>20, <2>1, <3>1, <4>1
      <4>3. files'[k].path \notin E
        <5>1. SUFFICES ASSUME files'[k].path \in E PROVE FALSE
          OBVIOUS
        <5>2. PICK j \in 1..n : files[j].path = files'[k].path /\ \A l \in 1..K : q[l] # j
          BY <1>8, <5>1
        <5>3. j = q[k]
          BY <1>20, <2>1, <3>1, <4>1, <5>2
        <5> QED BY <5>2, <5>3
      <4> QED BY <2>4, <4>2, <4>3
    <3>3. ASSUME NEW i \in 1..K, NEW j \in 1..K, files'[i].path = files'[j].path PROVE i = j
      <4>1. files'[i] = files[q[i]] /\ q[i] \in 1..n /\ files'[j] = files[q[j]] /\ q[j] \in 1..n
        BY <2>2
      <4>2. q[i] = q[j]
        BY <1>20, <2>1, <3>1, <3>3, <4>1
      <4> QED BY <1>9, <4>2
    <3>4. \A c \in Backends : Collecting(c)' => target'[c] \notin DOMAIN fs'
      BY <1>3, <1>20, <2>1, <2>4, <3>1
    <3> QED BY <2>2, <3>2, <3>3, <3>4 DEF Undisturbed
  <2>10. Recovered'
    <3>1. SUFFICES ASSUME ~mistaken, NEW i \in 1..K, NEW j \in 1..K, i < j, files'[j].id <= inherited
                   PROVE  files'[i].time <= files'[j].time
      BY <1>3, <2>2 DEF Recovered
    <3>2. /\ files'[i] = files[q[i]] /\ files'[j] = files[q[j]] /\ q[i] < q[j]
          /\ q[i] \in 1..n /\ q[j] \in 1..n
      BY <1>7, <2>2, <3>1
    <3> QED BY <1>27, <2>1, <3>1, <3>2
  <2>11. Eras'
    <3>1. PICK start \in Nat : /\ start <= clock /\ \A p \in D : Earlier(fs[p], inherited, start)
                               /\ \A i \in 1..n : Earlier(files[i], inherited, start)
      BY <1>28, <2>1
    <3>2. \A p \in DOMAIN fs' : Earlier(fs'[p], inherited, start)
      BY <2>4, <3>1
    <3>3. \A k \in 1..K : Earlier(files'[k], inherited, start)
      BY <2>2, <3>1
    <3> QED BY <1>3, <2>2, <3>1, <3>2, <3>3 DEF Eras
  <2>12. Unique'
    <3>1. \A x, y \in DOMAIN fs' : fs'[x].id = fs'[y].id => x = y
      BY <1>26, <2>1, <2>4
    <3>2. \A i \in 1..K : \A x \in DOMAIN fs' : files'[i].id = fs'[x].id => files'[i].path = x
      BY <1>26, <2>1, <2>2, <2>4
    <3>3. ASSUME NEW i \in 1..K, NEW j \in 1..K, files'[i].id = files'[j].id PROVE i = j
      <4>1. q[i] = q[j]
        BY <1>26, <2>1, <2>2, <3>3
      <4> QED BY <1>9, <4>1
    <3> QED BY <2>2, <3>1, <3>2, <3>3 DEF Unique
  <2>13. Writing'
    BY <1>31, <2>4
  <2> QED BY <1>21, <2>3, <2>5, <2>6, <2>7, <2>8, <2>9, <2>10, <2>11, <2>12, <2>13 DEF TFInv
<1> QED BY <1>1, <1>30, <1>40

\* What a scan finds, lists behind the known files, and sorts.
Finds(foundFiles, it, list) ==
    /\ foundFiles \subseteq DOMAIN fs /\ \A x \in foundFiles : x.dir = "target" /\ ~Accounted(x)
    /\ it \in Bijection(1..Cardinality(foundFiles), foundFiles)
    /\ list = [i \in 1..Cardinality(foundFiles) |-> Info(it[i], fs[it[i]])]
Sorts(list, p) ==
    LET whole == files \o list
    IN  /\ p \in Bijection(DOMAIN whole, DOMAIN whole)
        /\ files' = [i \in DOMAIN whole |-> whole[p[i]]]
        /\ \A i, j \in DOMAIN whole : i < j =>
              \/ whole[p[i]].time < whole[p[j]].time
              \/ whole[p[i]].time = whole[p[j]].time /\ p[i] < p[j]

\* scan_for_files does this.
LEMMA ScanFinds ==
    ASSUME NEW b, NEW method, NEW update_counter, scan_for_files(b, method, update_counter)
    PROVE  \E foundFiles, it, list, p :
              /\ Finds(foundFiles, it, list) /\ Sorts(list, p)
              /\ total' = total + SizeOf(list)
              /\ \/ fileCounter' = fileCounter
                 \/ fileCounter' = [fileCounter EXCEPT ![b] = Max({0} \cup {x.n + 1 : x \in foundFiles})]
<1> DEFINE foundFiles == {p \in DOMAIN fs : p.dir = "target" /\ ~Accounted(p)
                                         /\ (method = "scan_matching" => p.clash = -1)}
           Listed(it) == [i \in DOMAIN it |-> Info(it[i], fs[it[i]])]
<1>1. PICK it \in Bijection(1..Cardinality(foundFiles), foundFiles) :
         files' \in SortedByTime(files \o Listed(it)) /\ total' = total + SizeOf(Listed(it))
  BY DEF scan_for_files
<1>2. \/ fileCounter' = fileCounter
      \/ fileCounter' = [fileCounter EXCEPT ![b] = Max({0} \cup {x.n + 1 : x \in foundFiles})]
  BY DEF scan_for_files
<1> DEFINE list == Listed(it)
<1>3. foundFiles \subseteq DOMAIN fs /\ \A x \in foundFiles : x.dir = "target" /\ ~Accounted(x)
  OBVIOUS
<1>4. DOMAIN it = 1..Cardinality(foundFiles)
  <2> HIDE DEF foundFiles
  <2> QED BY <1>1 DEF Bijection, Injection
<1>5. list = [i \in 1..Cardinality(foundFiles) |-> Info(it[i], fs[it[i]])]
  <2> HIDE DEF foundFiles
  <2> QED BY <1>4
<1> HIDE DEF foundFiles
<1>6. Finds(foundFiles, it, list)
  BY <1>1, <1>3, <1>5 DEF Finds
<1> HIDE DEF list
<1>7. \E p : Sorts(list, p)
  BY <1>1 DEF SortedByTime, Sorts, list
<1> QED BY <1>1, <1>2, <1>6, <1>7 DEF list

\* Two files of this process were listed in the order of their times already; the
\* files that a scan finds are inherited, or it would know them, and are sorted in.
LEMMA ScanKeepsIt ==
    ASSUME TFInv, NEW b \in Backends, NEW method, NEW update_counter, scan_for_files(b, method, update_counter)
    PROVE  TFInv'
<1> DEFINE D == DOMAIN fs
           n == Len(files)
<1>1. PICK foundFiles, it, list, p :
         /\ Finds(foundFiles, it, list) /\ Sorts(list, p)
         /\ total' = total + SizeOf(list)
         /\ \/ fileCounter' = fileCounter
            \/ fileCounter' = [fileCounter EXCEPT ![b] = Max({0} \cup {x.n + 1 : x \in foundFiles})]
  BY ScanFinds
<1> DEFINE N == Cardinality(foundFiles)
           whole == files \o list
           m == n + N
<1>2. /\ inPlace' = inPlace /\ fs' = fs /\ clock' = clock /\ started' = started /\ inherited' = inherited
      /\ disturbed' = disturbed /\ current' = current /\ step' = step /\ target' = target
      /\ mistaken' = mistaken /\ open' = open /\ faults' = faults
      /\ current[b] = NoPath
  BY DEF scan_for_files, diskVars
<1>3. BackendTypes /\ DiskTypes /\ files \in Seq(InfoRecords) /\ total = SizeOf(files) /\ n \in Nat
  BY DEF TFInv, Booked
<1>4. fs \in [D -> FileRecords] /\ D \subseteq Paths /\ IsFiniteSet(D) /\ started \in Nat /\ inherited \in Nat
  BY <1>3 DEF DiskTypes
<1>5. foundFiles \subseteq D /\ \A x \in foundFiles : x.dir = "target" /\ ~Accounted(x)
  BY <1>1 DEF Finds
<1>6. IsFiniteSet(foundFiles) /\ N \in Nat
  <2>1. foundFiles \in SUBSET D
    BY <1>5
  <2> HIDE DEF D
  <2> QED BY <1>4, <2>1, FS_Subset, FS_CardinalityType
<1>7. /\ \A i \in 1..N : it[i] \in foundFiles
      /\ \A i, j \in 1..N : it[i] = it[j] => i = j
  BY <1>1 DEF Finds, Bijection, Injection, IsInjective
<1> HIDE DEF D, N
<1>8. /\ list \in Seq(InfoRecords) /\ Len(list) = N
      /\ \A i \in 1..N : list[i] = Info(it[i], fs[it[i]])
  <2>1. list = [i \in 1..N |-> Info(it[i], fs[it[i]])]
    BY <1>1 DEF Finds, N
  <2>2. \A i \in 1..N : Info(it[i], fs[it[i]]) \in InfoRecords
    <3>1. \A i \in 1..N : it[i] \in D /\ it[i] \in Paths /\ fs[it[i]] \in FileRecords
      BY <1>4, <1>5, <1>7
    <3> QED BY <3>1 DEF Info, InfoRecords, FileRecords
  <2>3. list \in [1..N -> InfoRecords]
    BY <2>1, <2>2
  <2>4. list \in Seq(InfoRecords) /\ Len(list) = N
    BY <1>6, <2>3, FunctionIsSeq
  <2> QED BY <2>1, <2>4
<1>9. \A i \in 1..N : /\ list[i].path = it[i] /\ list[i].id = fs[it[i]].id /\ list[i].time = fs[it[i]].time
                      /\ it[i] \in D /\ it[i].dir = "target" /\ ~Accounted(it[i])
  BY <1>5, <1>7, <1>8 DEF Info
<1>10. /\ whole \in Seq(InfoRecords) /\ Len(whole) = m /\ m \in Nat /\ DOMAIN whole = 1..m
       /\ \A i \in 1..n : whole[i] = files[i]
       /\ \A i \in 1..m : i > n => i - n \in 1..N /\ whole[i] = list[i - n]
  <2>1. whole \in Seq(InfoRecords) /\ Len(whole) = m /\ m \in Nat
    BY <1>3, <1>6, <1>8
  <2>2. DOMAIN whole = 1..m
    BY <2>1
  <2>3. \A i \in 1..n : whole[i] = files[i]
    BY <1>3, <1>8
  <2>4. \A i \in 1..m : i > n => i - n \in 1..N /\ whole[i] = list[i - n]
    BY <1>3, <1>6, <1>8
  <2> QED BY <2>1, <2>2, <2>3, <2>4
<1> HIDE DEF whole, m
<1>11. /\ p \in Bijection(1..m, 1..m)
       /\ files' = [i \in 1..m |-> whole[p[i]]]
       /\ \A i, j \in 1..m : i < j =>
              \/ whole[p[i]].time < whole[p[j]].time
              \/ whole[p[i]].time = whole[p[j]].time /\ p[i] < p[j]
  BY <1>1, <1>10 DEF Sorts, whole
<1>12. /\ \A i \in 1..m : p[i] \in 1..m
       /\ \A i, j \in 1..m : p[i] = p[j] => i = j
       /\ \A j \in 1..m : \E i \in 1..m : p[i] = j
  BY <1>11 DEF Bijection, Injection, Surjection, IsInjective
<1>13. /\ files' \in Seq(InfoRecords) /\ Len(files') = m
       /\ \A i \in 1..m : files'[i] = whole[p[i]]
  <2>1. \A i \in 1..m : whole[p[i]] \in InfoRecords
    BY <1>10, <1>12
  <2>2. files' \in [1..m -> InfoRecords]
    BY <1>11, <2>1
  <2>3. m \in Nat
    BY <1>10
  <2>4. files' \in Seq(InfoRecords) /\ Len(files') = m
    BY <2>2, <2>3, FunctionIsSeq
  <2> QED BY <1>11, <2>4
<1>14. DiskTypes'
  BY <1>2, <1>3 DEF DiskTypes
<1>15. fileCounter' \in [Backends -> Nat] /\ \A c \in Backends : c # b => fileCounter'[c] = fileCounter[c]
  <2>1. Max({0} \cup {x.n + 1 : x \in foundFiles}) \in Nat
    <3>1. foundFiles \subseteq Paths
      BY <1>4, <1>5
    <3> QED BY <1>6, <3>1, CounterGoesOn
  <2>2. fileCounter \in [Backends -> Nat]
    BY <1>3 DEF BackendTypes
  <2> QED BY <1>1, <2>1, <2>2
<1>16. BackendTypes'
  BY <1>2, <1>3, <1>15 DEF BackendTypes, Collecting
<1>17. Booked'
  <2>1. SizeOf(whole) = SizeOf(files) + SizeOf(list)
    BY <1>3, <1>8, SizeOfBoth DEF whole
  <2>2. SizeOf(files') = SizeOf(whole)
    <3> DEFINE after == files'
    <3>1. after \in Seq(InfoRecords) /\ whole \in Seq(InfoRecords) /\ Len(whole) = Len(after)
          /\ p \in Bijection(1..Len(whole), 1..Len(whole)) /\ \A i \in 1..Len(whole) : after[i] = whole[p[i]]
      BY <1>10, <1>11, <1>13
    <3> HIDE DEF after
    <3>2. SizeOf(after) = SizeOf(whole)
      BY ONLY <3>1, SizeOfMoved
    <3> QED BY <3>2 DEF after
  <2> QED BY <1>1, <1>3, <1>13, <2>1, <2>2 DEF Booked
<1>18. \A i \in 1..m : i \in 1..n \/ i > n
  BY <1>3, <1>10
<1>19. Dated'
  <2>1. \A x \in D : fs[x].id <= started /\ fs[x].time <= clock
    BY DEF TFInv, Dated, D
  <2>2. \A i \in 1..n : files[i].id <= started /\ files[i].time <= clock
    BY DEF TFInv, Dated
  <2>3. \A i \in 1..m : whole[i].id <= started /\ whole[i].time <= clock
    BY <1>9, <1>10, <1>18, <2>1, <2>2
  <2>4. ASSUME NEW i \in 1..m PROVE files'[i].id <= started /\ files'[i].time <= clock
    <3>1. files'[i] = whole[p[i]] /\ p[i] \in 1..m
      BY <1>12, <1>13
    <3> QED BY <2>3, <3>1
  <2> QED BY <1>2, <1>13, <2>1, <2>4 DEF Dated, D
<1>22. Writing'
  BY <1>2 DEF TFInv, Writing
<1>20. CASE inPlace
  <2>1. Placed' /\ Ordered' /\ Undisturbed'
    BY <1>2, <1>20 DEF Placed, Ordered, Undisturbed
  <2>2. Recovered' /\ Eras' /\ Unique'
    BY <1>2, <1>20 DEF Recovered, Eras, Unique
  <2> QED BY <1>14, <1>16, <1>17, <1>19, <1>22, <2>1, <2>2 DEF TFInv
<1>21. CASE ~inPlace
  <2>1. /\ \A x \in D : x.dir # "target" => fs[x].by = x.dir
        /\ \A x \in D : x.dir # "target" /\ fs[x].id > inherited => current[x.dir] # NoPath /\ x.n < fileCounter[x.dir]
        /\ \A x \in D : x.dir = "target" /\ fs[x].id > inherited => Accounted(x)
        /\ \A i \in 1..n : files[i].path.dir = "target"
        /\ \A c \in Backends : current[c] # NoPath => current[c].dir = c
        /\ \A c \in Backends : target[c] # NoPath => target[c].dir = "target"
    BY <1>21 DEF TFInv, Placed, D
  <2>2. \A i \in 1..m : whole[i].path.dir = "target"
    BY <1>9, <1>10, <1>18, <2>1
  <2>3. \A i \in 1..m : whole[i].id > inherited => i \in 1..n
    <3>1. \A i \in 1..m : i > n => ~(whole[i].id > inherited)
      BY <1>9, <1>10, <2>1
    <3> QED BY <1>18, <3>1
  <2>4. Placed'
    <3>1. \A x \in D : x.dir # "target" /\ fs[x].id > inherited =>
             current[x.dir] # NoPath /\ x.n < fileCounter'[x.dir]
      <4> SUFFICES ASSUME NEW x \in D, x.dir # "target", fs[x].id > inherited
                   PROVE  current[x.dir] # NoPath /\ x.n < fileCounter'[x.dir]
        OBVIOUS
      <4>1. current[x.dir] # NoPath /\ x.n < fileCounter[x.dir]
        BY <2>1
      <4>2. x.dir \in Backends /\ x.dir # b
        BY <1>2, <1>4, <4>1 DEF Paths
      <4> QED BY <1>15, <4>1, <4>2
    <3>2. \A x : Accounted(x) => Accounted(x)'
      <4> SUFFICES ASSUME NEW x, Accounted(x) PROVE Accounted(x)'
        OBVIOUS
      <4>1. PICK j \in 1..n : files[j].path = x
        <5>1. DOMAIN files = 1..n
          BY <1>3
        <5> QED BY <5>1 DEF Accounted
      <4>2. j \in 1..m
        BY <1>3, <1>6 DEF m
      <4>3. PICK i \in 1..m : p[i] = j
        BY <1>12, <4>2
      <4>4. files'[i].path = x
        BY <1>10, <1>13, <4>1, <4>3
      <4>5. DOMAIN files' = 1..m
        BY <1>11
      <4> QED BY <4>4, <4>5 DEF Accounted
    <3>3. ASSUME NEW i \in 1..m PROVE files'[i].path.dir = "target"
      <4>1. files'[i] = whole[p[i]] /\ p[i] \in 1..m
        BY <1>12, <1>13
      <4> QED BY <2>2, <4>1
    <3>4. \A x \in D : x.dir = "target" /\ fs[x].id > inherited => Accounted(x)'
      BY <2>1, <3>2
    <3> QED BY <1>2, <1>13, <2>1, <3>1, <3>3, <3>4 DEF Placed, D
  <2>5. /\ \A i, j \in 1..n :
              i < j /\ files[i].by = files[j].by /\ files[j].id > inherited
              => files[i].id < files[j].id /\ (files[i].id > inherited => files[i].time <= files[j].time)
        /\ \A c \in Backends : current[c] \in D /\ fs[current[c]].id > inherited =>
              \A i \in 1..n : files[i].by = c /\ files[i].id > inherited
                  => files[i].id < fs[current[c]].id /\ files[i].time <= fs[current[c]].time
    BY <1>21 DEF TFInv, Ordered, D
  <2>6. \A i \in 1..m : whole[i].id \in Nat /\ whole[i].time \in Nat
    <3>1. \A i \in 1..m : whole[i] \in InfoRecords
      BY <1>10
    <3> QED BY <3>1 DEF InfoRecords
  <2>7. Ordered'
    <3>1. ASSUME NEW i \in 1..m, NEW j \in 1..m, i < j, files'[i].by = files'[j].by, files'[j].id > inherited
          PROVE  files'[i].id < files'[j].id /\ (files'[i].id > inherited => files'[i].time <= files'[j].time)
      <4>1. files'[i] = whole[p[i]] /\ files'[j] = whole[p[j]] /\ p[i] \in 1..m /\ p[j] \in 1..m
        BY <1>12, <1>13
      <4>2. p[j] \in 1..n /\ whole[p[j]] = files[p[j]]
        BY <1>10, <2>3, <3>1, <4>1
      <4>3. CASE ~(whole[p[i]].id > inherited)
        <5> DEFINE x == whole[p[i]].id
                   y == whole[p[j]].id
        <5>1. x \in Nat /\ y \in Nat /\ ~(x > inherited) /\ y > inherited
          BY <2>6, <3>1, <4>1, <4>3
        <5> HIDE DEF x, y
        <5>2. x < y
          BY <1>4, <5>1
        <5> QED BY <4>1, <4>3, <5>2 DEF x, y
      <4>4. CASE whole[p[i]].id > inherited
        <5>1. p[i] \in 1..n /\ whole[p[i]] = files[p[i]]
          BY <1>10, <2>3, <4>1, <4>4
        <5>2. \/ whole[p[i]].time < whole[p[j]].time
              \/ whole[p[i]].time = whole[p[j]].time /\ p[i] < p[j]
          BY <1>11, <3>1
        <5>3. CASE p[i] < p[j]
          <6>1. files[p[i]].by = files[p[j]].by /\ files[p[j]].id > inherited
            BY <3>1, <4>1, <4>2, <5>1
          <6> QED BY <2>5, <4>1, <4>2, <5>1, <5>3, <6>1
        <5>4. CASE ~(p[i] < p[j])
          <6>1. p[j] < p[i]
            <7>1. p[i] # p[j]
              BY <1>12, <3>1
            <7> DEFINE k == p[i]
                       l == p[j]
            <7>2. k \in Nat /\ l \in Nat /\ k # l /\ ~(k < l)
              BY <4>1, <5>4, <7>1
            <7> HIDE DEF k, l
            <7>3. l < k
              BY <7>2
            <7> QED BY <7>3 DEF k, l
          <6>2. files[p[j]].time <= files[p[i]].time
            <7>1. files[p[j]].by = files[p[i]].by /\ files[p[i]].id > inherited /\ files[p[j]].id > inherited
              BY <3>1, <4>1, <4>2, <4>4, <5>1
            <7> QED BY <2>5, <4>2, <5>1, <6>1, <7>1
          <6> DEFINE s == whole[p[i]].time
                     t == whole[p[j]].time
          <6>3. s \in Nat /\ t \in Nat /\ t <= s /\ s < t
            BY <2>6, <4>1, <4>2, <5>1, <5>2, <5>4, <6>2
          <6> HIDE DEF s, t
          <6> QED BY <6>3
        <5> QED BY <5>3, <5>4
      <4> QED BY <4>3, <4>4
    <3>2. ASSUME NEW c \in Backends, current[c] \in D, fs[current[c]].id > inherited,
                 NEW i \in 1..m, files'[i].by = c, files'[i].id > inherited
          PROVE  files'[i].id < fs[current[c]].id /\ files'[i].time <= fs[current[c]].time
      <4>1. files'[i] = whole[p[i]] /\ p[i] \in 1..m
        BY <1>12, <1>13
      <4>2. p[i] \in 1..n /\ whole[p[i]] = files[p[i]]
        BY <1>10, <2>3, <3>2, <4>1
      <4> QED BY <2>5, <3>2, <4>1, <4>2
    <3> QED BY <1>2, <1>13, <3>1, <3>2 DEF Ordered, D
  <2>8. Undisturbed'
    <3>1. SUFFICES ASSUME ~disturbed PROVE Undisturbed'
      BY <1>2 DEF Undisturbed
    <3>2. /\ \A i \in 1..n : files[i].path \in D /\ fs[files[i].path].id = files[i].id
          /\ \A i, j \in 1..n : files[i].path = files[j].path => i = j
          /\ \A c \in Backends : Collecting(c) => target[c] \notin D
      BY <1>21, <3>1 DEF TFInv, Undisturbed, D
    <3>3. \A i \in 1..m : whole[i].path \in D /\ fs[whole[i].path].id = whole[i].id
      BY <1>9, <1>10, <1>18, <3>2
    <3>4. ASSUME NEW i \in 1..m, NEW j \in 1..m, whole[i].path = whole[j].path PROVE i = j
      <4>1. \A k \in 1..n : Accounted(files[k].path)
        <5>1. DOMAIN files = 1..n
          BY <1>3
        <5> QED BY <5>1 DEF Accounted
      <4>2. CASE i \in 1..n /\ j \in 1..n
        BY <1>10, <3>2, <3>4, <4>2
      <4>3. CASE i \in 1..n /\ j > n
        BY <1>9, <1>10, <3>4, <4>1, <4>3
      <4>4. CASE i > n /\ j \in 1..n
        BY <1>9, <1>10, <3>4, <4>1, <4>4
      <4>5. CASE i > n /\ j > n
        <5>1. i - n \in 1..N /\ j - n \in 1..N /\ it[i - n] = it[j - n]
          BY <1>9, <1>10, <3>4, <4>5
        <5>2. i - n = j - n
          BY <1>7, <5>1
        <5>3. i \in Int /\ j \in Int
          OBVIOUS
        <5> QED BY <1>3, <5>2, <5>3
      <4> QED BY <1>18, <4>2, <4>3, <4>4, <4>5
    <3>5. ASSUME NEW i \in 1..m PROVE files'[i].path \in D /\ fs[files'[i].path].id = files'[i].id
      <4>1. files'[i] = whole[p[i]] /\ p[i] \in 1..m
        BY <1>12, <1>13
      <4> QED BY <3>3, <4>1
    <3>6. ASSUME NEW i \in 1..m, NEW j \in 1..m, files'[i].path = files'[j].path PROVE i = j
      <4>1. /\ files'[i] = whole[p[i]] /\ p[i] \in 1..m
            /\ files'[j] = whole[p[j]] /\ p[j] \in 1..m
        BY <1>12, <1>13
      <4>2. p[i] = p[j]
        BY <3>4, <3>6, <4>1
      <4> QED BY <1>12, <4>2
    <3>7. \A c \in Backends : Collecting(c)' => target[c] \notin D
      BY <1>2, <3>2 DEF Collecting
    <3> QED BY <1>2, <1>13, <3>5, <3>6, <3>7 DEF Undisturbed, D
  <2>9. Recovered'
    <3>1. SUFFICES ASSUME NEW i \in 1..m, NEW j \in 1..m, i < j PROVE files'[i].time <= files'[j].time
      BY <1>13 DEF Recovered
    <3>2. /\ files'[i] = whole[p[i]] /\ whole[p[i]].time \in Nat
          /\ files'[j] = whole[p[j]] /\ whole[p[j]].time \in Nat
      BY <1>12, <1>13, <2>6
    <3>3. whole[p[i]].time < whole[p[j]].time \/ whole[p[i]].time = whole[p[j]].time
      BY <1>11, <3>1
    <3> QED BY <3>2, <3>3
  <2>10. Eras'
    <3>1. PICK start \in Nat : /\ start <= clock /\ \A x \in D : Earlier(fs[x], inherited, start)
                               /\ \A i \in 1..n : Earlier(files[i], inherited, start)
      BY <1>21 DEF TFInv, Eras, D
    <3>2. \A i \in 1..m : Earlier(whole[i], inherited, start)
      <4>1. ASSUME NEW i \in 1..m, i > n PROVE Earlier(whole[i], inherited, start)
        <5>1. /\ whole[i].id = fs[it[i - n]].id /\ whole[i].time = fs[it[i - n]].time
              /\ Earlier(fs[it[i - n]], inherited, start)
          BY <1>9, <1>10, <3>1, <4>1
        <5> QED BY <5>1 DEF Earlier
      <4> QED BY <1>10, <1>18, <3>1, <4>1
    <3>3. \A i \in 1..m : Earlier(files'[i], inherited, start)
      BY <1>12, <1>13, <3>2
    <3> QED BY <1>2, <1>13, <3>1, <3>3 DEF Eras, D
  <2>11. Unique'
    <3>1. /\ \A x, y \in D : fs[x].id = fs[y].id => x = y
          /\ \A i \in 1..n : \A x \in D : files[i].id = fs[x].id => files[i].path = x
          /\ \A i, j \in 1..n : files[i].id = files[j].id => i = j
      BY <1>21 DEF TFInv, Unique, D
    <3>2. \A k \in 1..n : Accounted(files[k].path)
      <4>1. DOMAIN files = 1..n
        BY <1>3
      <4> QED BY <4>1 DEF Accounted
    <3>3. \A i \in 1..m : \A x \in D : whole[i].id = fs[x].id => whole[i].path = x
      BY <1>9, <1>10, <1>18, <3>1
    <3>4. ASSUME NEW i \in 1..m, NEW j \in 1..m, whole[i].id = whole[j].id PROVE i = j
      <4>1. ASSUME NEW k \in 1..n, NEW l \in 1..m, l > n PROVE whole[k].id # whole[l].id
        BY <1>9, <1>10, <3>1, <3>2, <4>1
      <4>2. CASE i \in 1..n /\ j \in 1..n
        BY <1>10, <3>1, <3>4, <4>2
      <4>3. CASE i > n /\ j > n
        <5>1. i - n \in 1..N /\ j - n \in 1..N /\ it[i - n] = it[j - n]
          BY <1>9, <1>10, <3>1, <3>4, <4>3
        <5>2. i - n = j - n
          BY <1>7, <5>1
        <5>3. i \in Int /\ j \in Int
          OBVIOUS
        <5> QED BY <1>3, <5>2, <5>3
      <4> QED BY <1>18, <3>4, <4>1, <4>2, <4>3
    <3>5. ASSUME NEW i \in 1..m, NEW x \in D, files'[i].id = fs[x].id PROVE files'[i].path = x
      <4>1. files'[i] = whole[p[i]] /\ p[i] \in 1..m
        BY <1>12, <1>13
      <4> QED BY <3>3, <3>5, <4>1
    <3>6. ASSUME NEW i \in 1..m, NEW j \in 1..m, files'[i].id = files'[j].id PROVE i = j
      <4>1. /\ files'[i] = whole[p[i]] /\ p[i] \in 1..m
            /\ files'[j] = whole[p[j]] /\ p[j] \in 1..m
        BY <1>12, <1>13
      <4>2. p[i] = p[j]
        BY <3>4, <3>6, <4>1
      <4> QED BY <1>12, <4>2
    <3> QED BY <1>2, <1>13, <3>1, <3>5, <3>6 DEF Unique, D
  <2> QED BY <1>14, <1>16, <1>17, <1>19, <1>22, <2>4, <2>7, <2>8, <2>9, <2>10, <2>11 DEF TFInv
<1> QED BY <1>20, <1>21

\* Every step.
LEMMA TFNextHolds == TFInv /\ [TFNext]_tfVars => TFInv'
<1> SUFFICES ASSUME TFInv, [TFNext]_tfVars PROVE TFInv'
  OBVIOUS
<1>1. ASSUME NEW b \in Backends, consume(b) PROVE TFInv'
  BY <1>1, ConsumeKeepsIt
<1>2. ASSUME NEW b \in Backends, consume_rotates(b) \/ destroy_backend(b) PROVE TFInv'
  BY <1>2, RotatesKeepsIt
<1>3. ASSUME NEW b \in Backends, consume_opens(b) PROVE TFInv'
  BY <1>3, OpensKeepsIt
<1>4. ASSUME NEW b \in Backends, ChooseName(b) PROVE TFInv'
  BY <1>4, ChooseNameKeepsIt
<1>5. ASSUME NEW b \in Backends, store_file(b) PROVE TFInv'
  BY <1>5, StoreFileKeepsIt
<1>6. ASSUME NEW b \in Backends, NEW method \in {"scan_matching", "scan_all"}, NEW update_counter \in BOOLEAN,
             scan_for_files(b, method, update_counter)
      PROVE  TFInv'
  BY <1>6, ScanKeepsIt
<1>7. CASE restart
  BY <1>7, RestartKeepsIt
<1>8. CASE UserDeletes
  BY <1>8, UserDeletesKeepsIt
<1>9. CASE UNCHANGED tfVars
  <2>1. UNCHANGED <<diskVars, collectorVars, current, fileCounter, target, step>>
    BY <1>9 DEF tfVars, backendVars
  <2>2. step' \in [Backends -> Steps]
    BY <2>1 DEF TFInv, BackendTypes
  <2>3. \A b \in Backends : Collecting(b)' => Collecting(b)
    BY <2>1 DEF Collecting
  <2>4. Writing'
    BY <1>9 DEF TFInv, Writing, tfVars, diskVars, collectorVars, backendVars
  <2> QED BY <2>1, <2>2, <2>3, <2>4, QuietStep
<1> QED BY <1>1, <1>2, <1>3, <1>4, <1>5, <1>6, <1>7, <1>8, <1>9 DEF TFNext

\* A rotation in which no call fails takes the oldest files off the list, as many
\* as have to go, and no rotation erases a file that is not listed.
LEMMA StoreErasesTheOldest ==
    ASSUME TFInv, NEW b \in Backends, store_file(b)
    PROVE  /\ UNCHANGED faults =>
                 \E k \in 0..Len(files) :
                    /\ HaveToGo(k, fs[current[b]].size)
                    /\ files' = Append(Newest(k), Info(target[b], fs[current[b]]))
                    /\ ~inPlace /\ ~disturbed' => TakesOnly(1..k)
           /\ ~inPlace /\ ~disturbed' => TakesOnly(DOMAIN files)
           /\ Stores(b)
<1> DEFINE D == DOMAIN fs
           n == Len(files)
           cur == current[b]
           tgt == target[b]
           size == fs[cur].size
           stored == Info(tgt, fs[cur])
<1>1. BackendTypes /\ DiskTypes /\ files \in Seq(InfoRecords) /\ total = SizeOf(files) /\ DOMAIN files = 1..n
      /\ n \in Nat /\ faults \in Nat
  BY DEF TFInv, Booked, Writing
<1>2. /\ disturbed' = (disturbed \/ \E other \in Backends \ {b} : target[other] = target[b])
      /\ Collecting(b) /\ cur \in D /\ ~Collecting(b)' /\ inherited' = inherited
  BY ONLY <1>1, StoresFrame, b \in Backends, store_file(b)
<1>3. PICK locked, needed, room :
         /\ room = MakeRoom(size, locked, needed)
         /\ Moves(b, room) \/ Fails(b, room)
         /\ UNCHANGED faults => Moves(b, room) /\ locked = {} /\ needed = 0
  BY ONLY <1>1, StoresWith, b \in Backends, store_file(b)
<1> DEFINE E == room.erased
<1>4. room \in RoomRecords /\ \E q : Leaves(room, q, n)
  BY <1>1, <1>3, RoomLeaves
<1>5. \A p \in E : \E j \in 1..n : files[j].path = p
  BY <1>4 DEF Leaves
<1>6. ~inPlace => cur.dir = b /\ b # "target"
  <2>1. cur # NoPath
    BY <1>1, <1>2, TFAssumptions DEF DiskTypes
  <2> QED BY <2>1, TFAssumptions DEF TFInv, Placed
<1>7. ~inPlace /\ ~disturbed =>
         /\ \A i \in 1..n : files[i].path \in D /\ fs[files[i].path].id = files[i].id
         /\ tgt \notin D
  BY <1>2 DEF TFInv, Undisturbed
<1>8. ASSUME ~inPlace, ~disturbed', NEW p \in Gone PROVE p \in E
  <2>1. p \in D /\ p.dir = "target" /\ (p \in DOMAIN fs' => fs'[p].id # fs[p].id)
    BY <1>8 DEF Gone, Exists
  <2>2. SUFFICES ASSUME p \notin E PROVE FALSE
    OBVIOUS
  <2>3. p # cur /\ p # tgt
    BY <1>2, <1>6, <1>7, <1>8, <2>1
  <2>4. CASE Moves(b, room)
    <3>1. fs' = With(Without(Without(fs, E), {cur}), tgt, fs[cur])
      BY <1>8, <2>4 DEF Moves
    <3>2. p \in DOMAIN fs' /\ fs'[p] = fs[p]
      BY <2>1, <2>2, <2>3, <3>1 DEF With, Without
    <3> QED BY <2>1, <3>2
  <2>5. CASE Fails(b, room)
    <3>1. p \in DOMAIN fs' /\ fs'[p] = fs[p]
      BY <2>1, <2>2, <2>5 DEF Fails, Without
    <3> QED BY <2>1, <3>1
  <2> QED BY <1>3, <2>4, <2>5
<1>9. ~inPlace /\ ~disturbed' => TakesOnly(DOMAIN files)
  <2> SUFFICES ASSUME ~inPlace, ~disturbed', NEW p \in Gone
               PROVE  \E i \in DOMAIN files : files[i].path = p /\ files[i].id = fs[p].id
    BY DEF TakesOnly
  <2>1. PICK i \in 1..n : files[i].path = p
    BY <1>5, <1>8
  <2>2. files[i].id = fs[p].id
    BY <1>2, <1>7, <2>1
  <2> QED BY <1>1, <2>1, <2>2
<1>10. Stores(b)
  BY <1>2 DEF Stores, Collecting
<1>11. ASSUME UNCHANGED faults
       PROVE  \E k \in 0..n :
                 /\ HaveToGo(k, size)
                 /\ files' = Append(Newest(k), stored)
                 /\ ~inPlace /\ ~disturbed' => TakesOnly(1..k)
  <2>1. Moves(b, room) /\ room = MakeRoom(size, {}, 0)
    BY <1>3, <1>11
  <2>2. size \in Nat
    BY <1>1, <1>2 DEF DiskTypes, FileRecords
  <2>3. PICK k : ErasesFirst(room, k, n, size)
    <3> HIDE DEF size
    <3> QED BY <1>1, <2>1, <2>2, RoomErasesFirst
  <2>4. /\ k \in 0..n /\ Len(room.kept) = n - k
        /\ \A i \in 1..(n - k) : room.kept[i] = files[k + i]
        /\ E = {files[j].path : j \in 1..k}
        /\ room.total = SizeOf(Newest(k))
        /\ k > 0 => SizeOf(Newest(k - 1)) + size > MaxSize
        /\ room.done => room.total + size <= MaxSize
        /\ ~room.done => k = n
    BY <2>3 DEF ErasesFirst
  <2>5. k \in 0..n
    BY <2>4
  <2>6. k \in Nat /\ k <= n /\ n - k \in Nat
    <3> HIDE DEF n
    <3> QED BY <1>1, <2>5
  <2>7. HaveToGo(k, size)
    <3>1. k < n => k # n
      BY <2>6
    <3>2. k < n => room.total + size <= MaxSize
      BY <2>4, <3>1, Zenon
    <3> QED BY <2>4, <3>2 DEF HaveToGo
  <2>8. room.kept = Newest(k)
    <3>1. /\ Newest(k) \in Seq(InfoRecords) /\ Len(Newest(k)) = n - k
          /\ \A i \in 1..(n - k) : Newest(k)[i] = files[k + i]
      BY <1>1, <2>4, NewestIs
    <3>2. room.kept \in Seq(InfoRecords)
      BY <1>4 DEF RoomRecords
    <3> HIDE DEF n
    <3>3. \A u \in Seq(InfoRecords) : Len(u) = n - k => u = [i \in 1..(n - k) |-> u[i]]
      BY <2>6
    <3>4. /\ room.kept = [i \in 1..(n - k) |-> room.kept[i]]
          /\ Newest(k) = [i \in 1..(n - k) |-> Newest(k)[i]]
      BY <2>4, <3>1, <3>2, <3>3
    <3> QED BY <2>4, <3>1, <3>4
  <2>9. files' = Append(Newest(k), stored)
    BY <2>1, <2>8 DEF Moves
  <2>10. ASSUME ~inPlace, ~disturbed' PROVE TakesOnly(1..k)
    <3> SUFFICES ASSUME NEW p \in Gone
                 PROVE  \E i \in 1..k : files[i].path = p /\ files[i].id = fs[p].id
      BY DEF TakesOnly
    <3>1. PICK i \in 1..k : files[i].path = p
      BY <1>8, <2>4, <2>10
    <3>2. i \in 1..n
      <4> HIDE DEF n
      <4> QED BY <1>1, <2>6
    <3>3. files[i].id = fs[p].id
      BY <1>2, <1>7, <2>10, <3>1, <3>2
    <3> QED BY <3>1, <3>3
  <2> QED BY <2>4, <2>7, <2>9, <2>10
<1> QED BY <1>9, <1>10, <1>11

\* Nothing else takes a stored file away, unless the user does,
LEMMA OthersEraseNothing ==
    ASSUME TFInv, NEW b \in Backends, ~inPlace,
           \/ consume(b) \/ consume_opens(b) \/ UNCHANGED fs
    PROVE  Gone = {}
<1> DEFINE D == DOMAIN fs
<1>1. BackendTypes /\ DiskTypes
  BY DEF TFInv
<1>2. SUFFICES ASSUME NEW p \in D, p.dir = "target"
               PROVE  p \in DOMAIN fs' /\ fs'[p].id = fs[p].id
  BY DEF Gone, Exists
<1>3. CASE consume(b)
  <2>1. fs' = [fs EXCEPT ![current[b]].size = @ + 1, ![current[b]].time = clock'] /\ current[b] \in D
    BY <1>3 DEF consume, Exists
  <2>2. fs \in [D -> FileRecords]
    BY <1>1 DEF DiskTypes
  <2>3. fs[p] \in FileRecords
    BY <1>2, <2>2
  <2>4. p \in DOMAIN fs'
    BY <1>2, <2>1, <2>2
  <2>5. CASE p = current[b]
    <3>1. fs'[p] = [fs[p] EXCEPT !.size = @ + 1, !.time = clock']
      BY <2>1, <2>2, <2>5
    <3>2. fs'[p].id = fs[p].id
      BY <2>3, <3>1 DEF FileRecords
    <3> QED BY <2>4, <3>2
  <2>6. CASE p # current[b]
    BY <2>1, <2>2, <2>4, <2>6
  <2> QED BY <2>5, <2>6
<1>4. CASE consume_opens(b)
  <2> DEFINE path == Path(Dir(b), fileCounter[b], -1)
  <2>1. path.dir # "target"
    BY TFAssumptions DEF Path, Dir
  <2>2. p # path
    BY <1>2, <2>1
  <2>3. fs' = fs \/ \E file : fs' = With(fs, path, file)
    BY <1>4 DEF consume_opens
  <2> HIDE DEF path
  <2> QED BY <1>2, <2>2, <2>3 DEF With
<1>5. CASE UNCHANGED fs
  BY <1>2, <1>5
<1> QED BY <1>3, <1>4, <1>5

\* and nobody is through with storing a file in another step, unless the process
\* is killed.
LEMMA OthersStoreNothing ==
    ASSUME TFInv, NEW c \in Backends, Stores(c), UNCHANGED faults, TFNext
    PROVE  store_file(c)
<1>1. Collecting(c) /\ step'[c] # step[c] /\ step \in [Backends -> Steps] /\ faults \in Nat
  BY DEF Stores, Collecting, TFInv, BackendTypes, Writing
<1>2. ASSUME NEW b \in Backends, NEW location, ContinueAt(b, location), ~Collecting(b) PROVE FALSE
  BY <1>1, <1>2 DEF ContinueAt, Collecting
<1>3. ASSUME NEW b \in Backends, consume_rotates(b) \/ destroy_backend(b) \/ consume_opens(b) \/ ChooseName(b)
      PROVE  FALSE
  <2>1. ~Collecting(b)
    BY <1>3 DEF consume_rotates, destroy_backend, consume_opens, ChooseName, Collecting
  <2>2. \E location : ContinueAt(b, location)
    BY <1>3 DEF consume_rotates, destroy_backend, consume_opens, ChooseName
  <2> QED BY <1>2, <2>1, <2>2
<1>4. ASSUME NEW b \in Backends, store_file(b) PROVE store_file(c)
  <2>1. BackendTypes
    BY DEF TFInv
  <2>2. b # c => step'[c] = step[c]
    BY ONLY <2>1, <1>4, StoresFrame, b \in Backends, c \in Backends
  <2> QED BY <1>1, <1>4, <2>2
<1>5. ~restart
  <2>1. SUFFICES ASSUME restart PROVE FALSE
    OBVIOUS
  <2>2. step[c] # "ended"
    BY <1>1 DEF Collecting
  <2>3. faults' = faults + 1
    BY <2>1, <2>2 DEF restart, Fault
  <2> QED BY <1>1, <2>3
<1>6. ~UserDeletes
  BY <1>1 DEF UserDeletes
<1>7. ASSUME NEW b \in Backends,
             \/ consume(b)
             \/ \E method \in {"scan_matching", "scan_all"}, update_counter \in BOOLEAN :
                   scan_for_files(b, method, update_counter)
      PROVE  FALSE
  BY <1>1, <1>7 DEF consume, scan_for_files
<1> QED BY <1>3, <1>4, <1>5, <1>6, <1>7 DEF TFNext

\* The total of the collector is the size of the files in its list, which has no
\* file twice, and the files of one backend are listed in the order of their last
\* writes, those of this process as it opened them, whatever file could not be
\* removed, moved or found and however often the process started.
THEOREM AccountsStayExact == TFSpec => []AccountsAreExact
<1>1. TFInv => AccountsAreExact
  <2> SUFFICES ASSUME TFInv PROVE AccountsAreExact
    OBVIOUS
  <2>1. total = SizeOf(files) /\ DOMAIN files = 1..Len(files) /\ Len(files) \in Nat
    BY DEF TFInv, Booked
  <2>2. SUFFICES ASSUME ~inPlace, NEW i \in 1..Len(files), NEW j \in 1..Len(files), i < j,
                        files[i].by = files[j].by
                 PROVE  /\ files[i].id # files[j].id
                        /\ ~mistaken => files[i].time <= files[j].time
                        /\ files[j].id > inherited => files[i].id < files[j].id
    BY <2>1 DEF AccountsAreExact
  <2>3. files[i].id # files[j].id
    BY <2>2 DEF TFInv, Unique
  <2>4. files[j].id > inherited =>
           files[i].id < files[j].id /\ (files[i].id > inherited => files[i].time <= files[j].time)
    BY <2>2 DEF TFInv, Ordered
  <2>5. files[i] \in InfoRecords /\ files[j] \in InfoRecords /\ inherited \in Nat
    BY DEF TFInv, Booked, DiskTypes
  <2>6. /\ files[i].id \in Nat /\ files[j].id \in Nat
        /\ files[i].time \in Nat /\ files[j].time \in Nat
    BY <2>5 DEF InfoRecords
  <2>7. ASSUME ~mistaken PROVE files[i].time <= files[j].time
    <3>1. CASE files[j].id <= inherited
      BY <2>2, <2>7, <3>1 DEF TFInv, Recovered
    <3>2. CASE files[i].id > inherited /\ files[j].id > inherited
      BY <2>4, <3>2
    <3>3. CASE files[i].id <= inherited /\ ~(files[j].id <= inherited)
      <4>1. PICK start \in Nat : Earlier(files[i], inherited, start) /\ Earlier(files[j], inherited, start)
        BY <2>2 DEF TFInv, Eras
      <4> QED BY <2>6, <3>3, <4>1 DEF Earlier
    <3> QED BY <2>5, <2>6, <3>1, <3>2, <3>3
  <2> QED BY <2>3, <2>4, <2>7
<1> QED BY <1>1, TFInitHolds, TFNextHolds, PTL DEF TFSpec

\* The collector erases the oldest files, as few as keep it to its quota, and
\* nothing else; it never puts a file in the place of another.
THEOREM CollectorKeepsToItsQuota == TFSpec => CollectorErasesTheOldest
<1>1. TFInv /\ [TFNext]_tfVars => [RotationMakesRoom /\ OnlyRotationsErase]_tfVars
  <2> SUFFICES ASSUME TFInv, TFNext PROVE RotationMakesRoom /\ OnlyRotationsErase
    OBVIOUS
  <2>1. RotationMakesRoom
    <3>1. \A c \in Backends : Stores(c) /\ UNCHANGED faults => store_file(c)
      BY OthersStoreNothing
    <3> QED BY <3>1, StoreErasesTheOldest DEF RotationMakesRoom
  <2>2. ASSUME NEW b \in Backends, store_file(b) PROVE OnlyRotationsErase
    BY <2>2, StoreErasesTheOldest DEF OnlyRotationsErase
  <2>3. (~inPlace => Gone = {}) => OnlyRotationsErase
    BY DEF OnlyRotationsErase, TakesOnly
  <2>4. ASSUME NEW b \in Backends,
               \/ consume(b) \/ consume_opens(b)
               \/ ChooseName(b) \/ consume_rotates(b) \/ destroy_backend(b)
               \/ \E method \in {"scan_matching", "scan_all"}, update_counter \in BOOLEAN :
                     scan_for_files(b, method, update_counter)
        PROVE  OnlyRotationsErase
    <3>1. consume(b) \/ consume_opens(b) \/ fs' = fs
      BY <2>4 DEF ChooseName, consume_rotates, destroy_backend, scan_for_files, diskVars
    <3> QED BY <2>3, <3>1, OthersEraseNothing
  <2>5. restart => OnlyRotationsErase
    <3>1. restart => fs' = fs
      BY DEF restart
    <3>2. restart => Gone = {}
      BY <3>1 DEF Gone, Exists
    <3> QED BY <2>3, <3>2
  <2>6. UserDeletes => OnlyRotationsErase
    BY DEF UserDeletes, OnlyRotationsErase
  <2> QED BY <2>1, <2>2, <2>4, <2>5, <2>6 DEF TFNext
<1> QED BY <1>1, TFInitHolds, TFNextHolds, PTL DEF TFSpec, CollectorErasesTheOldest
===============================================================================
