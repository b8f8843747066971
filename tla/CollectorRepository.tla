-------------------------- MODULE CollectorRepository ---------------------------
(***************************************************************************)
(* make_collector: sinks that name one target directory share one file     *)
(* collector, which lives while a sink has it.  The repository lists the   *)
(* collectors by plain references; a collector whose last owner has gone   *)
(* takes itself off the list in its destructor, which has to wait for the  *)
(* mutex of the repository.  A directory exists once a file was stored in  *)
(* it, and is_governed asks the file system whether two are the same one.  *)
(***************************************************************************)
EXTENDS Integers, FiniteSets, SequencesExt

CONSTANTS
    Directories,
    Sizes,           \* max_size limits asked for
    Existing,        \* sets of directories that may exist at first
    MaxCollectors,   \* bound: collectors ever made
    MaxOwners        \* bound: sinks that have a collector

ASSUME SizesAreNumbers == Sizes \subseteq Nat

VARIABLES
    m_Collectors,    \* the list of the repository
    made,            \* the collectors ever made: [dir, max_size, asked], asked the
                     \* limits of the calls that returned it
    owners,          \* the number of sinks that have each one
    dying,           \* those in their destructor
    existing,        \* directories that exist
    refused,         \* directories for which get_collector has thrown
    overtook         \* history: get_collector has met a dying collector

crVars == <<m_Collectors, made, owners, dying, existing, refused, overtook>>

CRStart(directories) ==
    /\ m_Collectors = <<>> /\ made = <<>> /\ owners = <<>>
    /\ dying = {}
    /\ existing = directories
    /\ refused = {} /\ overtook = FALSE

CRInit == \E directories \in Existing : CRStart(directories)

\* filesystem::equivalent throws if neither of the two directories exists.
Throws(c, dir) == made[c].dir \notin existing /\ dir \notin existing
is_governed(c, dir) == made[c].dir = dir /\ dir \in existing

\* find_if goes through the list up to the first match or exception.
Looked(dir) == {i \in DOMAIN m_Collectors : LET c == m_Collectors[i] IN is_governed(c, dir) \/ Throws(c, dir)}
found(dir) == m_Collectors[Min(Looked(dir))]

\* Mutant: the new collector is not listed.
NewUnlisted(dir, max_size) ==
    /\ Len(made) < MaxCollectors
    /\ made' = Append(made, [dir |-> dir, max_size |-> max_size, asked |-> {max_size}])
    /\ owners' = Append(owners, 1)
    /\ UNCHANGED <<m_Collectors, refused>>

\* make_shared and push_back.
NewCollector(dir, max_size) ==
    /\ Len(made) < MaxCollectors
    /\ made' = Append(made, [dir |-> dir, max_size |-> max_size, asked |-> {max_size}])
    /\ owners' = Append(owners, 1)
    /\ m_Collectors' = Append(m_Collectors, Len(made'))
    /\ UNCHANGED refused

\* get_collector under the mutex: shared_from_this of a dying collector throws
\* bad_weak_ptr, and a new one is made.
get_collector(dir, max_size) ==
    LET c == found(dir) IN
    /\ FoldFunction(LAMBDA n, sum : n + sum, 0, owners) < MaxOwners
    /\ IF Looked(dir) = {} THEN NewCollector(dir, max_size)
       ELSE IF Throws(c, dir) THEN refused' = refused \cup {dir} /\ UNCHANGED <<m_Collectors, made, owners>>
       ELSE IF c \in dying THEN NewCollector(dir, max_size)
       ELSE /\ made' = [made EXCEPT ![c].max_size = IF max_size < @ THEN max_size ELSE @,
                                    ![c].asked = @ \cup {max_size}]
            /\ owners' = [owners EXCEPT ![c] = @ + 1]
            /\ UNCHANGED <<m_Collectors, refused>>
    /\ overtook' = (overtook \/ (Looked(dir) # {} /\ c \in dying))
    /\ UNCHANGED <<dying, existing>>

\* A sink lets its collector go; the last one starts the destructor.
release_collector(c) ==
    /\ owners[c] > 0
    /\ owners' = [owners EXCEPT ![c] = @ - 1]
    /\ dying' = IF owners[c] = 1 THEN dying \cup {c} ELSE dying
    /\ UNCHANGED <<m_Collectors, made, existing, refused, overtook>>

\* The destructor has got the mutex: erase(iterator_to(*this)).
remove_collector(c) ==
    /\ c \in dying
    /\ dying' = dying \ {c}
    /\ \E i \in DOMAIN m_Collectors :
          m_Collectors[i] = c /\ m_Collectors' = RemoveAt(m_Collectors, i)
    /\ UNCHANGED <<made, owners, existing, refused, overtook>>

\* store_file creates the directory (see TextFileBackend for the rest).
create_directories(c) ==
    /\ owners[c] > 0
    /\ existing' = existing \cup {made[c].dir}
    /\ UNCHANGED <<m_Collectors, made, owners, dying, refused, overtook>>

CRNext ==
    \/ \E dir \in Directories, max_size \in Sizes : get_collector(dir, max_size)
    \/ \E c \in DOMAIN made : release_collector(c) \/ remove_collector(c) \/ create_directories(c)

CRSpec == CRInit /\ [][CRNext]_crVars

-------------------------------------------------------------------------------
Living(dir) == {c \in DOMAIN made : owners[c] > 0 /\ made[c].dir = dir}

\* Sinks with one target directory have one collector, whenever they come and
\* go - unless one came while the collector was being destroyed -, and it acts
\* according to the strictest limit that any of them asked for; the list refers
\* to collectors that exist and to all of them.
CollectorsAreShared ==
    /\ ~overtook => \A dir \in Directories : Cardinality(Living(dir)) <= 1
    /\ \A c \in DOMAIN made : made[c].max_size = Min(made[c].asked)
    /\ {m_Collectors[i] : i \in DOMAIN m_Collectors} = dying \cup {c \in DOMAIN made : owners[c] > 0}

\* "Each target directory is managed by a single file collector"
\* (text_file_backend.hpp:177).
OneCollectorPerDirectory == \A dir \in Directories : Cardinality(Living(dir)) <= 1

\* "The function creates a file collector for the specified target directory"
\* (text_file_backend.hpp:176), whether or not the directory exists.
EveryDirectoryGetsACollector == refused = {}

================================================================================
