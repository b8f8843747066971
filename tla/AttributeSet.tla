----------------------------- MODULE AttributeSet ------------------------------
(***************************************************************************)
(* basic_attribute_set: a container of attributes by name, with the nodes  *)
(* of erased attributes kept in a small pool.  Attribute sets belong to    *)
(* one thread or are guarded by the lock of the core: an action is one     *)
(* call.                                                                   *)
(***************************************************************************)
EXTENDS HashedList, FiniteSets

CONSTANTS
    SetKeys,         \* identifiers of attribute names
    SetData,         \* attributes
    MaxPoolSize,     \* BOOST_LOG_ATTRIBUTE_SET_MAX_POOL_SIZE
    MaxSetCalls      \* bound: calls of methods that change the set

ASSUME SetAssumptions == SetKeys \subseteq Nat /\ MaxPoolSize \in Nat /\ MaxSetCalls \in Nat

VARIABLES
    list,            \* m_Nodes and m_Buckets
    pool,            \* m_Allocator.m_Pool
    heap,            \* addresses allocated from the base allocator
    setCalls,        \* calls so far
    map,             \* history: what a map would hold after the same calls
    inFront          \* history: an attribute was inserted in front of its bucket

setVars == <<list, pool, heap, setCalls, map, inFront>>

\* The base allocator has one address for each attribute that may be inserted.
NodeAddresses == 1..MaxSetCalls + 1

SetTypeOK ==
    /\ \A i, j \in DOMAIN list.nodes : list.nodes[i].at = list.nodes[j].at => i = j
    /\ LET linked == {list.nodes[i].at : i \in DOMAIN list.nodes}
       IN  /\ heap = linked \cup ToSet(pool)
           /\ linked \cap ToSet(pool) = {}
    /\ heap \subseteq NodeAddresses
    /\ Len(pool) <= MaxPoolSize
    /\ Cardinality(ToSet(pool)) = Len(pool)

SetInit ==
    /\ list = EmptyList
    /\ pool = <<>>
    /\ heap = {}
    /\ setCalls = 0
    /\ map = <<>>
    /\ inFront = FALSE

-------------------------------------------------------------------------------
\* The address of the next node: the latest of the pool, or a fresh one.
allocate ==
    IF pool # <<>> THEN Last(pool) ELSE CHOOSE a \in NodeAddresses \ heap : TRUE

\* Nodes that are destroyed go to the pool while it has room, in order.
deallocate(addresses) ==
    LET room == MaxPoolSize - Len(pool)
        kept == IF Len(addresses) <= room THEN addresses ELSE SubSeq(addresses, 1, room)
    IN  /\ pool' = pool \o kept
        /\ heap' = heap \ (ToSet(addresses) \ ToSet(kept))

Call == setCalls < MaxSetCalls /\ setCalls' = setCalls + 1

\* insert, and the assignment through operator[], which overwrites the
\* attribute that prevents the insertion.
insert(key, data, overwrite) ==
    /\ Call
    /\ Walkable(list, get_bucket(key))
    /\ IF find(list, key) # {}
       THEN /\ list' = IF overwrite
                       THEN [list EXCEPT !.nodes = [i \in DOMAIN @ |->
                               IF i \in find(list, key) THEN [@[i] EXCEPT !.data = data] ELSE @[i]]]
                       ELSE list
            /\ UNCHANGED <<pool, heap, inFront>>
       ELSE /\ list' = LinkNode(list, Node(allocate, key, data))
            /\ pool' = IF pool # <<>> THEN Front(pool) ELSE pool
            /\ heap' = heap \cup {allocate}
            /\ inFront' = (inFront \/ GoesInFront(list, key))
    /\ map' = IF key \in DOMAIN map /\ ~overwrite THEN map
              ELSE [k \in DOMAIN map \cup {key} |-> IF k = key THEN data ELSE map[k]]

\* Mutant: erase looks only whether the node is the last of its bucket.
EraseForgetsFirst(i) ==
    LET p == list.nodes[i].at
        b == get_bucket(list.nodes[i].key)
    IN  /\ Call
        /\ list' =
              [nodes |-> RemoveAt(list.nodes, i),
               first |-> [list.first EXCEPT ![b] =
                            IF p = list.first[b] /\ p = list.last[b] THEN Null ELSE @],
               last |-> [list.last EXCEPT ![b] =
                            IF p # @ THEN @
                            ELSE IF p = list.first[b] THEN Null ELSE list.nodes[i - 1].at]]
        /\ deallocate(<<p>>)
        /\ map' = [k \in DOMAIN map \ {list.nodes[i].key} |-> map[k]]
        /\ UNCHANGED inFront

\* erase of the node that an iterator points to.  The bounds of its bucket move
\* to the neighbour in the list, or become null if it is both.
erase(i) ==
    LET p == list.nodes[i].at
        b == get_bucket(list.nodes[i].key)
        only == p = list.first[b] /\ p = list.last[b]
    IN  /\ Call
        /\ p = list.first[b] /\ ~only => i < Len(list.nodes)
        /\ p = list.last[b] /\ ~only => i > 1
        /\ list' =
              [nodes |-> RemoveAt(list.nodes, i),
               first |-> [list.first EXCEPT ![b] =
                            IF p # @ THEN @ ELSE IF only THEN Null ELSE list.nodes[i + 1].at],
               last |-> [list.last EXCEPT ![b] =
                            IF p # @ THEN @ ELSE IF only THEN Null ELSE list.nodes[i - 1].at]]
        /\ deallocate(<<p>>)
        /\ map' = [k \in DOMAIN map \ {list.nodes[i].key} |-> map[k]]
        /\ UNCHANGED inFront

\* erase by name goes through find; when it finds nothing it changes nothing.
erase_key(key) ==
    /\ Walkable(list, get_bucket(key))
    /\ \E i \in find(list, key) : erase(i)

\* Mutant: the buckets are not reset.
ClearKeepsBuckets ==
    /\ Call
    /\ list' = [list EXCEPT !.nodes = <<>>]
    /\ deallocate([i \in DOMAIN list.nodes |-> list.nodes[i].at])
    /\ map' = <<>>
    /\ UNCHANGED inFront

clear ==
    /\ Call
    /\ list' = EmptyList
    /\ deallocate([i \in DOMAIN list.nodes |-> list.nodes[i].at])
    /\ map' = <<>>
    /\ UNCHANGED inFront

\* The set is replaced by a copy of itself: new nodes with the same attributes,
\* and a pool of its own that is empty.
copy ==
    /\ Call
    /\ LET count == Len(list.nodes)
           node(i) == Node(i, list.nodes[i].key, list.nodes[i].data)
       IN  /\ list' = ListOf([i \in 1..count |-> node(i)])
           /\ heap' = 1..count
    /\ pool' = <<>>
    /\ UNCHANGED <<map, inFront>>

SetNext ==
    \/ \E key \in SetKeys, data \in SetData, overwrite \in BOOLEAN : insert(key, data, overwrite)
    \/ \E i \in DOMAIN list.nodes : erase(i)
    \/ \E key \in SetKeys : erase_key(key)
    \/ clear
    \/ copy

SetSpec == SetInit /\ [][SetNext]_setVars

-------------------------------------------------------------------------------
\* As long as no attribute was inserted in front of its bucket (there is none
\* with at most as many names as buckets), the set is a map: after any calls it
\* holds one node for each name, find returns it, and it finds nothing else.
OrderedSetIsAMap ==
    ~inFront =>
        /\ Keys(list) = DOMAIN map
        /\ Len(list.nodes) = Cardinality(DOMAIN map)
        /\ \A key \in SetKeys :
              /\ Walkable(list, get_bucket(key))
              /\ {list.nodes[i].data : i \in find(list, key)} = {map[k] : k \in DOMAIN map \cap {key}}

\* "There can be only one attribute with a particular key": what the comment of
\* count says of every set.
OneAttributePerKey ==
    \A i, j \in DOMAIN list.nodes : list.nodes[i].key = list.nodes[j].key => i = j
===============================================================================
