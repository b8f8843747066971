-------------------------- MODULE AttributeValuesView ---------------------------
(***************************************************************************)
(* basic_attribute_values_view: the values of three attribute sets seen as *)
(* one container.  A value is acquired when it is looked up, or at the     *)
(* latest when the view is frozen; its node is the next element of a       *)
(* storage that was sized for all attributes of the sets.  The sets are    *)
(* not changed until the view is frozen (a precondition of the class,      *)
(* which basic_core keeps), so they are part of the initial state.         *)
(***************************************************************************)
EXTENDS HashedList, FiniteSets

CONSTANTS
    Insertions       \* the sequences of names that a set may have been filled with

ASSUME ViewAssumptions == Insertions \subseteq Seq(Nat)

VARIABLES
    adopted,         \* the attribute sets by their order of preference
    frozen,          \* m_pSourceAttributes is null
    view,            \* m_Nodes and m_Buckets; an address is a position of the storage
    m_pEnd,          \* how many elements of the storage are used
    m_pEOS,          \* how many there are
    viewInFront      \* history: an element of a set or the view is in front of its bucket

viewVars == <<adopted, frozen, view, m_pEnd, m_pEOS, viewInFront>>

\* 1 is the set of the logger, 2 that of the thread, 3 the global one.
Preference == 1..3

\* A container under construction.  insert_node of a view takes the next element
\* of the storage.
Nothing == [list |-> EmptyList, end |-> 0, inFront |-> FALSE]

Insert_node(v, key, data) ==
    [list |-> LinkNode(v.list, Node(v.end + 1, key, data)),
     end |-> v.end + 1,
     inFront |-> v.inFront \/ GoesInFront(v.list, key)]

\* Nodes are inserted one after another, each unless its name is found.
InsertMissing(v, nodes) ==
    LET each(w, n) == IF find(w.list, n.key) # {} THEN w ELSE Insert_node(w, n.key, n.data)
        after[i \in 0..Len(nodes)] == IF i = 0 THEN v ELSE each(after[i - 1], nodes[i])
    IN  after[Len(nodes)]

\* The set that inserts of these names leave behind; its attributes are named
\* after it.
Filled(names, s) == InsertMissing(Nothing, [i \in DOMAIN names |-> Node(i, names[i], s)])

AllSizes(sets) == Len(sets[1].nodes) + Len(sets[2].nodes) + Len(sets[3].nodes)

ViewOf(names) ==
    /\ adopted = [s \in Preference |-> Filled(names[s], s).list]
    /\ frozen = FALSE
    /\ view = EmptyList
    /\ m_pEnd = 0
    /\ m_pEOS = AllSizes(adopted)
    /\ viewInFront = (\E s \in Preference : Filled(names[s], s).inFront)

ViewInit == \E names \in [Preference -> Insertions] : ViewOf(names)

-------------------------------------------------------------------------------
ViewSoFar == [list |-> view, end |-> m_pEnd, inFront |-> viewInFront]

Becomes(v) ==
    /\ view' = v.list
    /\ m_pEnd' = v.end
    /\ viewInFront' = v.inFront

\* Mutant: the global attributes are asked before those of the thread.
FindGlobalFirst(key) ==
    LET holders == {s \in Preference : find(adopted[s], key) # {}}
        preferred == CHOOSE s \in holders : s = 1 \/ (1 \notin holders /\ \A r \in holders : r <= s)
    IN  /\ m_pEnd <= m_pEOS
        /\ Walkable(view, get_bucket(key))
        /\ find(view, key) = {} /\ ~frozen /\ holders # {}
        /\ Becomes(Insert_node(ViewSoFar, key,
                     adopted[preferred].nodes[CHOOSE i \in find(adopted[preferred], key) : TRUE].data))
        /\ UNCHANGED <<adopted, frozen, m_pEOS>>

\* find of a value that is not in the view yet: freeze_node asks the sets in
\* their order.  A find that has the value, or a frozen view, changes nothing.
find_value(key) ==
    LET holders == {s \in Preference : find(adopted[s], key) # {}}
        preferred == CHOOSE s \in holders : \A r \in holders : s <= r
    IN  /\ m_pEnd <= m_pEOS
        /\ Walkable(view, get_bucket(key))
        /\ find(view, key) = {} /\ ~frozen /\ holders # {}
        /\ Becomes(Insert_node(ViewSoFar, key,
                     adopted[preferred].nodes[CHOOSE i \in find(adopted[preferred], key) : TRUE].data))
        /\ UNCHANGED <<adopted, frozen, m_pEOS>>

\* Each attribute of the set that the view does not find.
freeze_nodes_from(v, set) == InsertMissing(v, set.nodes)

\* Mutant: the elements of the sets are inserted without a search.
FreezeUnsearched ==
    /\ ~frozen
    /\ frozen' = TRUE
    /\ LET each(v, set) == FoldLeft(LAMBDA w, n : Insert_node(w, n.key, n.data), v, set.nodes)
       IN  Becomes(each(each(each(ViewSoFar, adopted[1]), adopted[2]), adopted[3]))
    /\ UNCHANGED <<adopted, m_pEOS>>

\* begin, size and freeze acquire all values.
freeze ==
    /\ ~frozen
    /\ frozen' = TRUE
    /\ m_pEnd <= m_pEOS
    /\ Becomes(freeze_nodes_from(freeze_nodes_from(freeze_nodes_from(
           ViewSoFar, adopted[1]), adopted[2]), adopted[3]))
    /\ UNCHANGED <<adopted, m_pEOS>>

\* The view is replaced by its copy, which is made of a frozen view and has
\* storage for exactly its elements.
copy_view ==
    /\ frozen
    /\ m_pEnd <= m_pEOS
    /\ view' = ListOf([i \in DOMAIN view.nodes |-> Node(i, view.nodes[i].key, view.nodes[i].data)])
    /\ m_pEnd' = Len(view.nodes)
    /\ m_pEOS' = m_pEnd
    /\ UNCHANGED <<adopted, frozen, viewInFront>>

ViewNext ==
    \/ \E key \in UNION {Keys(adopted[s]) : s \in Preference} : find_value(key)
    \/ freeze
    \/ copy_view

ViewSpec == ViewInit /\ [][ViewNext]_viewVars

-------------------------------------------------------------------------------
\* As long as no element is in front of its bucket, the view holds each name of
\* the three sets once, with the attribute of the set that is preferred, in
\* whatever order values are looked up before it is frozen; find sees it; and
\* the storage is large enough.
OrderedViewIsTheUnion ==
    ~viewInFront =>
        /\ m_pEnd <= m_pEOS /\ Len(view.nodes) = m_pEnd
        /\ frozen => Keys(view) = UNION {Keys(adopted[s]) : s \in Preference}
        /\ \A i \in DOMAIN view.nodes :
              LET n == view.nodes[i]
              IN  /\ find(view, n.key) = {i}
                  /\ n.key \in Keys(adopted[n.data])
                  /\ \A s \in 1..n.data - 1 : n.key \notin Keys(adopted[s])

\* A value that was acquired stays in the view as it was, whatever is looked up
\* later, and keeps its place relative to the others.
ValuesAreAcquiredOnce ==
    \A i \in DOMAIN view.nodes :
        \E j \in DOMAIN view'.nodes :
            /\ j >= i
            /\ view'.nodes[j].key = view.nodes[i].key
            /\ view'.nodes[j].data = view.nodes[i].data

\* From its construction, when it is empty, to the freeze the view only grows,
\* into the union.
ViewGrowsIntoTheUnion == [][OrderedViewIsTheUnion' /\ ValuesAreAcquiredOnce]_viewVars
===============================================================================
