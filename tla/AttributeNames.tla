----------------------------- MODULE AttributeNames -----------------------------
(***************************************************************************)
(* The repository of attribute names: it gives every name an identifier,   *)
(* which is its position in a list that only grows.  A thread looks the    *)
(* name up under the shared lock; if it is not there it locks exclusively, *)
(* looks again and registers it.                                           *)
(***************************************************************************)
EXTENDS Integers, FiniteSets, Sequences

CONSTANTS
    Names,
    Users,           \* threads
    Absent

VARIABLES
    m_NodeList,      \* the names by identifier, which counts from 0
    m_NodeSet,       \* [id, name] of the nodes in the tree that is ordered by name
    asks,            \* the name each thread is registering, or Absent
    given,           \* history: [id, name] that get_id_from_string returned
    named            \* history: [id, name] that get_string_from_id returned

anVars == <<m_NodeList, m_NodeSet, asks, given, named>>

ANInit ==
    /\ m_NodeList = <<>>
    /\ m_NodeSet = {}
    /\ asks = [u \in Users |-> Absent]
    /\ given = {} /\ named = {}

NodesOf(name) == {n \in m_NodeSet : n.name = name}

\* The lookup under the shared lock.
find_id(u) ==
    \E name \in Names :
        /\ asks[u] = Absent
        /\ IF NodesOf(name) # {}
           THEN /\ \E n \in NodesOf(name) : given' = given \cup {n}
                /\ UNCHANGED asks
           ELSE /\ asks' = [asks EXCEPT ![u] = name]
                /\ UNCHANGED given
        /\ UNCHANGED <<m_NodeList, m_NodeSet, named>>

\* A new node at the end of the list, inserted into the tree.
AddNode(name) ==
    LET n == [id |-> Len(m_NodeList), name |-> name]
    IN  /\ m_NodeList' = Append(m_NodeList, name)
        /\ m_NodeSet' = m_NodeSet \cup {n}
        /\ given' = given \cup {n}

\* Mutant: the name is registered without a second look.
RegisterBlindly(u) ==
    /\ asks[u] # Absent
    /\ AddNode(asks[u])
    /\ asks' = [asks EXCEPT ![u] = Absent]
    /\ UNCHANGED named

\* lower_bound and the insertion under the exclusive lock.
register(u) ==
    /\ asks[u] # Absent
    /\ IF NodesOf(asks[u]) = {}
       THEN AddNode(asks[u])
       ELSE /\ \E n \in NodesOf(asks[u]) : given' = given \cup {n}
            /\ UNCHANGED <<m_NodeList, m_NodeSet>>
    /\ asks' = [asks EXCEPT ![u] = Absent]
    /\ UNCHANGED named

\* get_string_from_id of an identifier the program was given.
get_string_from_id ==
    \E n \in given :
        /\ named' = named \cup {[id |-> n.id, name |-> m_NodeList[n.id + 1]]}
        /\ UNCHANGED <<m_NodeList, m_NodeSet, asks, given>>

ANNext == get_string_from_id \/ \E u \in Users : find_id(u) \/ register(u)

ANSpec == ANInit /\ [][ANNext]_anVars

-------------------------------------------------------------------------------
\* Two threads that ask for one name are given one identifier, two names never
\* have the same one, and an identifier is converted back to the name it was
\* given for, whenever that is.
NamesAndIdsMatch ==
    /\ \A m, n \in given : m.id = n.id <=> m.name = n.name
    /\ named \subseteq given

================================================================================
