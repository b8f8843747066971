------------------------------ MODULE HashedList ------------------------------
(***************************************************************************)
(* The container inside basic_attribute_set and                            *)
(* basic_attribute_values_view: one doubly linked list of nodes, and a     *)
(* table of buckets that point to the first and the last node of a run of  *)
(* the list.  The identifier of an attribute name is the hash of the name. *)
(* The two classes repeat the same code; the operators here are that code  *)
(* on a record [nodes, first, last], a pointer to a node being the address *)
(* in its field at.                                                        *)
(***************************************************************************)
EXTENDS Integers, Sequences, SequencesExt

CONSTANTS
    Buckets,     \* the size of the table, 2 ^ BOOST_LOG_HASH_TABLE_SIZE_LOG
    Null         \* a null pointer

ASSUME HashedListAssumptions == Buckets \in Nat \ {0} /\ Null \notin Nat

Node(at, key, data) == [at |-> at, key |-> key, data |-> data]

NoBucket == [b \in 0..Buckets - 1 |-> Null]
EmptyList == [nodes |-> <<>>, first |-> NoBucket, last |-> NoBucket]

get_bucket(id) == id % Buckets

\* Where the node at an address stands in the list.
IndexOf(h, at) == CHOOSE i \in DOMAIN h.nodes : h.nodes[i].at = at

\* The bounds of a bucket are the nodes of the list they once were: a walk from
\* the first arrives at the last.  Otherwise the code would follow a pointer to
\* a destroyed node, or run past the end of the list.
Walkable(h, b) ==
    \/ h.first[b] = Null /\ h.last[b] = Null
    \/ \E i, j \in DOMAIN h.nodes :
          i <= j /\ h.nodes[i].at = h.first[b] /\ h.nodes[j].at = h.last[b]

\* Mutant: the walk stops one node early.
FindStopsEarly(h, key) ==
    LET b == get_bucket(key)
        from == IndexOf(h, h.first[b])
        to == IndexOf(h, h.last[b])
    IN  CHOOSE i \in from..to :
           /\ i = to \/ i + 1 = to \/ h.nodes[i].key >= key
           /\ \A j \in from..i - 1 : h.nodes[j].key < key

\* find_in_bucket on a bucket that is not empty: the index of the first node of
\* its run that is not smaller than the key, or of the last node.
find_in_bucket(h, key) ==
    LET b == get_bucket(key)
        from == IndexOf(h, h.first[b])
        to == IndexOf(h, h.last[b])
    IN  CHOOSE i \in from..to :
           /\ i = to \/ h.nodes[i].key >= key
           /\ \A j \in from..i - 1 : h.nodes[j].key < key

\* What find returns: the indices of the node found, none or one.
find(h, key) ==
    IF h.first[get_bucket(key)] = Null THEN {}
    ELSE {i \in {find_in_bucket(h, key)} : h.nodes[i].key = key}

\* Mutant: the new last node of a bucket is linked, but its bucket still ends
\* before it.
LinkForgetsLast(h, n) ==
    LET b == get_bucket(n.key)
        p == find_in_bucket(h, n.key)
    IN  IF h.first[b] = Null
        THEN [nodes |-> Append(h.nodes, n),
              first |-> [h.first EXCEPT ![b] = n.at], last |-> [h.last EXCEPT ![b] = n.at]]
        ELSE IF h.nodes[p].at = h.last[b] /\ n.key > h.nodes[p].key
             THEN [h EXCEPT !.nodes = InsertAt(@, p + 1, n)]
             ELSE [h EXCEPT !.nodes = InsertAt(@, p, n)]

\* A new node goes to the end of the list if its bucket is empty, after the
\* last node of the bucket if it is larger, and before the node that the search
\* stopped at otherwise.  In the last case b.first stays what it was, even when
\* the search stopped at it.
LinkNode(h, n) ==
    LET b == get_bucket(n.key)
        p == find_in_bucket(h, n.key)
    IN  IF h.first[b] = Null
        THEN [nodes |-> Append(h.nodes, n),
              first |-> [h.first EXCEPT ![b] = n.at], last |-> [h.last EXCEPT ![b] = n.at]]
        ELSE IF h.nodes[p].at = h.last[b] /\ n.key > h.nodes[p].key
             THEN [h EXCEPT !.nodes = InsertAt(@, p + 1, n), !.last[b] = n.at]
             ELSE [h EXCEPT !.nodes = InsertAt(@, p, n)]

\* The new node is in front of the bucket that it belongs to.
GoesInFront(h, key) ==
    LET b == get_bucket(key)
    IN  h.first[b] # Null /\ key < h.nodes[IndexOf(h, h.first[b])].key

\* What copies make, which append the nodes one by one: b.first is the first node
\* of the bucket in the list, b.last the latest.
ListOf(nodes) ==
    LET in(b) == {i \in DOMAIN nodes : get_bucket(nodes[i].key) = b}
    IN  [nodes |-> nodes,
         first |-> [b \in 0..Buckets - 1 |-> IF in(b) = {} THEN Null ELSE nodes[Min(in(b))].at],
         last |-> [b \in 0..Buckets - 1 |-> IF in(b) = {} THEN Null ELSE nodes[Max(in(b))].at]]

Keys(h) == {h.nodes[i].key : i \in DOMAIN h.nodes}
===============================================================================
