--------------------------- MODULE Containers_proofs ---------------------------
(***************************************************************************)
(* Proofs about the containers that keep their nodes in linked lists of    *)
(* their own: the hashed list, the attribute set and the attribute values  *)
(* view that are made of it, for any table, pool, names and attributes,    *)
(* and the lists of the named scopes, for any lists of the program, names  *)
(* and number of calls.  And about the stack of the filter parser, for any *)
(* text.                                                                   *)
(***************************************************************************)
EXTENDS AttributeSet, AttributeValuesView, NamedScopes, FilterParser, SequenceLemmas, FiniteSetTheorems

-------------------------------------------------------------------------------
(* The hashed list: what the search, the insertion, the removal and the    *)
(* copy of the attribute set and of the values view have in common.        *)

BucketOf(h, i) == get_bucket(h.nodes[i].key)
Bounds == [0..Buckets - 1 -> Nat \cup {Null}]
HashedLists(D) == [nodes : Seq([at : Nat, key : Nat, data : D]), first : Bounds, last : Bounds]

\* The nodes of a bucket stand together in the list, in ascending order, and the
\* bucket has the first and the last of them.
IsRun(h, b, f, l) ==
    /\ h.nodes[f].at = h.first[b] /\ h.nodes[l].at = h.last[b]
    /\ f <= l
    /\ \A i \in 1..Len(h.nodes) : BucketOf(h, i) = b <=> f <= i /\ i <= l
    /\ \A i, j \in 1..Len(h.nodes) : f <= i /\ i < j /\ j <= l => h.nodes[i].key < h.nodes[j].key
HasRun(h, b) ==
    \/ /\ h.first[b] = Null /\ h.last[b] = Null
       /\ \A i \in 1..Len(h.nodes) : BucketOf(h, i) # b
    \/ \E f, l \in 1..Len(h.nodes) : IsRun(h, b, f, l)
IsList(h, D) ==
    /\ h \in HashedLists(D)
    /\ \A i, j \in 1..Len(h.nodes) : h.nodes[i].at = h.nodes[j].at => i = j
IsHashed(h, D) ==
    /\ h \in HashedLists(D)
    /\ \A i, j \in 1..Len(h.nodes) : h.nodes[i].at = h.nodes[j].at => i = j
    /\ \A b \in 0..Buckets - 1 : HasRun(h, b)

LEMMA BucketsAreNumbered == \A key \in Nat : get_bucket(key) \in 0..Buckets - 1
BY HashedListAssumptions DEF get_bucket

\* What is known of the nodes and the bounds of a hashed list.
LEMMA ListIs ==
    ASSUME NEW D, NEW h, IsList(h, D)
    PROVE  /\ Len(h.nodes) \in Nat /\ DOMAIN h.nodes = 1..Len(h.nodes)
           /\ h.nodes \in Seq([at : Nat, key : Nat, data : D])
           /\ \A i \in 1..Len(h.nodes) :
                 /\ h.nodes[i] \in [at : Nat, key : Nat, data : D]
                 /\ h.nodes[i].at \in Nat /\ h.nodes[i].key \in Nat /\ h.nodes[i].data \in D
                 /\ h.nodes[i].at # Null /\ BucketOf(h, i) \in 0..Buckets - 1
           /\ h.first \in Bounds /\ h.last \in Bounds
           /\ h = [nodes |-> h.nodes, first |-> h.first, last |-> h.last]
<1>1. /\ h.nodes \in Seq([at : Nat, key : Nat, data : D])
      /\ h.first \in Bounds /\ h.last \in Bounds
      /\ h = [nodes |-> h.nodes, first |-> h.first, last |-> h.last]
  BY DEF IsList, HashedLists
<1>2. \A i \in 1..Len(h.nodes) : h.nodes[i] \in [at : Nat, key : Nat, data : D]
  <2> DEFINE S == [at : Nat, key : Nat, data : D]
  <2>1. h.nodes \in Seq(S)
    BY <1>1
  <2> HIDE DEF S
  <2>2. \A i \in 1..Len(h.nodes) : h.nodes[i] \in S
    BY <2>1
  <2> QED BY <2>2 DEF S
<1> QED BY <1>1, <1>2, BucketsAreNumbered, HashedListAssumptions DEF BucketOf

LEMMA HashedListIs ==
    ASSUME NEW D, NEW h, IsHashed(h, D)
    PROVE  /\ Len(h.nodes) \in Nat /\ DOMAIN h.nodes = 1..Len(h.nodes)
           /\ h.nodes \in Seq([at : Nat, key : Nat, data : D])
           /\ \A i \in 1..Len(h.nodes) :
                 /\ h.nodes[i] \in [at : Nat, key : Nat, data : D]
                 /\ h.nodes[i].at \in Nat /\ h.nodes[i].key \in Nat /\ h.nodes[i].data \in D
                 /\ h.nodes[i].at # Null /\ BucketOf(h, i) \in 0..Buckets - 1
           /\ h.first \in Bounds /\ h.last \in Bounds
           /\ h = [nodes |-> h.nodes, first |-> h.first, last |-> h.last]
<1>1. IsList(h, D)
  BY DEF IsHashed, IsList
<1> QED BY <1>1, ListIs

LEMMA IndexInList ==
    ASSUME NEW D, NEW h, IsList(h, D), NEW i \in 1..Len(h.nodes)
    PROVE  IndexOf(h, h.nodes[i].at) = i
<1>1. \A j \in DOMAIN h.nodes : h.nodes[j].at = h.nodes[i].at => j = i
  BY ListIs DEF IsList
<1> QED BY <1>1, ListIs DEF IndexOf

LEMMA IndexIs ==
    ASSUME NEW D, NEW h, IsHashed(h, D), NEW i \in 1..Len(h.nodes)
    PROVE  IndexOf(h, h.nodes[i].at) = i
<1>1. IsList(h, D)
  BY DEF IsHashed, IsList
<1> QED BY <1>1, IndexInList

\* The bounds of a bucket.
Spans(h, b, f, l) == h.nodes[f].at = h.first[b] /\ h.nodes[l].at = h.last[b] /\ f <= l

LEMMA SearchWalks ==
    ASSUME NEW D, NEW h, IsList(h, D), NEW key \in Nat,
           NEW f \in 1..Len(h.nodes), NEW l \in 1..Len(h.nodes), Spans(h, get_bucket(key), f, l)
    PROVE  /\ find_in_bucket(h, key) \in f..l
           /\ find_in_bucket(h, key) = l \/ h.nodes[find_in_bucket(h, key)].key >= key
           /\ \A j \in f..(find_in_bucket(h, key) - 1) : h.nodes[j].key < key
<1> DEFINE Good(i) == /\ i = l \/ h.nodes[i].key >= key
                      /\ \A j \in f..(i - 1) : h.nodes[j].key < key
           T == {i \in f..l : i = l \/ h.nodes[i].key >= key}
<1>1. IndexOf(h, h.first[get_bucket(key)]) = f /\ IndexOf(h, h.last[get_bucket(key)]) = l
  BY IndexInList DEF Spans
<1>2. find_in_bucket(h, key) = CHOOSE i \in f..l : Good(i)
  BY <1>1 DEF find_in_bucket
<1>3. f \in Nat /\ l \in Nat /\ f <= l /\ l \in T /\ T \subseteq Nat
  BY ListIs DEF Spans
<1>4. PICK x \in T : \A y \in T : x <= y
  <2> HIDE DEF T
  <2> QED BY <1>3, LeastElement
<1>5. ASSUME NEW j \in f..(x - 1) PROVE h.nodes[j].key < key
  <2>1. j \in f..l /\ j \notin T /\ j \in 1..Len(h.nodes)
    BY <1>3, <1>4, ListIs
  <2>2. h.nodes[j].key \in Nat
    BY <2>1, ListIs
  <2> QED BY <2>1, <2>2
<1>6. Good(x) /\ x \in f..l
  BY <1>4, <1>5
<1> QED BY <1>2, <1>6

LEMMA SearchInRun ==
    ASSUME NEW D, NEW h, IsHashed(h, D), NEW key \in Nat,
           NEW f \in 1..Len(h.nodes), NEW l \in 1..Len(h.nodes), IsRun(h, get_bucket(key), f, l)
    PROVE  /\ find_in_bucket(h, key) \in f..l
           /\ find_in_bucket(h, key) = l \/ h.nodes[find_in_bucket(h, key)].key >= key
           /\ \A j \in f..(find_in_bucket(h, key) - 1) : h.nodes[j].key < key
<1>1. IsList(h, D) /\ Spans(h, get_bucket(key), f, l)
  BY DEF IsHashed, IsList, IsRun, Spans
<1> QED BY <1>1, SearchWalks

\* The search finds the node with the name if there is one.
LEMMA FindIsRight ==
    ASSUME NEW D, NEW h, IsHashed(h, D), NEW key \in Nat
    PROVE  /\ find(h, key) = {i \in 1..Len(h.nodes) : h.nodes[i].key = key}
           /\ Walkable(h, get_bucket(key))
<1> DEFINE b == get_bucket(key)
           p == find_in_bucket(h, key)
<1>1. b \in 0..Buckets - 1
  BY BucketsAreNumbered
<1>2. HasRun(h, b)
  BY <1>1 DEF IsHashed
<1>3. CASE h.first[b] = Null
  <2>1. \A i \in 1..Len(h.nodes) : h.nodes[i].at # Null
    BY HashedListIs
  <2>2. h.last[b] = Null /\ \A i \in 1..Len(h.nodes) : BucketOf(h, i) # b
    BY <1>2, <1>3, <2>1 DEF HasRun, IsRun
  <2> QED BY <1>3, <2>2 DEF find, Walkable, BucketOf
<1>4. CASE h.first[b] # Null
  <2>1. PICK f, l \in 1..Len(h.nodes) : IsRun(h, b, f, l)
    BY <1>2, <1>4 DEF HasRun
  <2>2. /\ p \in f..l /\ (p = l \/ h.nodes[p].key >= key)
        /\ \A j \in f..(p - 1) : h.nodes[j].key < key
    BY <2>1, SearchInRun
  <2> HIDE DEF p
  <2>3. p \in 1..Len(h.nodes)
    BY <2>2, HashedListIs
  <2>4. ASSUME NEW i \in 1..Len(h.nodes), h.nodes[i].key = key PROVE i = p
    <3>1. f <= i /\ i <= l
      BY <2>1, <2>4 DEF IsRun, BucketOf
    <3>2. ~(i < p)
      <4>1. i < p => i \in f..(p - 1)
        BY <2>2, <3>1
      <4> QED BY <2>2, <2>4, <4>1, HashedListIs
    <3>3. ~(p < i)
      <4> SUFFICES ASSUME p < i PROVE FALSE
        OBVIOUS
      <4>1. h.nodes[p].key >= key
        BY <2>2, <3>1
      <4>2. h.nodes[p].key < h.nodes[i].key
        BY <2>1, <2>2, <2>3, <3>1 DEF IsRun
      <4>3. h.nodes[p].key \in Nat
        BY <2>3, HashedListIs
      <4> QED BY <2>4, <4>1, <4>2, <4>3
    <3> QED BY <2>3, <3>2, <3>3
  <2>5. find(h, key) = {i \in {p} : h.nodes[i].key = key}
    BY <1>4 DEF find, p
  <2>6. Walkable(h, b)
    BY <2>1, HashedListIs DEF Walkable, IsRun
  <2> QED BY <2>3, <2>4, <2>5, <2>6
<1> QED BY <1>3, <1>4

LEMMA KeysDiffer ==
    ASSUME NEW D, NEW h, IsHashed(h, D), NEW i \in 1..Len(h.nodes), NEW j \in 1..Len(h.nodes),
           h.nodes[i].key = h.nodes[j].key
    PROVE  i = j
<1> DEFINE key == h.nodes[i].key
<1>1. key \in Nat
  BY HashedListIs
<1>2. i \in find(h, key) /\ j \in find(h, key)
  BY <1>1, FindIsRight
<1> QED BY <1>2 DEF find

\* The nodes r are the nodes s with n at position q.
Inserted(s, q, n, r) ==
    /\ Len(r) = Len(s) + 1 /\ r[q] = n
    /\ \A j \in 1..Len(r) : /\ j < q => r[j] = s[j]
                            /\ j > q => r[j] = s[j - 1]

LEMMA InsertedIs ==
    ASSUME NEW s, NEW m \in Nat, Len(s) = m, NEW n, NEW r, NEW q \in 1..(m + 1), Inserted(s, q, n, r)
    PROVE  /\ Len(r) = m + 1 /\ r[q] = n
           /\ \A j \in 1..(m + 1) : /\ j < q => j \in 1..m /\ r[j] = s[j]
                                    /\ j > q => j - 1 \in 1..m /\ r[j] = s[j - 1]
<1>1. /\ Len(r) = m + 1 /\ r[q] = n
      /\ \A j \in 1..(m + 1) : (j < q => r[j] = s[j]) /\ (j > q => r[j] = s[j - 1])
  BY DEF Inserted
<1>2. \A j \in 1..(m + 1) : (j < q => j \in 1..m) /\ (j > q => j - 1 \in 1..m)
  OBVIOUS
<1> QED BY <1>1, <1>2

LEMMA InsertAtInserts ==
    ASSUME NEW N, NEW s \in Seq(N), NEW n \in N, NEW q \in 1..(Len(s) + 1)
    PROVE  InsertAt(s, q, n) \in Seq(N) /\ Inserted(s, q, n, InsertAt(s, q, n))
<1> DEFINE r == InsertAt(s, q, n)
           m == Len(s)
<1>1. r \in Seq(N) /\ Len(r) = Len(s) + 1 /\ r[q] = n
  BY InsertAtProperties
<1>2. \A j \in 1..(q - 1) : r[j] = s[j]
  BY InsertAtProperties
<1>3. \A j \in (q + 1)..(Len(s) + 1) : r[j] = s[j - 1]
  BY InsertAtProperties
<1>4. m \in Nat /\ Len(s) = m /\ q \in 1..(m + 1)
  OBVIOUS
<1> HIDE DEF r, m
<1>5. ASSUME NEW j \in 1..(m + 1) PROVE (j < q => r[j] = s[j]) /\ (j > q => r[j] = s[j - 1])
  <2>1. (j < q => j \in 1..(q - 1)) /\ (j > q => j \in (q + 1)..(Len(s) + 1))
    BY <1>4
  <2> QED BY <1>2, <1>3, <2>1
<1>6. Inserted(s, q, n, r)
  BY <1>1, <1>4, <1>5 DEF Inserted
<1> QED BY <1>1, <1>6 DEF r

\* Nodes with addresses of their own, and one more with a new address.
LEMMA InsertedAddresses ==
    ASSUME NEW s, NEW m \in Nat, Len(s) = m, NEW n, NEW r, NEW q \in 1..(m + 1), Inserted(s, q, n, r),
           \A i, j \in 1..m : s[i].at = s[j].at => i = j, \A i \in 1..m : s[i].at # n.at
    PROVE  \A i, j \in 1..(m + 1) : r[i].at = r[j].at => i = j
<1>1. r[q] = n /\ \A j \in 1..(m + 1) : /\ j < q => j \in 1..m /\ r[j] = s[j]
                                        /\ j > q => j - 1 \in 1..m /\ r[j] = s[j - 1]
  BY InsertedIs
<1>2. \A i \in 1..(m + 1) : i # q =>
         \E k \in 1..m : r[i] = s[k] /\ ((k = i /\ i < q) \/ (k = i - 1 /\ i > q))
  <2> TAKE i \in 1..(m + 1)
  <2>1. CASE i < q
    BY <1>1, <2>1
  <2>2. CASE i > q
    BY <1>1, <2>2
  <2> QED BY <2>1, <2>2
<1>3. \A i \in 1..(m + 1) : i # q => r[i].at # n.at
  BY <1>2
<1>4. ASSUME NEW i \in 1..(m + 1), NEW j \in 1..(m + 1), r[i].at = r[j].at PROVE i = j
  <2>1. CASE i = q \/ j = q
    BY <1>1, <1>3, <1>4, <2>1
  <2>2. CASE i # q /\ j # q
    <3>1. PICK k \in 1..m : r[i] = s[k] /\ ((k = i /\ i < q) \/ (k = i - 1 /\ i > q))
      BY <1>2, <2>2
    <3>2. PICK l \in 1..m : r[j] = s[l] /\ ((l = j /\ j < q) \/ (l = j - 1 /\ j > q))
      BY <1>2, <2>2
    <3>3. k = l
      BY <1>4, <3>1, <3>2
    <3> QED BY ONLY <3>1, <3>2, <3>3, i \in 1..(m + 1), j \in 1..(m + 1), q \in 1..(m + 1), m \in Nat
  <2> QED BY <2>1, <2>2
<1> QED BY <1>4

\* The list h gets a new node n, at position q, and these bounds for the bucket b.
Insertion(D, h, n, b, q, first, last, g) ==
    /\ IsList(h, D) /\ n \in [at : Nat, key : Nat, data : D]
    /\ \A i \in 1..Len(h.nodes) : h.nodes[i].at # n.at
    /\ b \in 0..Buckets - 1 /\ q \in 1..(Len(h.nodes) + 1)
    /\ first \in Nat \cup {Null} /\ last \in Nat \cup {Null}
    /\ g = [nodes |-> g.nodes, first |-> g.first, last |-> g.last]
    /\ g.nodes = InsertAt(h.nodes, q, n)
    /\ g.first = [h.first EXCEPT ![b] = first]
    /\ g.last = [h.last EXCEPT ![b] = last]

LEMMA InsertionKeepsList ==
    ASSUME NEW D, NEW h, NEW n, NEW b, NEW q, NEW first, NEW last, NEW g,
           Insertion(D, h, n, b, q, first, last, g)
    PROVE  /\ IsList(g, D) /\ Inserted(h.nodes, q, n, g.nodes)
           /\ g.first[b] = first /\ g.last[b] = last
           /\ \A c \in (0..Buckets - 1) \ {b} : g.first[c] = h.first[c] /\ g.last[c] = h.last[c]
<1> DEFINE m == Len(h.nodes)
           N == [at : Nat, key : Nat, data : D]
<1>1. /\ m \in Nat /\ h.nodes \in Seq(N) /\ h.first \in Bounds /\ h.last \in Bounds
      /\ n \in N /\ Len(h.nodes) = m /\ q \in 1..(Len(h.nodes) + 1)
  BY ListIs DEF Insertion
<1>2. \A i, j \in 1..m : h.nodes[i].at = h.nodes[j].at => i = j
  BY DEF Insertion, IsList
<1>3. \A i \in 1..m : h.nodes[i].at # n.at
  BY DEF Insertion
<1> HIDE DEF N, m
<1>4. g.nodes \in Seq(N) /\ Inserted(h.nodes, q, n, g.nodes)
  BY <1>1, InsertAtInserts DEF Insertion
<1>5. \A i, j \in 1..(m + 1) : g.nodes[i].at = g.nodes[j].at => i = j
  <2> DEFINE s == h.nodes
             r == g.nodes
  <2>1. /\ Len(s) = m /\ m \in Nat /\ q \in 1..(m + 1) /\ Inserted(s, q, n, r)
        /\ \A i, j \in 1..m : s[i].at = s[j].at => i = j
        /\ \A i \in 1..m : s[i].at # n.at
    BY <1>1, <1>2, <1>3, <1>4
  <2> HIDE DEF s, r
  <2>2. \A i, j \in 1..(m + 1) : r[i].at = r[j].at => i = j
    BY ONLY <2>1, InsertedAddresses
  <2> QED BY <2>2 DEF r
<1>6. Len(g.nodes) = m + 1
  BY <1>1, <1>4 DEF Inserted
<1>7. /\ g.first = [h.first EXCEPT ![b] = first] /\ g.last = [h.last EXCEPT ![b] = last]
      /\ b \in 0..Buckets - 1 /\ first \in Nat \cup {Null} /\ last \in Nat \cup {Null}
  BY DEF Insertion
<1>8. g.first \in Bounds /\ g.last \in Bounds
  BY <1>1, <1>7 DEF Bounds
<1>9. g.first[b] = first /\ g.last[b] = last
  BY <1>1, <1>7 DEF Bounds
<1>10. \A c \in (0..Buckets - 1) \ {b} : g.first[c] = h.first[c] /\ g.last[c] = h.last[c]
  BY <1>1, <1>7 DEF Bounds
<1>11. g \in HashedLists(D)
  BY <1>4, <1>8 DEF HashedLists, N, Insertion
<1>12. IsList(g, D)
  BY <1>5, <1>6, <1>11 DEF IsList
<1> QED BY <1>4, <1>9, <1>10, <1>12

\* An element appended is one inserted at the end.
LEMMA AppendInserts ==
    ASSUME NEW N, NEW s \in Seq(N), NEW n \in N
    PROVE  Append(s, n) = InsertAt(s, Len(s) + 1, n)
<1> DEFINE m == Len(s)
           A == Append(s, n)
           I == InsertAt(s, m + 1, n)
<1>0. m \in Nat /\ s \in Seq(N) /\ Len(s) = m
  OBVIOUS
<1>1. n \in N
  OBVIOUS
<1>2. /\ A \in Seq(N) /\ Len(A) = m + 1 /\ A[m + 1] = n /\ \A i \in 1..m : A[i] = s[i]
  BY <1>0, <1>1, AppendProperties
<1>3. m + 1 \in 1..(m + 1) /\ m + 1 - 1 = m
  BY <1>0
<1>4. /\ I \in Seq(N) /\ Len(I) = m + 1 /\ I[m + 1] = n /\ \A i \in 1..m : I[i] = s[i]
  <2>1. PICK q \in 1..(Len(s) + 1) : q = m + 1
    BY <1>0, <1>3
  <2>2. InsertAt(s, q, n) \in Seq(N) /\ Inserted(s, q, n, InsertAt(s, q, n))
    BY InsertAtInserts
  <2>3. I \in Seq(N) /\ Inserted(s, q, n, I)
    BY <2>1, <2>2
  <2> HIDE DEF I
  <2>4. Len(I) = m + 1 /\ I[q] = n /\ \A i \in 1..(m + 1) : i < q => I[i] = s[i]
    BY <1>0, <2>3 DEF Inserted
  <2>5. \A i \in 1..m : i \in 1..(m + 1) /\ i < q
    BY <1>0, <2>1
  <2> QED BY <2>1, <2>3, <2>4, <2>5
<1> HIDE DEF A, I
<1>5. \A i \in 1..(m + 1) : A[i] = I[i]
  BY <1>0, <1>2, <1>4
<1>6. A = I
  BY <1>2, <1>4, <1>5, SeqEqual
<1> QED BY <1>6 DEF A, I

\* The other buckets keep their runs, as the new node is not put inside one.
LEMMA OthersKeepRuns ==
    ASSUME NEW D, NEW h, IsHashed(h, D), NEW g, NEW n, NEW q \in 1..(Len(h.nodes) + 1),
           Inserted(h.nodes, q, n, g.nodes), NEW c \in 0..Buckets - 1, get_bucket(n.key) # c,
           q = Len(h.nodes) + 1 \/ (q > 1 /\ BucketOf(h, q - 1) # c),
           g.first[c] = h.first[c], g.last[c] = h.last[c]
    PROVE  HasRun(g, c)
<1> DEFINE m == Len(h.nodes)
<1>1. m \in Nat /\ HasRun(h, c) /\ q \in 1..(m + 1)
  BY HashedListIs DEF IsHashed
<1>2. /\ Len(g.nodes) = m + 1 /\ g.nodes[q] = n
      /\ \A j \in 1..(m + 1) : /\ j < q => j \in 1..m /\ g.nodes[j] = h.nodes[j]
                               /\ j > q => j - 1 \in 1..m /\ g.nodes[j] = h.nodes[j - 1]
  <2> DEFINE s == h.nodes
             r == g.nodes
  <2>1. Len(s) = m
    OBVIOUS
  <2> HIDE DEF m
  <2>2. q \in 1..(m + 1) /\ m \in Nat /\ Inserted(s, q, n, r)
    BY <1>1
  <2> HIDE DEF s, r
  <2>3. /\ Len(r) = m + 1 /\ r[q] = n
        /\ \A j \in 1..(m + 1) : /\ j < q => j \in 1..m /\ r[j] = s[j]
                                 /\ j > q => j - 1 \in 1..m /\ r[j] = s[j - 1]
    <3>1. PICK t, u, v, o, w : t = s /\ u = m /\ v = n /\ o = r /\ w = q
      OBVIOUS
    <3>2. Len(t) = u /\ w \in 1..(u + 1) /\ u \in Nat /\ Inserted(t, w, v, o)
      BY ONLY <2>1, <2>2, <3>1
    <3>3. /\ Len(o) = u + 1 /\ o[w] = v
          /\ \A j \in 1..(u + 1) : /\ j < w => j \in 1..u /\ o[j] = t[j]
                                   /\ j > w => j - 1 \in 1..u /\ o[j] = t[j - 1]
      BY ONLY <3>2, InsertedIs
    <3> QED BY ONLY <3>1, <3>3
  <2> QED BY <2>3 DEF s, r
<1> HIDE DEF m
<1>3. CASE /\ h.first[c] = Null /\ h.last[c] = Null
           /\ \A i \in 1..m : BucketOf(h, i) # c
  <2>1. ASSUME NEW j \in 1..(m + 1) PROVE BucketOf(g, j) # c
    <3>1. j < q \/ j = q \/ j > q
      BY <1>1
    <3> QED BY <1>2, <1>3, <3>1 DEF BucketOf
  <2> QED BY <1>2, <1>3, <2>1 DEF HasRun
<1>4. ASSUME NEW f \in 1..m, NEW l \in 1..m, IsRun(h, c, f, l) PROVE HasRun(g, c)
  <2>1. q <= f \/ l < q
    <3>1. q > 1 /\ q # m + 1 => q - 1 \in 1..m
      BY <1>1 DEF m
    <3>2. q > 1 /\ q # m + 1 => ~(f <= q - 1 /\ q - 1 <= l)
      BY <1>4, <3>1 DEF IsRun, m
    <3> QED BY <1>1, <3>2 DEF m
  <2> DEFINE to(i) == IF i < q THEN i ELSE i + 1
  <2>2. \A i \in 1..m : to(i) \in 1..(m + 1) /\ g.nodes[to(i)] = h.nodes[i]
    <3>1. ASSUME NEW i \in 1..m PROVE to(i) \in 1..(m + 1) /\ g.nodes[to(i)] = h.nodes[i]
      <4>1. CASE i < q
        BY <1>1, <1>2, <4>1
      <4>2. CASE ~(i < q)
        <5>1. i + 1 \in 1..(m + 1) /\ i + 1 > q /\ i + 1 - 1 = i
          BY <1>1, <4>2
        <5> QED BY <1>2, <4>2, <5>1
      <4> QED BY <4>1, <4>2
    <3> QED BY <3>1
  <2>3. g.nodes[to(f)].at = g.first[c] /\ g.nodes[to(l)].at = g.last[c] /\ to(f) <= to(l)
    BY <1>1, <1>4, <2>2 DEF IsRun
  <2>4. ASSUME NEW i \in 1..(m + 1) PROVE BucketOf(g, i) = c <=> to(f) <= i /\ i <= to(l)
    <3>1. CASE i < q
      <4>1. i \in 1..m /\ BucketOf(g, i) = BucketOf(h, i)
        BY <1>2, <3>1 DEF BucketOf
      <4>2. BucketOf(h, i) = c <=> f <= i /\ i <= l
        BY <1>4, <4>1 DEF IsRun, m
      <4> QED BY <1>1, <2>1, <3>1, <4>1, <4>2
    <3>2. CASE i = q
      <4>1. BucketOf(g, i) # c
        BY <1>2, <3>2 DEF BucketOf
      <4> QED BY <1>1, <2>1, <3>2, <4>1
    <3>3. CASE i > q
      <4>1. i - 1 \in 1..m /\ BucketOf(g, i) = BucketOf(h, i - 1)
        BY <1>2, <3>3 DEF BucketOf
      <4>2. BucketOf(h, i - 1) = c <=> f <= i - 1 /\ i - 1 <= l
        BY <1>4, <4>1 DEF IsRun, m
      <4> QED BY <1>1, <2>1, <3>3, <4>1, <4>2
    <3> QED BY <1>1, <3>1, <3>2, <3>3
  <2>5. ASSUME NEW i \in 1..(m + 1), NEW j \in 1..(m + 1), to(f) <= i, i < j, j <= to(l)
        PROVE  g.nodes[i].key < g.nodes[j].key
    <3>1. CASE l < q
      <4>1. i \in 1..m /\ j \in 1..m /\ f <= i /\ j <= l /\ i < q /\ j < q
        BY <1>1, <1>4, <2>5, <3>1 DEF IsRun
      <4> QED BY <1>2, <1>4, <2>5, <4>1 DEF IsRun, m
    <3>2. CASE q <= f
      <4>1. i - 1 \in 1..m /\ j - 1 \in 1..m /\ f <= i - 1 /\ i - 1 < j - 1 /\ j - 1 <= l /\ i > q /\ j > q
        BY <1>1, <1>4, <2>5, <3>2 DEF IsRun
      <4> QED BY <1>2, <1>4, <2>5, <4>1 DEF IsRun, m
    <3> QED BY <2>1, <3>1, <3>2
  <2> HIDE DEF to
  <2>6. IsRun(g, c, to(f), to(l)) /\ to(f) \in 1..Len(g.nodes) /\ to(l) \in 1..Len(g.nodes)
    BY <1>2, <2>2, <2>3, <2>4, <2>5 DEF IsRun
  <2> QED BY <2>6 DEF HasRun
<1> QED BY <1>1, <1>3, <1>4 DEF HasRun, m

\* The node n is put at position q into, or after, the run f..l of its bucket,
\* between smaller and greater keys, and g has the bounds for it.
Grows(h, m, f, l, q, n, g) ==
    /\ Len(h.nodes) = m /\ n.key \in Nat /\ \A i \in 1..m : h.nodes[i].key \in Nat
    /\ IsRun(h, get_bucket(n.key), f, l)
    /\ f < q /\ q <= l + 1 /\ Inserted(h.nodes, q, n, g.nodes)
    /\ \A i \in 1..m : /\ f <= i /\ i < q => h.nodes[i].key < n.key
                       /\ q <= i /\ i <= l => n.key < h.nodes[i].key
    /\ g.first[get_bucket(n.key)] = h.first[get_bucket(n.key)]
    /\ g.last[get_bucket(n.key)] = IF q = l + 1 THEN n.at ELSE h.last[get_bucket(n.key)]

LEMMA RunGrows ==
    ASSUME NEW h, NEW m \in Nat, NEW f \in 1..m, NEW l \in 1..m, NEW q \in 2..(m + 1), NEW n, NEW g,
           Grows(h, m, f, l, q, n, g)
    PROVE  IsRun(g, get_bucket(n.key), f, l + 1) /\ Len(g.nodes) = m + 1
<1> DEFINE b == get_bucket(n.key)
<1> USE DEF Grows
<1>1. /\ Len(g.nodes) = m + 1 /\ g.nodes[q] = n
      /\ \A j \in 1..(m + 1) : /\ j < q => j \in 1..m /\ g.nodes[j] = h.nodes[j]
                               /\ j > q => j - 1 \in 1..m /\ g.nodes[j] = h.nodes[j - 1]
  <2>1. q \in 1..(m + 1)
    OBVIOUS
  <2> DEFINE s == h.nodes
             r == g.nodes
  <2>2. Len(s) = m /\ m \in Nat /\ Inserted(s, q, n, r)
    OBVIOUS
  <2> HIDE DEF s, r
  <2>3. /\ Len(r) = m + 1 /\ r[q] = n
        /\ \A j \in 1..(m + 1) : /\ j < q => j \in 1..m /\ r[j] = s[j]
                                 /\ j > q => j - 1 \in 1..m /\ r[j] = s[j - 1]
    BY ONLY <2>1, <2>2, InsertedIs
  <2> QED BY <2>3 DEF s, r
<1>2. /\ h.nodes[f].at = h.first[b] /\ h.nodes[l].at = h.last[b]
      /\ \A i \in 1..m : BucketOf(h, i) = b <=> f <= i /\ i <= l
      /\ \A i, j \in 1..m : f <= i /\ i < j /\ j <= l => h.nodes[i].key < h.nodes[j].key
  BY DEF IsRun
<1> HIDE DEF b
<1>3. ASSUME NEW i \in 1..(m + 1) PROVE BucketOf(g, i) = b <=> f <= i /\ i <= l + 1
  <2>1. CASE i < q
    <3>1. i \in 1..m /\ BucketOf(g, i) = BucketOf(h, i)
      BY <1>1, <2>1 DEF BucketOf
    <3>2. BucketOf(h, i) = b <=> f <= i /\ i <= l
      BY <1>2, <3>1
    <3> QED BY <2>1, <3>1, <3>2
  <2>2. CASE i = q
    <3>1. BucketOf(g, i) = b
      BY <1>1, <2>2 DEF BucketOf, b
    <3> QED BY <2>2, <3>1
  <2>3. CASE i > q
    <3>1. i - 1 \in 1..m /\ BucketOf(g, i) = BucketOf(h, i - 1)
      BY <1>1, <2>3 DEF BucketOf
    <3>2. BucketOf(h, i - 1) = b <=> f <= i - 1 /\ i - 1 <= l
      BY <1>2, <3>1
    <3> QED BY <2>3, <3>1, <3>2
  <2>4. i < q \/ i = q \/ i > q
    OBVIOUS
  <2> QED BY <2>1, <2>2, <2>3, <2>4
<1>4. ASSUME NEW i \in 1..(m + 1), NEW j \in 1..(m + 1), f <= i, i < j, j <= l + 1
      PROVE  g.nodes[i].key < g.nodes[j].key
  <2>1. CASE j < q
    <3>1. i \in 1..m /\ j \in 1..m /\ j <= l /\ i < q
      BY <1>4, <2>1
    <3> QED BY <1>1, <1>2, <1>4, <2>1, <3>1
  <2>2. CASE j = q
    <3>1. i \in 1..m /\ i < q
      BY <1>4, <2>2
    <3> QED BY <1>1, <1>4, <2>2, <3>1
  <2>3. CASE j > q
    <3>1. j - 1 \in 1..m /\ q <= j - 1 /\ j - 1 <= l
      BY <1>4, <2>3
    <3>2. g.nodes[j] = h.nodes[j - 1]
      BY <1>1, <2>3
    <3>3. CASE i < q
      <4>1. i \in 1..m /\ i < j - 1 /\ g.nodes[i] = h.nodes[i]
        BY <1>1, <1>4, <2>3, <3>3
      <4> QED BY <1>2, <1>4, <3>1, <3>2, <4>1
    <3>4. CASE i = q
      BY <1>1, <3>1, <3>2, <3>4
    <3>5. CASE i > q
      <4>1. i - 1 \in 1..m /\ i - 1 < j - 1 /\ f <= i - 1
        BY <1>4, <3>5
      <4>2. g.nodes[i] = h.nodes[i - 1]
        BY <1>1, <3>5
      <4> QED BY <1>2, <3>1, <3>2, <4>1, <4>2
    <3>6. i < q \/ i = q \/ i > q
      OBVIOUS
    <3> QED BY <3>3, <3>4, <3>5, <3>6
  <2>4. j < q \/ j = q \/ j > q
    OBVIOUS
  <2> QED BY <2>1, <2>2, <2>3, <2>4
<1>5. f \in 1..(m + 1) /\ l + 1 \in 1..(m + 1) /\ f <= l + 1 /\ g.nodes[f].at = g.first[b]
  <2>1. f \in 1..(m + 1) /\ l + 1 \in 1..(m + 1) /\ f <= l + 1
    OBVIOUS
  <2>2. g.nodes[f] = h.nodes[f]
    BY <1>1, <2>1
  <2> QED BY <1>2, <2>1, <2>2 DEF b
<1>6. g.nodes[l + 1].at = g.last[b]
  <2>1. CASE q = l + 1
    BY <1>1, <2>1 DEF b
  <2>2. CASE q # l + 1
    <3>1. l + 1 > q /\ l + 1 - 1 = l
      BY <2>2
    <3>2. g.nodes[l + 1] = h.nodes[l]
      BY <1>1, <1>5, <3>1
    <3> QED BY <1>2, <2>2, <3>2 DEF b
  <2> QED BY <2>1, <2>2
<1>7. IsRun(g, b, f, l + 1)
  BY <1>1, <1>3, <1>4, <1>5, <1>6 DEF IsRun
<1> QED BY <1>1, <1>7 DEF b

\* Where an insertion puts a node that is not in front of its bucket, and that
\* the list is hashed afterwards.
LEMMA LinkKeepsHashed ==
    ASSUME NEW D, NEW h, IsHashed(h, D), NEW n \in [at : Nat, key : Nat, data : D],
           \A i \in 1..Len(h.nodes) : h.nodes[i].at # n.at /\ h.nodes[i].key # n.key,
           ~GoesInFront(h, n.key)
    PROVE  /\ IsHashed(LinkNode(h, n), D)
           /\ \E q \in 1..(Len(h.nodes) + 1) : Inserted(h.nodes, q, n, LinkNode(h, n).nodes)
<1> DEFINE m == Len(h.nodes)
           N == [at : Nat, key : Nat, data : D]
           b == get_bucket(n.key)
           p == find_in_bucket(h, n.key)
           g == LinkNode(h, n)
<1>1. /\ m \in Nat /\ h.nodes \in Seq(N) /\ h.first \in Bounds /\ h.last \in Bounds
      /\ b \in 0..Buckets - 1 /\ HasRun(h, b) /\ n.at \in Nat /\ n.key \in Nat
      /\ \A i \in 1..m : h.nodes[i].at # Null /\ h.nodes[i].key \in Nat
      /\ n.at # Null /\ n \in N /\ Len(h.nodes) = m
      /\ \A i, j \in 1..m : h.nodes[i].at = h.nodes[j].at => i = j
      /\ h = [nodes |-> h.nodes, first |-> h.first, last |-> h.last]
      /\ \A i \in 1..m : h.nodes[i].at # n.at /\ h.nodes[i].key # n.key
  <2>1. n.at \in Nat /\ n.key \in Nat
    OBVIOUS
  <2>2. b \in 0..Buckets - 1
    BY <2>1, BucketsAreNumbered
  <2>3. HasRun(h, b)
    BY <2>2 DEF IsHashed
  <2> QED BY <2>1, <2>2, <2>3, HashedListIs, HashedListAssumptions DEF IsHashed
<1> HIDE DEF N, b, m
\* What is left to show in each of the cases: the run of the bucket itself.
<1>2. ASSUME NEW q \in 1..(m + 1), NEW first, NEW last,
             g = [nodes |-> InsertAt(h.nodes, q, n), first |-> [h.first EXCEPT ![b] = first],
                  last |-> [h.last EXCEPT ![b] = last]],
             first \in Nat \cup {Null}, last \in Nat \cup {Null},
             q = m + 1 \/ (q > 1 /\ BucketOf(h, q - 1) = b),
             Inserted(h.nodes, q, n, g.nodes) /\ g.first[b] = first /\ g.last[b] = last => HasRun(g, b)
      PROVE  IsHashed(g, D) /\ Inserted(h.nodes, q, n, g.nodes)
  <2> HIDE DEF g
  <2>1. IsList(h, D) /\ n \in [at : Nat, key : Nat, data : D] /\ b \in 0..Buckets - 1
    BY <1>1 DEF IsHashed, IsList
  <2>2. q \in 1..(Len(h.nodes) + 1) /\ \A i \in 1..Len(h.nodes) : h.nodes[i].at # n.at
    BY <1>1
  <2>3. Insertion(D, h, n, b, q, first, last, g)
    BY <1>2, <2>1, <2>2 DEF Insertion
  <2>4. /\ IsList(g, D) /\ Inserted(h.nodes, q, n, g.nodes)
        /\ g.first[b] = first /\ g.last[b] = last
        /\ \A c \in (0..Buckets - 1) \ {b} : g.first[c] = h.first[c] /\ g.last[c] = h.last[c]
    BY ONLY <2>3, InsertionKeepsList
  <2>5. ASSUME NEW c \in 0..Buckets - 1 PROVE HasRun(g, c)
    <3>1. CASE c = b
      BY <1>2, <2>4, <3>1
    <3>2. CASE c # b
      <4>1. q = m + 1 \/ (q > 1 /\ BucketOf(h, q - 1) # c)
        BY <1>2, <3>2
      <4>2. get_bucket(n.key) # c
        BY <3>2 DEF b
      <4>3. g.first[c] = h.first[c] /\ g.last[c] = h.last[c]
        BY <2>4, <3>2
      <4>4. q \in 1..(Len(h.nodes) + 1) /\ (q = Len(h.nodes) + 1 \/ (q > 1 /\ BucketOf(h, q - 1) # c))
        BY <1>1, <4>1
      <4> QED BY ZenonT(60), <2>4, <4>2, <4>3, <4>4, OthersKeepRuns
    <3> QED BY <3>1, <3>2
  <2> QED BY <2>4, <2>5 DEF IsHashed, IsList
<1>3. CASE h.first[b] = Null
  <2>1. h.last[b] = Null /\ \A i \in 1..m : BucketOf(h, i) # b
    BY <1>1, <1>3 DEF HasRun, IsRun
  <2>2. g = [nodes |-> Append(h.nodes, n), first |-> [h.first EXCEPT ![b] = n.at],
             last |-> [h.last EXCEPT ![b] = n.at]]
    BY <1>3 DEF LinkNode, b
  <2>3. Append(h.nodes, n) = InsertAt(h.nodes, m + 1, n)
    BY <1>1, AppendInserts
  <2>4. Inserted(h.nodes, m + 1, n, g.nodes) /\ g.first[b] = n.at /\ g.last[b] = n.at => HasRun(g, b)
    <3> SUFFICES ASSUME Inserted(h.nodes, m + 1, n, g.nodes), g.first[b] = n.at, g.last[b] = n.at
                 PROVE  HasRun(g, b)
      OBVIOUS
    <3> HIDE DEF g
    <3>1. m + 1 \in 1..(m + 1) /\ \A i \in 1..m : i \in 1..(m + 1) /\ i < m + 1
      BY <1>1
    <3>2. Len(g.nodes) = m + 1 /\ g.nodes[m + 1] = n /\ \A i \in 1..m : g.nodes[i] = h.nodes[i]
      BY <1>1, <3>1, InsertedIs
    <3>3. BucketOf(g, m + 1) = b /\ \A i \in 1..m : BucketOf(g, i) # b
      BY <2>1, <3>2 DEF BucketOf, b
    <3>4. m + 1 \in 1..(m + 1) /\ \A i \in 1..(m + 1) : i \in 1..m \/ i = m + 1
      BY <1>1
    <3>5. IsRun(g, b, m + 1, m + 1)
      BY <1>1, <3>2, <3>3, <3>4 DEF IsRun
    <3> QED BY <3>2, <3>4, <3>5 DEF HasRun
  <2>5. m + 1 \in 1..(m + 1)
    BY <1>1
  <2>6. IsHashed(g, D) /\ Inserted(h.nodes, m + 1, n, g.nodes)
    <3>1. g.nodes = InsertAt(h.nodes, m + 1, n)
      BY <2>2, <2>3
    <3>2. g = [nodes |-> InsertAt(h.nodes, m + 1, n), first |-> [h.first EXCEPT ![b] = n.at],
               last |-> [h.last EXCEPT ![b] = n.at]]
      BY <2>2, <2>3
    <3> HIDE DEF g
    <3> QED BY <1>1, <1>2, <2>4, <2>5, <3>1, <3>2
  <2> QED BY <1>1, <2>5, <2>6
<1>4. CASE h.first[b] # Null
  <2>1. PICK f, l \in 1..m : IsRun(h, b, f, l)
    BY <1>1, <1>4 DEF HasRun
  <2>2. /\ p \in f..l /\ (p = l \/ h.nodes[p].key >= n.key)
        /\ \A j \in f..(p - 1) : h.nodes[j].key < n.key
    BY <2>1, <1>1, SearchInRun DEF b
  <2>3. p \in 1..m /\ BucketOf(h, p) = b
    BY <1>1, <2>1, <2>2 DEF IsRun
  <2>4. h.nodes[f].key < n.key
    <3>1. IndexOf(h, h.first[b]) = f
      <4>1. f \in 1..Len(h.nodes) /\ h.nodes[f].at = h.first[b]
        BY <1>1, <2>1 DEF IsRun
      <4> QED BY <4>1, IndexIs
    <3>2. ~(n.key < h.nodes[f].key)
      BY <1>4, <3>1 DEF GoesInFront, b
    <3> QED BY <1>1, <3>2
  <2>5. h.nodes[p].at = h.last[b] <=> p = l
    BY <1>1, <2>1, <2>3 DEF IsRun
  <2> HIDE DEF p
  <2>6. \A i, j \in 1..m : f <= i /\ i < j /\ j <= l => h.nodes[i].key < h.nodes[j].key
    BY <1>1, <2>1 DEF IsRun
  <2>7. \A i \in 1..m : BucketOf(h, i) = b <=> f <= i /\ i <= l
    BY <1>1, <2>1 DEF IsRun
  <2> DEFINE grows(q) ==
               /\ q \in 2..(m + 1) /\ f < q /\ q <= l + 1
               /\ \A i \in 1..m : /\ f <= i /\ i < q => h.nodes[i].key < n.key
                                  /\ q <= i /\ i <= l => n.key < h.nodes[i].key
               /\ g = [nodes |-> InsertAt(h.nodes, q, n), first |-> h.first,
                       last |-> [h.last EXCEPT ![b] = IF q = l + 1 THEN n.at ELSE h.last[b]]]
  <2>8. ASSUME NEW q, grows(q) PROVE IsHashed(g, D) /\ Inserted(h.nodes, q, n, g.nodes)
    <3> DEFINE first == h.first[b]
               last == IF q = l + 1 THEN n.at ELSE h.last[b]
    <3>1. /\ q \in 2..(m + 1) /\ f < q /\ q <= l + 1
          /\ \A i \in 1..m : /\ f <= i /\ i < q => h.nodes[i].key < n.key
                             /\ q <= i /\ i <= l => n.key < h.nodes[i].key
          /\ g = [nodes |-> InsertAt(h.nodes, q, n), first |-> h.first, last |-> [h.last EXCEPT ![b] = last]]
      BY <2>8
    <3> HIDE DEF g
    <3>2. g.nodes = InsertAt(h.nodes, q, n)
      BY <3>1
    <3>3. g = [nodes |-> InsertAt(h.nodes, q, n), first |-> [h.first EXCEPT ![b] = first],
               last |-> [h.last EXCEPT ![b] = last]]
      <4>1. [h.first EXCEPT ![b] = first] = h.first
        BY <1>1 DEF Bounds
      <4> QED BY <3>1, <4>1
    <3>4. first \in Nat \cup {Null} /\ last \in Nat \cup {Null}
      BY <1>1 DEF Bounds
    <3>5. q \in 1..(m + 1) /\ q > 1 /\ q - 1 \in 1..m /\ f <= q - 1 /\ q - 1 <= l
      BY <1>1, <3>1
    <3>6. BucketOf(h, q - 1) = b
      BY <2>7, <3>5
    <3> HIDE DEF first, last
    <3>7. ASSUME Inserted(h.nodes, q, n, g.nodes), g.first[b] = first, g.last[b] = last
          PROVE  HasRun(g, b)
      <4>1. IsRun(g, b, f, l + 1) /\ Len(g.nodes) = m + 1
        <5>1. /\ Len(h.nodes) = m /\ n.key \in Nat /\ f < q /\ q <= l + 1
              /\ (\A i \in 1..m : h.nodes[i].key \in Nat) /\ IsRun(h, get_bucket(n.key), f, l)
          BY <1>1, <2>1, <3>1 DEF b
        <5>2. /\ g.first[get_bucket(n.key)] = h.first[get_bucket(n.key)]
              /\ g.last[get_bucket(n.key)] = IF q = l + 1 THEN n.at ELSE h.last[get_bucket(n.key)]
          BY <3>7 DEF first, last, b
        <5>3. Grows(h, m, f, l, q, n, g)
          BY ONLY <3>1, <3>7, <5>1, <5>2 DEF Grows
        <5>4. m \in Nat /\ f \in 1..m /\ l \in 1..m /\ q \in 2..(m + 1)
          BY <1>1, <3>1
        <5>5. IsRun(g, get_bucket(n.key), f, l + 1) /\ Len(g.nodes) = m + 1
          BY ONLY <5>3, <5>4, RunGrows
        <5> QED BY <5>5 DEF b
      <4>2. f \in 1..(m + 1) /\ l + 1 \in 1..(m + 1)
        BY <1>1
      <4> QED BY <4>1, <4>2 DEF HasRun
    <3> QED BY <1>2, <3>2, <3>3, <3>4, <3>5, <3>6, <3>7
  <2>9. CASE p = l /\ n.key > h.nodes[l].key
    <3>1. g = [h EXCEPT !.nodes = InsertAt(@, p + 1, n), !.last[b] = n.at]
      BY <1>4, <2>5, <2>9 DEF LinkNode, b, p
    <3>2. g = [nodes |-> InsertAt(h.nodes, l + 1, n), first |-> h.first,
               last |-> [h.last EXCEPT ![b] = n.at]]
      BY <1>1, <2>9, <3>1
    <3>3. l + 1 \in 2..(m + 1) /\ f < l + 1
      BY <1>1, <2>1 DEF IsRun
    <3>4. ASSUME NEW i \in 1..m
          PROVE  /\ f <= i /\ i < l + 1 => h.nodes[i].key < n.key
                 /\ l + 1 <= i /\ i <= l => n.key < h.nodes[i].key
      <4>1. i <= l /\ f <= i => i = l \/ h.nodes[i].key < h.nodes[l].key
        BY <2>6
      <4>2. h.nodes[i].key \in Nat /\ h.nodes[l].key \in Nat /\ n.key \in Nat
        BY <1>1
      <4> QED BY SMTT(40), <2>9, <4>1, <4>2
    <3> HIDE DEF g
    <3>5. grows(l + 1)
      BY <3>2, <3>3, <3>4
    <3> HIDE DEF grows
    <3>6. l + 1 \in 1..(m + 1)
      BY <1>1
    <3>7. IsHashed(g, D) /\ Inserted(h.nodes, l + 1, n, g.nodes)
      BY <2>8, <3>5
    <3> QED BY <1>1, <3>6, <3>7 DEF g
  <2>10. CASE ~(p = l /\ n.key > h.nodes[l].key)
    <3>1. g = [h EXCEPT !.nodes = InsertAt(@, p, n)]
      BY <1>4, <2>5, <2>10 DEF LinkNode, b, p
    <3>2. h.nodes[p].key > n.key
      <4>1. h.nodes[p].key >= n.key
        BY <1>1, <2>2, <2>3, <2>10
      <4> QED BY <1>1, <2>3, <4>1
    <3>3. p # f
      BY <1>1, <2>1, <2>4, <3>2
    <3>4. p \in 2..(m + 1) /\ f < p /\ p <= l
      BY <1>1, <2>2, <2>3, <3>3
    <3>5. g = [nodes |-> InsertAt(h.nodes, p, n), first |-> h.first,
               last |-> [h.last EXCEPT ![b] = IF p = l + 1 THEN n.at ELSE h.last[b]]]
      <4>1. p # l + 1
        BY <3>4
      <4>2. [h.last EXCEPT ![b] = h.last[b]] = h.last
        BY <1>1 DEF Bounds
      <4>3. g = [nodes |-> InsertAt(h.nodes, p, n), first |-> h.first, last |-> h.last]
        BY <1>1, <3>1
      <4> QED BY <4>1, <4>2, <4>3
    <3>6. ASSUME NEW i \in 1..m
          PROVE  /\ f <= i /\ i < p => h.nodes[i].key < n.key
                 /\ p <= i /\ i <= l => n.key < h.nodes[i].key
      <4>1. f <= i /\ i < p => i \in f..(p - 1)
        BY <3>4
      <4>2. p <= i /\ i <= l => i = p \/ h.nodes[p].key < h.nodes[i].key
        BY <2>3, <2>6, <3>4
      <4>3. h.nodes[i].key \in Nat /\ h.nodes[p].key \in Nat /\ n.key \in Nat
        BY <1>1, <2>3
      <4> QED BY <2>2, <3>2, <4>1, <4>2, <4>3
    <3> HIDE DEF g
    <3>7. grows(p)
      BY <3>4, <3>5, <3>6
    <3> HIDE DEF grows
    <3>8. IsHashed(g, D) /\ Inserted(h.nodes, p, n, g.nodes) /\ p \in 1..(m + 1)
      BY <1>1, <2>8, <3>4, <3>7
    <3> QED BY <1>1, <3>8 DEF g
  <2> QED BY <2>9, <2>10
<1> QED BY <1>3, <1>4

\* The nodes r are the nodes s without the one at position i.
Removed(s, i, r) ==
    /\ Len(r) = Len(s) - 1
    /\ \A j \in 1..Len(r) : /\ j < i => r[j] = s[j]
                            /\ j >= i => r[j] = s[j + 1]

LEMMA RemovedIs ==
    ASSUME NEW s, NEW m \in Nat, Len(s) = m, NEW r, NEW i \in 1..m, Removed(s, i, r)
    PROVE  /\ Len(r) = m - 1 /\ m - 1 \in Nat
           /\ \A j \in 1..(m - 1) : /\ j \in 1..m /\ j + 1 \in 1..m
                                    /\ j < i => r[j] = s[j]
                                    /\ j >= i => r[j] = s[j + 1]
<1>1. /\ Len(r) = m - 1
      /\ \A j \in 1..(m - 1) : (j < i => r[j] = s[j]) /\ (j >= i => r[j] = s[j + 1])
  BY DEF Removed
<1>2. m - 1 \in Nat /\ \A j \in 1..(m - 1) : j \in 1..m /\ j + 1 \in 1..m
  OBVIOUS
<1> QED BY <1>1, <1>2

\* The run f..l of the bucket c of h, with the bounds that g has for it, is the
\* run that is left of it in g.
Shrinks(h, m, i, g, c, f, l) ==
    /\ Len(h.nodes) = m /\ Removed(h.nodes, i, g.nodes) /\ IsRun(h, c, f, l)
    /\ i < f \/ l < i => g.first[c] = h.first[c] /\ g.last[c] = h.last[c]
    /\ f <= i /\ i <= l /\ f < l =>
          /\ g.first[c] = IF i = f THEN h.nodes[i + 1].at ELSE h.first[c]
          /\ g.last[c] = IF i = l THEN h.nodes[i - 1].at ELSE h.last[c]
    /\ f = i /\ i = l => g.first[c] = Null /\ g.last[c] = Null

LEMMA RunShrinks ==
    ASSUME NEW h, NEW m \in Nat, NEW i \in 1..m, NEW g, NEW c, NEW f \in 1..m, NEW l \in 1..m,
           Shrinks(h, m, i, g, c, f, l)
    PROVE  HasRun(g, c)
<1> USE DEF Shrinks
<1>1. /\ Len(g.nodes) = m - 1 /\ m - 1 \in Nat
      /\ \A j \in 1..(m - 1) : /\ j \in 1..m /\ j + 1 \in 1..m
                               /\ j < i => g.nodes[j] = h.nodes[j]
                               /\ j >= i => g.nodes[j] = h.nodes[j + 1]
  <2>1. Len(h.nodes) = m /\ Removed(h.nodes, i, g.nodes) /\ m \in Nat /\ i \in 1..m
    OBVIOUS
  <2> QED BY ONLY <2>1, RemovedIs
<1>2. /\ h.nodes[f].at = h.first[c] /\ h.nodes[l].at = h.last[c] /\ f <= l
      /\ \A j \in 1..m : BucketOf(h, j) = c <=> f <= j /\ j <= l
      /\ \A j, k \in 1..m : f <= j /\ j < k /\ k <= l => h.nodes[j].key < h.nodes[k].key
  BY DEF IsRun
<1> DEFINE from(j) == IF j < i THEN j ELSE j + 1
<1>3. \A j \in 1..(m - 1) : from(j) \in 1..m /\ g.nodes[j] = h.nodes[from(j)]
                            /\ BucketOf(g, j) = BucketOf(h, from(j))
  <2>1. \A j \in 1..(m - 1) : j < i \/ j >= i
    OBVIOUS
  <2> QED BY <1>1, <2>1 DEF BucketOf
<1>4. CASE f = i /\ i = l
  <2>1. ASSUME NEW j \in 1..(m - 1) PROVE BucketOf(g, j) # c
    <3>1. ~(f <= from(j) /\ from(j) <= l)
      BY <1>4
    <3> QED BY <1>2, <1>3, <3>1
  <2>2. g.first[c] = Null /\ g.last[c] = Null
    BY <1>4
  <2> QED BY <1>1, <2>1, <2>2 DEF HasRun
<1>5. CASE ~(f = i /\ i = l)
  <2> DEFINE to(k) == IF k < i THEN k ELSE k - 1
             first == IF i < f THEN f - 1 ELSE f
             last == IF i <= l THEN l - 1 ELSE l
  <2>1. first \in 1..(m - 1) /\ last \in 1..(m - 1) /\ first <= last
    BY <1>2, <1>5
  <2>2. \A j \in 1..(m - 1) : first <= j /\ j <= last <=> f <= from(j) /\ from(j) <= l
    BY <1>2, <1>5
  <2>3. from(first) = (IF i = f THEN i + 1 ELSE f) /\ from(last) = IF i = l THEN i - 1 ELSE l
    BY <1>2, <1>5
  <2>4. /\ i < f \/ l < i => g.first[c] = h.first[c] /\ g.last[c] = h.last[c]
        /\ f <= i /\ i <= l /\ f < l =>
              /\ g.first[c] = IF i = f THEN h.nodes[i + 1].at ELSE h.first[c]
              /\ g.last[c] = IF i = l THEN h.nodes[i - 1].at ELSE h.last[c]
    OBVIOUS
  <2>5. (i < f \/ l < i) \/ (f <= i /\ i <= l /\ f < l)
    BY <1>2, <1>5
  <2>6. (i < f \/ l < i) => i # f /\ i # l
    BY <1>2
  <2>7. g.nodes[first].at = g.first[c]
    BY <1>2, <1>3, <2>1, <2>3, <2>4, <2>5, <2>6
  <2>8. g.nodes[last].at = g.last[c]
    BY <1>2, <1>3, <2>1, <2>3, <2>4, <2>5, <2>6
  <2>9. ASSUME NEW j \in 1..(m - 1), NEW k \in 1..(m - 1), first <= j, j < k, k <= last
        PROVE  g.nodes[j].key < g.nodes[k].key
    <3>1. f <= from(j) /\ from(j) < from(k) /\ from(k) <= l
      <4>1. first <= k /\ j <= last
        BY <2>1, <2>9
      <4>2. from(j) < from(k)
        BY <2>9
      <4> HIDE DEF from, first, last
      <4> QED BY <2>2, <2>9, <4>1, <4>2
    <3> HIDE DEF from
    <3>2. h.nodes[from(j)].key < h.nodes[from(k)].key
      BY <1>2, <1>3, <3>1
    <3> QED BY <1>3, <3>2
  <2>10. \A j \in 1..(m - 1) : BucketOf(g, j) = c <=> first <= j /\ j <= last
    <3> HIDE DEF first, last, from
    <3> QED BY <1>2, <1>3, <2>2
  <2> HIDE DEF first, last, from
  <2>11. IsRun(g, c, first, last)
    BY <1>1, <2>1, <2>7, <2>8, <2>9, <2>10 DEF IsRun
  <2> QED BY <1>1, <2>1, <2>11 DEF HasRun
<1> QED BY <1>4, <1>5

\* What erase leaves of a list.
Unlinked(h, i) ==
    LET p == h.nodes[i].at
        b == get_bucket(h.nodes[i].key)
        only == p = h.first[b] /\ p = h.last[b]
    IN  [nodes |-> RemoveAt(h.nodes, i),
         first |-> [h.first EXCEPT ![b] =
                      IF p # @ THEN @ ELSE IF only THEN Null ELSE h.nodes[i + 1].at],
         last |-> [h.last EXCEPT ![b] =
                     IF p # @ THEN @ ELSE IF only THEN Null ELSE h.nodes[i - 1].at]]

LEMMA UnlinkKeepsHashed ==
    ASSUME NEW D, NEW h, IsHashed(h, D), NEW i \in 1..Len(h.nodes)
    PROVE  IsHashed(Unlinked(h, i), D) /\ Removed(h.nodes, i, Unlinked(h, i).nodes)
<1> DEFINE m == Len(h.nodes)
           N == [at : Nat, key : Nat, data : D]
           p == h.nodes[i].at
           b == get_bucket(h.nodes[i].key)
           only == p = h.first[b] /\ p = h.last[b]
           first == IF p # h.first[b] THEN h.first[b] ELSE IF only THEN Null ELSE h.nodes[i + 1].at
           last == IF p # h.last[b] THEN h.last[b] ELSE IF only THEN Null ELSE h.nodes[i - 1].at
           g == [nodes |-> RemoveAt(h.nodes, i),
                 first |-> [h.first EXCEPT ![b] = first], last |-> [h.last EXCEPT ![b] = last]]
<1>1. Unlinked(h, i) = g
  BY DEF Unlinked
<1>2. /\ m \in Nat /\ i \in 1..m /\ h.nodes \in Seq(N) /\ Len(h.nodes) = m
      /\ h.first \in Bounds /\ h.last \in Bounds /\ b \in 0..Buckets - 1 /\ HasRun(h, b)
      /\ \A j \in 1..m : h.nodes[j].at # Null /\ h.nodes[j].at \in Nat
      /\ \A j, k \in 1..m : h.nodes[j].at = h.nodes[k].at => j = k
  <2>1. b \in 0..Buckets - 1
    BY HashedListIs, BucketsAreNumbered
  <2>2. HasRun(h, b)
    BY <2>1 DEF IsHashed
  <2> QED BY <2>1, <2>2, HashedListIs DEF IsHashed
<1>3. BucketOf(h, i) = b
  BY DEF BucketOf
<1> HIDE DEF m, N, b
<1>4. PICK f, l \in 1..m : IsRun(h, b, f, l)
  BY <1>2, <1>3 DEF HasRun
<1>5. /\ h.nodes[f].at = h.first[b] /\ h.nodes[l].at = h.last[b] /\ f <= i /\ i <= l
  BY <1>2, <1>3, <1>4 DEF IsRun
<1>6. (p = h.first[b] <=> i = f) /\ (p = h.last[b] <=> i = l)
  BY <1>2, <1>5
<1>7. /\ f < l => /\ first = IF i = f THEN h.nodes[i + 1].at ELSE h.first[b]
                  /\ last = IF i = l THEN h.nodes[i - 1].at ELSE h.last[b]
      /\ f = i /\ i = l => first = Null /\ last = Null
      /\ f = l => f = i /\ i = l
  BY <1>5, <1>6
<1>8. first \in Nat \cup {Null} /\ last \in Nat \cup {Null}
  <2>1. h.first[b] \in Nat \cup {Null} /\ h.last[b] \in Nat \cup {Null}
    BY <1>2 DEF Bounds
  <2>2. f < l \/ f = l
    BY <1>5
  <2>3. f < l /\ i = f => i + 1 \in 1..m
    BY <1>2
  <2>4. f < l /\ i = l => i - 1 \in 1..m
    BY <1>2
  <2> HIDE DEF first, last
  <2>5. \A j \in 1..m : h.nodes[j].at \in Nat
    BY <1>2
  <2>6. CASE f = l
    BY <1>7, <2>6
  <2>7. CASE f < l
    <3>1. first \in Nat \cup {Null}
      BY <1>7, <2>1, <2>3, <2>5, <2>7
    <3>2. last \in Nat \cup {Null}
      BY <1>7, <2>1, <2>4, <2>5, <2>7
    <3> QED BY <3>1, <3>2
  <2> QED BY <2>2, <2>6, <2>7
<1> HIDE DEF first, last, only
<1>9. /\ g.nodes \in Seq(N) /\ Removed(h.nodes, i, g.nodes)
  <2>1. /\ RemoveAt(h.nodes, i) \in Seq(N)
        /\ Len(RemoveAt(h.nodes, i)) = Len(h.nodes) - 1
        /\ \A j \in 1..(i - 1) : RemoveAt(h.nodes, i)[j] = h.nodes[j]
        /\ \A j \in i..(Len(h.nodes) - 1) : RemoveAt(h.nodes, i)[j] = h.nodes[j + 1]
    BY ZenonT(60), <1>2, RemoveAtProperties
  <2>2. \A j \in 1..(m - 1) : (j < i => j \in 1..(i - 1)) /\ (j >= i => j \in i..(m - 1))
    BY <1>2
  <2>3. g.nodes = RemoveAt(h.nodes, i)
    OBVIOUS
  <2> HIDE DEF g
  <2> QED BY <1>2, <2>1, <2>2, <2>3 DEF Removed
<1>10. /\ g.first \in Bounds /\ g.last \in Bounds /\ g.first[b] = first /\ g.last[b] = last
      /\ \A c \in (0..Buckets - 1) \ {b} : g.first[c] = h.first[c] /\ g.last[c] = h.last[c]
  BY <1>2, <1>8 DEF Bounds
<1>11. g = [nodes |-> g.nodes, first |-> g.first, last |-> g.last]
  OBVIOUS
<1> HIDE DEF g
<1>12. /\ Len(g.nodes) = m - 1 /\ m - 1 \in Nat
       /\ \A j \in 1..(m - 1) : /\ j \in 1..m /\ j + 1 \in 1..m
                                /\ j < i => g.nodes[j] = h.nodes[j]
                                /\ j >= i => g.nodes[j] = h.nodes[j + 1]
  <2>1. m - 1 \in Nat /\ \A j \in 1..(m - 1) : j \in 1..m /\ j + 1 \in 1..m
    BY <1>2
  <2>2. Len(g.nodes) = m - 1
    BY <1>2, <1>9 DEF Removed
  <2>3. \A j \in 1..(m - 1) : (j < i => g.nodes[j] = h.nodes[j]) /\ (j >= i => g.nodes[j] = h.nodes[j + 1])
    BY <1>9, <2>2 DEF Removed
  <2> QED BY <2>1, <2>2, <2>3
<1>13. ASSUME NEW c \in 0..Buckets - 1 PROVE HasRun(g, c)
  <2>1. CASE c = b
    <3>1. Shrinks(h, m, i, g, c, f, l)
      BY <1>2, <1>4, <1>5, <1>7, <1>9, <1>10, <2>1 DEF Shrinks
    <3> QED BY ONLY <1>2, <3>1, f \in 1..m, l \in 1..m, RunShrinks
  <2>2. CASE c # b
    <3>1. HasRun(h, c)
      BY DEF IsHashed
    <3>2. CASE \E u, v \in 1..m : IsRun(h, c, u, v)
      <4>1. PICK u, v \in 1..m : IsRun(h, c, u, v)
        BY <3>2
      <4>2. i < u \/ v < i
        BY <1>2, <1>3, <2>2, <4>1 DEF IsRun
      <4>3. Shrinks(h, m, i, g, c, u, v)
        BY <1>2, <1>9, <1>10, <2>2, <4>1, <4>2 DEF Shrinks
      <4> QED BY ONLY <1>2, <4>3, u \in 1..m, v \in 1..m, RunShrinks
    <3>3. CASE /\ h.first[c] = Null /\ h.last[c] = Null
               /\ \A j \in 1..m : BucketOf(h, j) # c
      <4>1. \A j \in 1..(m - 1) : j < i \/ j >= i
        BY <1>2
      <4>2. \A j \in 1..(m - 1) : BucketOf(g, j) # c
        BY <3>3, <1>12, <4>1 DEF BucketOf
      <4> QED BY <1>10, <2>2, <3>3, <1>12, <4>2 DEF HasRun
    <3> QED BY <1>2, <3>1, <3>2, <3>3 DEF HasRun
  <2> QED BY <2>1, <2>2
<1>14. ASSUME NEW j \in 1..Len(g.nodes), NEW k \in 1..Len(g.nodes), g.nodes[j].at = g.nodes[k].at
       PROVE  j = k
  <2> DEFINE from(x) == IF x < i THEN x ELSE x + 1
  <2>1. Len(g.nodes) = m - 1 /\ \A x \in 1..(m - 1) : from(x) \in 1..m /\ g.nodes[x] = h.nodes[from(x)]
    <3>1. \A x \in 1..(m - 1) : x < i \/ x >= i
      BY <1>2
    <3> QED BY <1>12, <3>1
  <2>2. from(j) = from(k)
    <3> HIDE DEF from
    <3>1. j \in 1..(m - 1) /\ k \in 1..(m - 1)
      BY <2>1
    <3>2. from(j) \in 1..m /\ from(k) \in 1..m /\ h.nodes[from(j)].at = h.nodes[from(k)].at
      BY <1>14, <2>1, <3>1
    <3>3. \A x, y \in 1..m : h.nodes[x].at = h.nodes[y].at => x = y
      BY <1>2
    <3> QED BY ONLY <3>2, <3>3
  <2> QED BY <1>2, <2>1, <2>2
<1>15. g \in HashedLists(D)
  <2>1. g.nodes \in Seq(N) /\ g.first \in Bounds /\ g.last \in Bounds
    BY <1>9, <1>10
  <2>2. [nodes |-> g.nodes, first |-> g.first, last |-> g.last] \in [nodes : Seq(N), first : Bounds, last : Bounds]
    BY ONLY <2>1
  <2> QED BY ONLY <1>11, <2>2 DEF HashedLists, N
<1>16. IsHashed(g, D)
  BY <1>13, <1>14, <1>15 DEF IsHashed
<1> QED BY <1>1, <1>9, <1>16

\* The list with the attribute of one name replaced.
Overwritten(h, T, data) ==
    [h EXCEPT !.nodes = [i \in DOMAIN @ |-> IF i \in T THEN [@[i] EXCEPT !.data = data] ELSE @[i]]]

LEMMA OverwriteKeepsHashed ==
    ASSUME NEW D, NEW h, IsHashed(h, D), NEW T, NEW data \in D
    PROVE  /\ IsHashed(Overwritten(h, T, data), D)
           /\ Len(Overwritten(h, T, data).nodes) = Len(h.nodes)
           /\ \A i \in 1..Len(h.nodes) :
                 Overwritten(h, T, data).nodes[i] =
                     [at |-> h.nodes[i].at, key |-> h.nodes[i].key,
                      data |-> IF i \in T THEN data ELSE h.nodes[i].data]
<1> DEFINE m == Len(h.nodes)
           N == [at : Nat, key : Nat, data : D]
           s == [i \in 1..m |-> [at |-> h.nodes[i].at, key |-> h.nodes[i].key,
                                 data |-> IF i \in T THEN data ELSE h.nodes[i].data]]
           g == [nodes |-> s, first |-> h.first, last |-> h.last]
<1>1. /\ m \in Nat /\ DOMAIN h.nodes = 1..m /\ Len(h.nodes) = m
      /\ h.first \in Bounds /\ h.last \in Bounds
      /\ h = [nodes |-> h.nodes, first |-> h.first, last |-> h.last]
      /\ \A i \in 1..m : /\ h.nodes[i] \in N
                         /\ h.nodes[i].at \in Nat /\ h.nodes[i].key \in Nat /\ h.nodes[i].data \in D
      /\ \A i, j \in 1..m : h.nodes[i].at = h.nodes[j].at => i = j
      /\ \A b \in 0..Buckets - 1 : HasRun(h, b)
  BY HashedListIs DEF IsHashed
<1> HIDE DEF m
<1>2. Overwritten(h, T, data) = g
  <2> DEFINE t == [i \in DOMAIN h.nodes |-> IF i \in T THEN [h.nodes[i] EXCEPT !.data = data] ELSE h.nodes[i]]
  <2>1. Overwritten(h, T, data) = [nodes |-> t, first |-> h.first, last |-> h.last]
    <3>1. Overwritten(h, T, data) = [h EXCEPT !.nodes = t]
      BY DEF Overwritten
    <3> HIDE DEF t
    <3> QED BY <1>1, <3>1
  <2>2. \A i \in 1..m : t[i] = s[i]
    <3>1. ASSUME NEW i \in 1..m PROVE t[i] = s[i]
      <4>1. PICK n \in N : n = h.nodes[i]
        BY <1>1
      <4>2. t[i] = IF i \in T THEN [n EXCEPT !.data = data] ELSE n
        BY <1>1, <4>1
      <4>3. s[i] = [at |-> n.at, key |-> n.key, data |-> IF i \in T THEN data ELSE n.data]
        BY <4>1
      <4> HIDE DEF s, t
      <4> QED BY <4>2, <4>3
    <3> QED BY <3>1
  <2>3. t = s
    BY <1>1, <2>2
  <2> QED BY <2>1, <2>3
<1>3. s \in Seq(N) /\ Len(s) = m
  <2>1. \A i \in 1..m : s[i] \in N
    BY <1>1
  <2> DEFINE M == N
  <2>2. s \in [1..m -> M]
    BY <2>1
  <2> HIDE DEF M, s
  <2>3. s \in Seq(M) /\ Len(s) = m
    BY <1>1, <2>2, FunctionIsSeq
  <2> QED BY <2>3 DEF M
<1>4. \A i \in 1..m : s[i].at = h.nodes[i].at /\ s[i].key = h.nodes[i].key
  OBVIOUS
<1> HIDE DEF s
<1>5. \A i \in 1..m : BucketOf(g, i) = BucketOf(h, i)
  BY <1>4 DEF BucketOf
<1>6. g \in HashedLists(D) /\ g.nodes = s /\ g.first = h.first /\ g.last = h.last
  BY <1>1, <1>3 DEF HashedLists
<1> HIDE DEF g
<1>7. ASSUME NEW b \in 0..Buckets - 1 PROVE HasRun(g, b)
  <2>1. HasRun(h, b)
    BY <1>1
  <2>2. ASSUME NEW f \in 1..m, NEW l \in 1..m, IsRun(h, b, f, l) PROVE IsRun(g, b, f, l)
    BY <1>1, <1>3, <1>4, <1>5, <1>6, <2>2 DEF IsRun
  <2> QED BY <1>1, <1>3, <1>5, <1>6, <2>1, <2>2 DEF HasRun
<1>8. IsHashed(g, D)
  BY <1>1, <1>3, <1>4, <1>6, <1>7 DEF IsHashed
<1> QED BY <1>1, <1>2, <1>3, <1>6, <1>8 DEF s

\* The nodes of a copy, at addresses of its own.
Copied(h) == [i \in 1..Len(h.nodes) |-> Node(i, h.nodes[i].key, h.nodes[i].data)]

LEMMA CopyIsHashed ==
    ASSUME NEW D, NEW h, IsHashed(h, D)
    PROVE  /\ IsHashed(ListOf(Copied(h)), D)
           /\ Len(ListOf(Copied(h)).nodes) = Len(h.nodes)
           /\ \A i \in 1..Len(h.nodes) :
                 ListOf(Copied(h)).nodes[i] = Node(i, h.nodes[i].key, h.nodes[i].data)
<1> DEFINE m == Len(h.nodes)
           N == [at : Nat, key : Nat, data : D]
           s == Copied(h)
           in(b) == {i \in 1..m : BucketOf(h, i) = b}
           first == [b \in 0..Buckets - 1 |-> IF in(b) = {} THEN Null ELSE s[Min(in(b))].at]
           last == [b \in 0..Buckets - 1 |-> IF in(b) = {} THEN Null ELSE s[Max(in(b))].at]
           g == [nodes |-> s, first |-> first, last |-> last]
<1>1. /\ m \in Nat /\ Len(h.nodes) = m
      /\ \A i \in 1..m : h.nodes[i].key \in Nat /\ h.nodes[i].data \in D
      /\ \A b \in 0..Buckets - 1 : HasRun(h, b)
  BY HashedListIs DEF IsHashed
<1>2. \A i \in 1..m : /\ s[i] = Node(i, h.nodes[i].key, h.nodes[i].data)
                      /\ s[i] = [at |-> i, key |-> h.nodes[i].key, data |-> h.nodes[i].data]
                      /\ s[i].at = i /\ s[i].key = h.nodes[i].key
  <2>1. \A i \in 1..m : s[i] = [at |-> i, key |-> h.nodes[i].key, data |-> h.nodes[i].data]
    BY DEF Copied, Node
  <2> HIDE DEF s, m
  <2> QED BY <2>1 DEF Node
<1>3. s \in Seq(N) /\ Len(s) = m /\ DOMAIN s = 1..m
  <2>1. \A i \in 1..m : s[i] \in N
    <3> HIDE DEF s, m
    <3>1. ASSUME NEW i \in 1..m PROVE s[i] \in N
      <4>1. i \in Nat /\ h.nodes[i].key \in Nat /\ h.nodes[i].data \in D
        BY <1>1
      <4>2. [at |-> i, key |-> h.nodes[i].key, data |-> h.nodes[i].data] \in N
        BY <4>1
      <4> QED BY <1>2, <4>2
    <3> QED BY <3>1
  <2>2. s \in [1..m -> N]
    <3>1. s = [i \in 1..m |-> s[i]]
      BY DEF Copied
    <3> HIDE DEF s, N
    <3> QED BY <2>1, <3>1
  <2> HIDE DEF N, s, m
  <2> QED BY <1>1, <2>2, FunctionIsSeq
<1> HIDE DEF m, s
<1>4. ListOf(s) = g
  <2>1. \A b : {i \in DOMAIN s : get_bucket(s[i].key) = b} = in(b)
    BY <1>2, <1>3 DEF BucketOf, Node
  <2> QED BY <2>1 DEF ListOf
<1>5. ASSUME NEW b \in 0..Buckets - 1
      PROVE  HasRun(g, b) /\ first[b] \in Nat \cup {Null} /\ last[b] \in Nat \cup {Null}
  <2>1. \A i \in 1..m : BucketOf(g, i) = BucketOf(h, i) /\ s[i].at = i /\ s[i].key = h.nodes[i].key
    BY <1>2 DEF BucketOf
  <2>2. CASE in(b) = {}
    <3>1. first[b] = Null /\ last[b] = Null
      BY <2>2
    <3>2. \A i \in 1..m : BucketOf(g, i) # b
      BY <2>1, <2>2
    <3> HIDE DEF first, last, in
    <3> QED BY <1>3, <3>1, <3>2 DEF HasRun
  <2>3. CASE in(b) # {}
    <3>1. PICK f, l \in 1..m : IsRun(h, b, f, l)
      BY <1>1, <2>3 DEF HasRun
    <3>2. in(b) = f..l /\ f <= l
      <4>1. f <= l /\ \A i \in 1..m : BucketOf(h, i) = b <=> f <= i /\ i <= l
        BY <1>1, <3>1 DEF IsRun
      <4>2. f..l \subseteq 1..m
        BY <1>1
      <4> QED BY <1>1, <4>1, <4>2
    <3>3. Min(f..l) = f
      BY <1>1, <3>2 DEF Min
    <3>4. Max(f..l) = l
      BY <1>1, <3>2 DEF Max
    <3>5. first[b] = f /\ last[b] = l
      <4>1. first[b] = s[Min(in(b))].at /\ last[b] = s[Max(in(b))].at
        BY <2>3
      <4> HIDE DEF first, last, in
      <4> QED BY <2>1, <3>2, <3>3, <3>4, <4>1
    <3> HIDE DEF first, last, in
    <3>6. g.nodes = s /\ g.first = first /\ g.last = last
      OBVIOUS
    <3> HIDE DEF g
    <3>7. IsRun(g, b, f, l)
      BY <1>1, <1>3, <2>1, <3>1, <3>5, <3>6 DEF IsRun
    <3>8. HasRun(g, b)
      <4>1. f \in 1..Len(g.nodes) /\ l \in 1..Len(g.nodes)
        BY <1>3, <3>6
      <4> QED BY <3>7, <4>1 DEF HasRun
    <3>9. first[b] \in Nat /\ last[b] \in Nat
      BY <1>1, <2>1, <3>5
    <3> QED BY <3>8, <3>9
  <2> QED BY <2>2, <2>3
<1>6. first \in Bounds /\ last \in Bounds
  <2>1. first = [b \in 0..Buckets - 1 |-> first[b]] /\ last = [b \in 0..Buckets - 1 |-> last[b]]
    OBVIOUS
  <2> HIDE DEF first, last
  <2> QED BY <1>5, <2>1 DEF Bounds
<1> HIDE DEF first, last, in
<1>7. g \in HashedLists(D) /\ g.nodes = s
  BY <1>3, <1>6 DEF HashedLists
<1>8. \A i, j \in 1..m : s[i].at = s[j].at => i = j
  BY <1>2
<1> HIDE DEF g
<1>9. IsHashed(g, D)
  BY <1>3, <1>5, <1>7, <1>8 DEF IsHashed
<1> QED BY <1>1, <1>2, <1>3, <1>4, <1>7, <1>9 DEF s

-------------------------------------------------------------------------------
(* The attribute set: with the nodes it has and the pool it keeps.         *)

\* The addresses of the nodes of a list.
Ats(h) == {h.nodes[i].at : i \in 1..Len(h.nodes)}

\* Every address allocated is linked or in the pool, once; calls bound them.
IsExact(h, free, allocated, calls) ==
    /\ free \in Seq(Nat) /\ Len(free) <= MaxPoolSize
    /\ \A i, j \in 1..Len(free) : free[i] = free[j] => i = j
    /\ allocated = Ats(h) \cup Range(free) /\ Ats(h) \cap Range(free) = {}
    /\ allocated \subseteq NodeAddresses /\ Cardinality(allocated) <= calls

\* The list holds what the map does.
Holds(h, m) ==
    /\ DOMAIN m = {h.nodes[i].key : i \in 1..Len(h.nodes)}
    /\ \A i \in 1..Len(h.nodes) : m[h.nodes[i].key] = h.nodes[i].data
    /\ IsFiniteSet(DOMAIN m) /\ Cardinality(DOMAIN m) = Len(h.nodes)

\* What a step does to the map the list stands for.
Puts(new, m, key, data) == new = [k \in DOMAIN m \cup {key} |-> IF k = key THEN data ELSE m[k]]

Drops(new, m, key) == new = [k \in DOMAIN m \ {key} |-> m[k]]

SetHolds(h, free, allocated, calls, m) ==
    /\ calls \in 0..MaxSetCalls /\ Len(h.nodes) <= calls
    /\ IsHashed(h, SetData) /\ IsExact(h, free, allocated, calls) /\ Holds(h, m)

SetInv == ~inFront => SetHolds(list, pool, heap, setCalls, map)

LEMMA InsertedHolds ==
    ASSUME NEW D, NEW h, IsHashed(h, D), NEW n, NEW q \in 1..(Len(h.nodes) + 1), NEW g,
           Inserted(h.nodes, q, n, g.nodes), NEW m, Holds(h, m), n.key \notin DOMAIN m, NEW new,
           Puts(new, m, n.key, n.data)
    PROVE  Ats(g) = Ats(h) \cup {n.at} /\ Holds(g, new)
<1> DEFINE len == Len(h.nodes)
<1>1. len \in Nat /\ Len(h.nodes) = len /\ q \in 1..(len + 1)
  BY HashedListIs
<1> HIDE DEF len
<1>2. /\ Len(g.nodes) = len + 1 /\ g.nodes[q] = n
      /\ \A j \in 1..(len + 1) : /\ j < q => j \in 1..len /\ g.nodes[j] = h.nodes[j]
                                 /\ j > q => j - 1 \in 1..len /\ g.nodes[j] = h.nodes[j - 1]
  <2>1. Inserted(h.nodes, q, n, g.nodes)
    OBVIOUS
  <2> QED BY ONLY SMTT(40), <1>1, <2>1, InsertedIs
<1>3. \A j \in 1..(len + 1) : j < q \/ j = q \/ j > q
  BY <1>1
<1>4. \A j \in 1..(len + 1) : j = q \/ \E i \in 1..len : g.nodes[j] = h.nodes[i]
  BY <1>2, <1>3
<1>5. \A i \in 1..len : \E j \in 1..(len + 1) : g.nodes[j] = h.nodes[i]
  <2>1. ASSUME NEW i \in 1..len PROVE \E j \in 1..(len + 1) : g.nodes[j] = h.nodes[i]
    <3>1. CASE i < q
      BY <1>1, <1>2, <3>1
    <3>2. CASE ~(i < q)
      <4>1. i + 1 \in 1..(len + 1) /\ i + 1 > q /\ i + 1 - 1 = i
        BY <1>1, <3>2
      <4>2. g.nodes[i + 1] = h.nodes[i + 1 - 1]
        BY <1>2, <4>1
      <4> QED BY <4>1, <4>2
    <3> QED BY <3>1, <3>2
  <2> QED BY <2>1
<1> DEFINE G == {g.nodes[j] : j \in 1..(len + 1)}
           H == {h.nodes[i] : i \in 1..len}
<1>6. G = H \cup {n}
  <2>1. q \in 1..(len + 1) /\ g.nodes[q] = n
    BY <1>1, <1>2
  <2>2. n \in G
    BY <2>1
  <2>3. ASSUME NEW x \in G PROVE x \in H \cup {n}
    BY <1>4, <2>1
  <2>4. ASSUME NEW x \in H PROVE x \in G
    BY <1>5
  <2> QED BY <2>2, <2>3, <2>4
<1>7. Ats(g) = {x.at : x \in G} /\ Ats(h) = {x.at : x \in H}
  BY <1>1, <1>2 DEF Ats
<1>8. {g.nodes[j].key : j \in 1..(len + 1)} = {x.key : x \in G}
  OBVIOUS
<1>9. {h.nodes[i].key : i \in 1..len} = {x.key : x \in H}
  OBVIOUS
<1>10. \A i \in 1..len : h.nodes[i] \in H
  OBVIOUS
<1>11. \A j \in 1..(len + 1) : g.nodes[j] \in G
  OBVIOUS
<1>12. \A x \in H : \E i \in 1..len : x = h.nodes[i]
  OBVIOUS
<1> HIDE DEF G, H
<1>13. Ats(g) = Ats(h) \cup {n.at}
  BY <1>6, <1>7
<1>14. /\ DOMAIN m = {h.nodes[i].key : i \in 1..len}
      /\ \A i \in 1..len : m[h.nodes[i].key] = h.nodes[i].data
  BY <1>1 DEF Holds
<1>15. IsFiniteSet(DOMAIN m) /\ Cardinality(DOMAIN m) = len
  BY <1>1 DEF Holds
<1>16. DOMAIN new = DOMAIN m \cup {n.key}
  BY DEF Puts
<1>17. new[n.key] = n.data
  BY DEF Puts
<1>18. \A k \in DOMAIN m : new[k] = m[k]
  BY DEF Puts
<1>19. DOMAIN new = {g.nodes[j].key : j \in 1..(len + 1)}
  <2>1. {x.key : x \in G} = {x.key : x \in H} \cup {n.key}
    BY <1>6
  <2>2. DOMAIN m = {x.key : x \in H}
    BY <1>14, <1>9
  <2> QED BY <1>16, <1>8, <2>1, <2>2
<1>20. \A j \in 1..(len + 1) : new[g.nodes[j].key] = g.nodes[j].data
  <2>1. ASSUME NEW i \in 1..len PROVE new[h.nodes[i].key] = h.nodes[i].data
    <3>1. h.nodes[i].key \in DOMAIN m /\ m[h.nodes[i].key] = h.nodes[i].data
      BY <1>14
    <3> QED BY <1>18, <3>1
  <2>2. ASSUME NEW x \in G PROVE new[x.key] = x.data
    <3>1. CASE x = n
      BY <1>17, <3>1
    <3>2. CASE x \in H
      <4>1. PICK i \in 1..len : x = h.nodes[i]
        BY <1>12, <3>2
      <4> QED BY <2>1, <4>1
    <3> QED BY <1>6, <3>1, <3>2
  <2> QED BY <1>11, <2>2
<1>21. IsFiniteSet(DOMAIN new) /\ Cardinality(DOMAIN new) = len + 1
  <2> DEFINE d == DOMAIN m
             k == n.key
  <2>1. IsFiniteSet(d) /\ Cardinality(d) = len /\ k \notin d /\ DOMAIN new = d \cup {k}
    <3>1. k \notin d
      OBVIOUS
    <3> QED BY <1>15, <1>16, <3>1
  <2> HIDE DEF d, k
  <2>2. IsFiniteSet(d \cup {k}) /\ Cardinality(d \cup {k}) = IF k \in d THEN Cardinality(d) ELSE Cardinality(d) + 1
    BY ONLY <2>1, FS_AddElement
  <2> QED BY ONLY <2>1, <2>2
<1>22. Holds(g, new)
  BY <1>2, <1>19, <1>20, <1>21 DEF Holds
<1> QED BY <1>13, <1>22

LEMMA RemovedHolds ==
    ASSUME NEW D, NEW h, IsHashed(h, D), NEW i \in 1..Len(h.nodes), NEW g,
           Removed(h.nodes, i, g.nodes), NEW m, Holds(h, m), NEW new,
           Drops(new, m, h.nodes[i].key)
    PROVE  Ats(g) = Ats(h) \ {h.nodes[i].at} /\ Holds(g, new)
<1> DEFINE len == Len(h.nodes)
           key == h.nodes[i].key
<1>1. /\ len \in Nat /\ Len(h.nodes) = len /\ i \in 1..len
      /\ \A x, y \in 1..len : h.nodes[x].at = h.nodes[y].at => x = y
      /\ \A x, y \in 1..len : h.nodes[x].key = h.nodes[y].key => x = y
  BY HashedListIs, KeysDiffer DEF IsHashed
<1> HIDE DEF len
<1>2. /\ Len(g.nodes) = len - 1 /\ len - 1 \in Nat
      /\ \A j \in 1..(len - 1) : /\ j \in 1..len /\ j + 1 \in 1..len
                                 /\ j < i => g.nodes[j] = h.nodes[j]
                                 /\ j >= i => g.nodes[j] = h.nodes[j + 1]
  <2>1. len - 1 \in Nat /\ \A j \in 1..(len - 1) : j \in 1..len /\ j + 1 \in 1..len
    BY <1>1
  <2>2. Len(g.nodes) = len - 1
    BY <1>1 DEF Removed
  <2>3. \A j \in 1..(len - 1) : (j < i => g.nodes[j] = h.nodes[j]) /\ (j >= i => g.nodes[j] = h.nodes[j + 1])
    BY <2>2 DEF Removed
  <2> QED BY <2>1, <2>2, <2>3
<1>3. ASSUME NEW j \in 1..(len - 1) PROVE \E x \in 1..len \ {i} : g.nodes[j] = h.nodes[x]
  <2>1. CASE j < i
    BY <1>1, <1>2, <2>1
  <2>2. CASE j >= i
    <3>1. j + 1 \in 1..len \ {i}
      BY <1>1, <2>2
    <3> QED BY <1>2, <2>2, <3>1
  <2> QED BY <1>1, <2>1, <2>2
<1>4. ASSUME NEW x \in 1..len \ {i} PROVE \E j \in 1..(len - 1) : g.nodes[j] = h.nodes[x]
  <2>1. CASE x < i
    <3>1. x \in 1..(len - 1)
      BY <1>1, <2>1
    <3> QED BY <1>2, <2>1, <3>1
  <2>2. CASE ~(x < i)
    <3>1. x - 1 \in 1..(len - 1) /\ x - 1 >= i /\ x - 1 + 1 = x
      BY <1>1, <2>2
    <3>2. g.nodes[x - 1] = h.nodes[x - 1 + 1]
      BY <1>2, <3>1
    <3> QED BY <3>1, <3>2
  <2> QED BY <2>1, <2>2
<1> DEFINE G == {g.nodes[j] : j \in 1..(len - 1)}
           R == {h.nodes[x] : x \in 1..len \ {i}}
           H == {h.nodes[x] : x \in 1..len}
<1>5. G = R
  <2>1. ASSUME NEW x \in G PROVE x \in R
    BY <1>3
  <2>2. ASSUME NEW x \in R PROVE x \in G
    BY <1>4
  <2> QED BY <2>1, <2>2
<1>6. Ats(g) = {x.at : x \in G} /\ Ats(h) = {x.at : x \in H}
  BY <1>1, <1>2 DEF Ats
<1>7. {g.nodes[j].key : j \in 1..(len - 1)} = {x.key : x \in G}
  OBVIOUS
<1>8. {h.nodes[x].key : x \in 1..len} = {x.key : x \in H}
  OBVIOUS
<1>9. \A x \in R : \E y \in 1..len \ {i} : x = h.nodes[y]
  OBVIOUS
<1>10. \A j \in 1..(len - 1) : g.nodes[j] \in G
  OBVIOUS
<1>11. H = R \cup {h.nodes[i]}
  BY <1>1
<1>12. \A x \in R : x.at # h.nodes[i].at /\ x.key # h.nodes[i].key
  BY <1>1
<1> HIDE DEF G, H, R
<1>13. Ats(g) = Ats(h) \ {h.nodes[i].at}
  BY <1>5, <1>6, <1>11, <1>12
<1>14. /\ DOMAIN m = {h.nodes[x].key : x \in 1..len}
      /\ \A x \in 1..len : m[h.nodes[x].key] = h.nodes[x].data
  BY <1>1 DEF Holds
<1>15. IsFiniteSet(DOMAIN m) /\ Cardinality(DOMAIN m) = len
  BY <1>1 DEF Holds
<1>16. DOMAIN new = DOMAIN m \ {key} /\ \A k \in DOMAIN m \ {key} : new[k] = m[k]
  BY DEF Drops
<1>17. DOMAIN new = {g.nodes[j].key : j \in 1..(len - 1)}
  <2>1. {x.key : x \in R} = {x.key : x \in H} \ {key}
    BY <1>11, <1>12
  <2>2. DOMAIN m = {x.key : x \in H}
    BY <1>14, <1>8
  <2> QED BY <1>16, <1>5, <1>7, <2>1, <2>2
<1>18. \A j \in 1..(len - 1) : new[g.nodes[j].key] = g.nodes[j].data
  <2>1. ASSUME NEW x \in R PROVE new[x.key] = x.data
    <3>1. PICK y \in 1..len \ {i} : x = h.nodes[y]
      BY <1>9
    <3>2. x.key \in DOMAIN m \ {key} /\ m[x.key] = x.data
      BY <1>14, <1>12, <3>1
    <3> QED BY <1>16, <3>2
  <2> QED BY <1>5, <1>10, <2>1
<1>19. IsFiniteSet(DOMAIN new) /\ Cardinality(DOMAIN new) = len - 1
  <2>1. key \in DOMAIN m
    BY <1>1, <1>14
  <2> HIDE DEF key
  <2> DEFINE d == DOMAIN m
  <2>2. IsFiniteSet(d) /\ Cardinality(d) = len /\ key \in d /\ DOMAIN new = d \ {key}
    <3>1. DOMAIN new = DOMAIN m \ {key}
      BY <1>16
    <3> QED BY <1>15, <2>1, <3>1
  <2> HIDE DEF d
  <2>3. IsFiniteSet(d \ {key}) /\ Cardinality(d \ {key}) = IF key \in d THEN Cardinality(d) - 1 ELSE Cardinality(d)
    BY ONLY <2>2, FS_RemoveElement
  <2> QED BY ONLY <2>2, <2>3
<1>20. Holds(g, new)
  BY <1>2, <1>17, <1>18, <1>19 DEF Holds
<1> QED BY <1>13, <1>20

\* What deallocate leaves of the pool and of the addresses.
Kept(addresses, free) ==
    IF Len(addresses) <= MaxPoolSize - Len(free) THEN addresses
    ELSE SubSeq(addresses, 1, MaxPoolSize - Len(free))

LEMMA DeallocateIsExact ==
    ASSUME NEW h, NEW free, NEW allocated, NEW calls \in Nat, IsExact(h, free, allocated, calls),
           NEW a \in Seq(Nat), \A i, j \in 1..Len(a) : a[i] = a[j] => i = j, Range(a) \subseteq Ats(h),
           NEW g, Ats(g) = Ats(h) \ Range(a)
    PROVE  IsExact(g, free \o Kept(a, free), allocated \ (ToSet(a) \ ToSet(Kept(a, free))), calls + 1)
<1> DEFINE room == MaxPoolSize - Len(free)
           kept == Kept(a, free)
           pool2 == free \o kept
           heap2 == allocated \ (ToSet(a) \ ToSet(kept))
<1>1. /\ free \in Seq(Nat) /\ Len(free) \in Nat /\ room \in Nat /\ Len(a) \in Nat
      /\ \A i, j \in 1..Len(free) : free[i] = free[j] => i = j
      /\ allocated = Ats(h) \cup Range(free) /\ Ats(h) \cap Range(free) = {}
      /\ allocated \subseteq NodeAddresses /\ Cardinality(allocated) <= calls
  BY SetAssumptions DEF IsExact
<1>2. /\ kept \in Seq(Nat) /\ Len(kept) \in Nat /\ Len(kept) <= room /\ Len(kept) <= Len(a)
      /\ \A j \in 1..Len(kept) : kept[j] = a[j]
  <2>1. CASE Len(a) <= room
    BY <1>1, <2>1 DEF Kept
  <2>2. CASE ~(Len(a) <= room)
    <3>1. kept = SubSeq(a, 1, room)
      BY <2>2 DEF Kept
    <3> HIDE DEF room, kept
    <3>2. /\ SubSeq(a, 1, room) \in Seq(Nat) /\ Len(SubSeq(a, 1, room)) = room
          /\ \A j \in 1..room : SubSeq(a, 1, room)[j] = a[j]
      BY <1>1, <2>2
    <3> QED BY <1>1, <2>2, <3>1, <3>2
  <2> QED BY <2>1, <2>2
<1> HIDE DEF kept
<1>3. /\ pool2 \in Seq(Nat) /\ Len(pool2) = Len(free) + Len(kept)
      /\ \A j \in 1..(Len(free) + Len(kept)) :
            pool2[j] = IF j <= Len(free) THEN free[j] ELSE kept[j - Len(free)]
  BY <1>1, <1>2, ConcatProperties
<1> DEFINE u == Len(free)
           v == Len(kept)
<1> HIDE DEF pool2
<1>4. /\ u \in Nat /\ v \in Nat /\ Len(a) \in Nat /\ v <= Len(a) /\ DOMAIN pool2 = 1..(u + v)
      /\ DOMAIN free = 1..u /\ DOMAIN kept = 1..v /\ DOMAIN a = 1..Len(a)
      /\ \A j \in 1..u : j \in 1..(u + v) /\ pool2[j] = free[j]
      /\ \A j \in 1..v : u + j \in 1..(u + v) /\ pool2[u + j] = a[j] /\ j \in 1..Len(a)
      /\ \A j \in 1..(u + v) : j \in 1..u \/ (j - u \in 1..v /\ u + (j - u) = j)
  <2>1. /\ u \in Nat /\ v \in Nat /\ Len(a) \in Nat /\ v <= Len(a) /\ DOMAIN pool2 = 1..(u + v)
        /\ DOMAIN free = 1..u /\ DOMAIN kept = 1..v /\ DOMAIN a = 1..Len(a)
        /\ \A j \in 1..v : kept[j] = a[j]
        /\ \A j \in 1..(u + v) : pool2[j] = IF j <= u THEN free[j] ELSE kept[j - u]
    BY <1>1, <1>2, <1>3
  <2> HIDE DEF u, v
  <2>2. ASSUME NEW j \in 1..u PROVE j \in 1..(u + v) /\ pool2[j] = free[j]
    <3>1. j \in 1..(u + v) /\ j <= u
      BY <2>1
    <3> QED BY <2>1, <3>1
  <2>3. ASSUME NEW j \in 1..v PROVE u + j \in 1..(u + v) /\ pool2[u + j] = a[j] /\ j \in 1..Len(a)
    <3>1. u + j \in 1..(u + v) /\ ~(u + j <= u) /\ u + j - u = j /\ j \in 1..Len(a)
      BY <2>1
    <3> QED BY <2>1, <3>1
  <2>4. \A j \in 1..(u + v) : j \in 1..u \/ (j - u \in 1..v /\ u + (j - u) = j)
    BY <2>1
  <2> QED BY <2>1, <2>2, <2>3, <2>4
<1> HIDE DEF u, v
<1>5. Range(pool2) = Range(free) \cup Range(kept) /\ Range(kept) \subseteq Range(a)
  <2>1. ASSUME NEW x \in Range(pool2) PROVE x \in Range(free) \cup Range(kept)
    <3>1. PICK j \in 1..(u + v) : x = pool2[j]
      BY <1>4 DEF Range
    <3>2. CASE j \in 1..u
      BY <1>4, <3>1, <3>2 DEF Range
    <3>3. CASE j - u \in 1..v /\ u + (j - u) = j
      <4>1. x = a[j - u] /\ a[j - u] = kept[j - u]
        BY <1>2, <1>4, <3>1, <3>3 DEF v
      <4> QED BY SMTT(40), <1>4, <3>3, <4>1 DEF Range
    <3> QED BY <1>4, <3>2, <3>3
  <2>2. ASSUME NEW x \in Range(free) PROVE x \in Range(pool2)
    <3>1. PICK j \in 1..u : x = free[j]
      BY <1>4 DEF Range
    <3> QED BY <1>4, <3>1 DEF Range
  <2>3. ASSUME NEW x \in Range(kept) PROVE x \in Range(pool2) /\ x \in Range(a)
    <3>1. PICK j \in 1..v : x = kept[j]
      BY <1>4 DEF Range
    <3>2. x = a[j] /\ j \in 1..Len(a) /\ u + j \in 1..(u + v) /\ pool2[u + j] = a[j]
      BY <1>2, <1>4, <3>1 DEF v
    <3> QED BY <1>4, <3>2 DEF Range
  <2> QED BY <2>1, <2>2, <2>3
<1>6. ASSUME NEW i \in 1..(u + v), NEW j \in 1..(u + v), pool2[i] = pool2[j] PROVE i = j
  <2>1. \A x \in 1..u, y \in 1..v : free[x] # a[y]
    <3>1. \A x \in 1..u, y \in 1..v : free[x] \in Range(free) /\ a[y] \in Range(a)
      BY <1>4 DEF Range
    <3> QED BY <1>1, <3>1
  <2>2. \A x, y \in 1..u : free[x] = free[y] => x = y
    BY <1>1 DEF u
  <2>3. \A x, y \in 1..v : a[x] = a[y] => x = y
    BY <1>4
  <2>4. CASE i \in 1..u /\ j \in 1..u
    BY <1>4, <1>6, <2>2, <2>4
  <2>5. CASE i - u \in 1..v /\ u + (i - u) = i /\ j - u \in 1..v /\ u + (j - u) = j
    <3>1. pool2[i] = a[i - u] /\ pool2[j] = a[j - u]
      BY <1>4, <2>5
    <3>2. i - u = j - u
      BY <1>6, <2>3, <2>5, <3>1
    <3> QED BY <1>4, <3>2
  <2>6. CASE i \in 1..u /\ j - u \in 1..v /\ u + (j - u) = j
    <3>1. pool2[i] = free[i] /\ pool2[j] = a[j - u]
      BY <1>4, <2>6
    <3> QED BY <1>6, <2>1, <2>6, <3>1
  <2>7. CASE j \in 1..u /\ i - u \in 1..v /\ u + (i - u) = i
    <3>1. pool2[j] = free[j] /\ pool2[i] = a[i - u]
      BY <1>4, <2>7
    <3> QED BY <1>6, <2>1, <2>7, <3>1
  <2> QED BY <1>4, <2>4, <2>5, <2>6, <2>7
<1>7. heap2 = Ats(g) \cup Range(pool2) /\ Ats(g) \cap Range(pool2) = {} /\ heap2 \subseteq allocated
  <2>1. ToSet(a) = Range(a) /\ ToSet(kept) = Range(kept)
    BY DEF ToSet, Range
  <2> QED BY <1>1, <1>5, <2>1
<1>8. heap2 \subseteq NodeAddresses /\ Cardinality(heap2) <= calls + 1
  <2>1. IsFiniteSet(NodeAddresses)
    BY SetAssumptions, FS_Interval DEF NodeAddresses
  <2>2. IsFiniteSet(allocated)
    BY <1>1, <2>1, FS_Subset
  <2>3. Cardinality(heap2) <= Cardinality(allocated) /\ Cardinality(heap2) \in Nat /\ Cardinality(allocated) \in Nat
    BY <1>7, <2>2, FS_Subset, FS_CardinalityType
  <2> QED BY <1>1, <1>7, <2>3
<1>9. Len(pool2) = u + v /\ Len(pool2) <= MaxPoolSize
  BY <1>1, <1>2, <1>3, SetAssumptions DEF u, v
<1>10. IsExact(g, pool2, heap2, calls + 1)
  BY <1>3, <1>6, <1>7, <1>8, <1>9 DEF IsExact
<1> QED BY <1>10 DEF pool2, kept

\* The address of the next node, and what is left of the pool.
Address(free, allocated) ==
    IF free # <<>> THEN Last(free) ELSE CHOOSE a \in NodeAddresses \ allocated : TRUE
Left(free) == IF free # <<>> THEN Front(free) ELSE free

LEMMA AllocateIsExact ==
    ASSUME NEW h, NEW free, NEW allocated, NEW calls \in 0..(MaxSetCalls - 1),
           IsExact(h, free, allocated, calls)
    PROVE  /\ Address(free, allocated) \in Nat \ Ats(h)
           /\ \A g : Ats(g) = Ats(h) \cup {Address(free, allocated)} =>
                 IsExact(g, Left(free), allocated \cup {Address(free, allocated)}, calls + 1)
<1> DEFINE a == Address(free, allocated)
           u == Len(free)
<1>1. /\ free \in Seq(Nat) /\ u \in Nat /\ u <= MaxPoolSize /\ Len(free) = u /\ DOMAIN free = 1..u
      /\ \A i \in 1..u : free[i] \in Nat
      /\ \A i, j \in 1..u : free[i] = free[j] => i = j
      /\ allocated = Ats(h) \cup Range(free) /\ Ats(h) \cap Range(free) = {}
      /\ allocated \subseteq NodeAddresses /\ Cardinality(allocated) <= calls
      /\ calls \in Nat /\ calls < MaxSetCalls /\ MaxSetCalls \in Nat /\ MaxPoolSize \in Nat
  BY SetAssumptions DEF IsExact
<1>2. IsFiniteSet(NodeAddresses) /\ Cardinality(NodeAddresses) = MaxSetCalls + 1
  <2>1. 1 \in Int /\ MaxSetCalls + 1 \in Int /\ ~(1 > MaxSetCalls + 1) /\ MaxSetCalls + 1 - 1 + 1 = MaxSetCalls + 1
    BY <1>1
  <2>2. IsFiniteSet(1..(MaxSetCalls + 1)) /\ Cardinality(1..(MaxSetCalls + 1)) = MaxSetCalls + 1
    BY <2>1, FS_Interval
  <2> QED BY <2>2 DEF NodeAddresses
<1>3. IsFiniteSet(allocated) /\ Cardinality(allocated) \in Nat
  BY <1>1, <1>2, FS_Subset, FS_CardinalityType
<1>4. Cardinality(allocated \cup {a}) <= calls + 1
  <2>1. Cardinality(allocated \cup {a}) = IF a \in allocated THEN Cardinality(allocated) ELSE Cardinality(allocated) + 1
    BY <1>3, FS_AddElement
  <2> HIDE DEF a
  <2> QED BY <1>1, <1>3, <2>1
<1> HIDE DEF u
<1>5. CASE free = <<>>
  <2>1. NodeAddresses \ allocated # {}
    <3>1. Cardinality(allocated) # Cardinality(NodeAddresses)
      BY <1>1, <1>2, <1>3
    <3> QED BY <1>1, <3>1
  <2>2. a = CHOOSE x \in NodeAddresses \ allocated : TRUE
    BY <1>5 DEF Address
  <2>3. a \in NodeAddresses \ allocated
    BY <2>1, <2>2
  <2>4. a \in Nat
    BY <1>1, <2>3 DEF NodeAddresses
  <2>5. ASSUME NEW g, Ats(g) = Ats(h) \cup {a}
        PROVE  IsExact(g, Left(free), allocated \cup {a}, calls + 1)
    <3>1. Left(free) = free
      BY <1>5 DEF Left
    <3> HIDE DEF a
    <3>2. /\ allocated \cup {a} = Ats(g) \cup Range(free) /\ Ats(g) \cap Range(free) = {}
          /\ allocated \cup {a} \subseteq NodeAddresses
      BY <1>1, <2>3, <2>5
    <3> QED BY <1>1, <1>4, <3>1, <3>2 DEF IsExact, u
  <2> QED BY <1>1, <2>3, <2>4, <2>5
<1>6. CASE free # <<>>
  <2>1. u \in Nat \ {0}
    BY <1>1, <1>6, EmptySeq
  <2>2. a = free[u] /\ u \in 1..u
    BY <1>6, <2>1 DEF Address, Last, u
  <2> DEFINE front == SubSeq(free, 1, u - 1)
  <2>3. Left(free) = front
    BY <1>6 DEF Left, Front, u
  <2>4. /\ front \in Seq(Nat) /\ Len(front) = u - 1 /\ u - 1 \in Nat
        /\ DOMAIN front = 1..(u - 1) /\ \A i \in 1..(u - 1) : front[i] = free[i]
    <3>1. u - 1 \in Nat /\ u - 1 <= Len(free) /\ u - 1 - 1 + 1 = u - 1
      BY <1>1, <2>1
    <3> QED BY <1>1, <3>1
  <2> HIDE DEF front, a
  <2>5. a \in Nat /\ a \in Range(free)
    BY <1>1, <2>2 DEF Range
  <2>6. \A i \in 1..(u - 1) : i \in 1..u /\ i # u
    BY <2>1
  <2>7. Range(front) = Range(free) \ {a}
    <3>1. ASSUME NEW x \in Range(front) PROVE x \in Range(free) \ {a}
      <4>1. PICK i \in 1..(u - 1) : x = front[i]
        BY <2>4 DEF Range
      <4>2. x = free[i] /\ i \in 1..u /\ i # u
        BY <2>4, <2>6, <4>1
      <4>3. x # a
        BY <1>1, <2>2, <4>2
      <4> QED BY <1>1, <4>2, <4>3 DEF Range
    <3>2. ASSUME NEW x \in Range(free) \ {a} PROVE x \in Range(front)
      <4>1. PICK i \in 1..u : x = free[i]
        BY <1>1 DEF Range
      <4>2. i \in 1..(u - 1)
        BY <2>1, <2>2, <4>1
      <4> QED BY <2>4, <4>1, <4>2 DEF Range
    <3> QED BY <3>1, <3>2
  <2>8. ASSUME NEW g, Ats(g) = Ats(h) \cup {a}
        PROVE  IsExact(g, Left(free), allocated \cup {a}, calls + 1)
    <3>1. /\ allocated \cup {a} = Ats(g) \cup Range(front) /\ Ats(g) \cap Range(front) = {}
          /\ allocated \cup {a} \subseteq NodeAddresses
      BY <1>1, <2>5, <2>7, <2>8
    <3>2. \A i, j \in 1..(u - 1) : front[i] = front[j] => i = j
      BY <1>1, <2>4, <2>6
    <3>3. u - 1 <= MaxPoolSize
      BY <1>1, <2>1
    <3> QED BY <1>4, <2>3, <2>4, <3>1, <3>2, <3>3 DEF IsExact
  <2>9. a \notin Ats(h)
    BY <1>1, <2>5
  <2> QED BY <2>5, <2>8, <2>9 DEF a
<1> QED BY <1>5, <1>6

LEMMA OverwrittenHolds ==
    ASSUME NEW D, NEW h, IsHashed(h, D), NEW key \in Nat, NEW data \in D, NEW m, Holds(h, m),
           find(h, key) # {}, NEW new, Puts(new, m, key, data)
    PROVE  /\ Ats(Overwritten(h, find(h, key), data)) = Ats(h)
           /\ Holds(Overwritten(h, find(h, key), data), new)
<1> DEFINE T == find(h, key)
           g == Overwritten(h, T, data)
           len == Len(h.nodes)
<1>1. /\ Len(g.nodes) = len
      /\ \A i \in 1..len : g.nodes[i] = [at |-> h.nodes[i].at, key |-> h.nodes[i].key,
                                         data |-> IF i \in T THEN data ELSE h.nodes[i].data]
  BY OverwriteKeepsHashed
<1>2. T = {i \in 1..len : h.nodes[i].key = key}
  BY FindIsRight
<1> HIDE DEF T, g
<1>3. \A i \in 1..len : /\ g.nodes[i].at = h.nodes[i].at /\ g.nodes[i].key = h.nodes[i].key
                        /\ g.nodes[i].data = IF i \in T THEN data ELSE h.nodes[i].data
  <2> HIDE DEF len
  <2>1. ASSUME NEW i \in 1..len
        PROVE  /\ g.nodes[i].at = h.nodes[i].at /\ g.nodes[i].key = h.nodes[i].key
               /\ g.nodes[i].data = IF i \in T THEN data ELSE h.nodes[i].data
    <3>1. g.nodes[i] = [at |-> h.nodes[i].at, key |-> h.nodes[i].key,
                        data |-> IF i \in T THEN data ELSE h.nodes[i].data]
      BY <1>1
    <3> DEFINE x == IF i \in T THEN data ELSE h.nodes[i].data
    <3> HIDE DEF x
    <3>2. g.nodes[i] = [at |-> h.nodes[i].at, key |-> h.nodes[i].key, data |-> x]
      BY <3>1 DEF x
    <3>3. g.nodes[i].at = h.nodes[i].at /\ g.nodes[i].key = h.nodes[i].key /\ g.nodes[i].data = x
      BY <3>2
    <3> QED BY <3>3 DEF x
  <2> QED BY <2>1
<1>4. /\ DOMAIN m = {h.nodes[i].key : i \in 1..len}
      /\ \A i \in 1..len : m[h.nodes[i].key] = h.nodes[i].data
      /\ IsFiniteSet(DOMAIN m) /\ Cardinality(DOMAIN m) = len
  BY DEF Holds
<1> HIDE DEF len
<1>5. key \in DOMAIN m
  <2>1. PICK i \in T : TRUE
    BY DEF T
  <2> QED BY <1>2, <1>4, <2>1
<1>6. DOMAIN new = DOMAIN m /\ new[key] = data /\ \A k \in DOMAIN m \ {key} : new[k] = m[k]
  BY <1>5 DEF Puts
<1>7. \A i \in 1..len : new[h.nodes[i].key] = IF i \in T THEN data ELSE h.nodes[i].data
  <2>1. ASSUME NEW i \in 1..len PROVE new[h.nodes[i].key] = IF i \in T THEN data ELSE h.nodes[i].data
    <3>1. h.nodes[i].key \in DOMAIN m /\ m[h.nodes[i].key] = h.nodes[i].data
      BY <1>4
    <3> QED BY <1>2, <1>6, <3>1
  <2> QED BY <2>1
<1>8. {g.nodes[i].key : i \in 1..len} = {h.nodes[i].key : i \in 1..len}
  BY <1>3
<1>9. Ats(g) = Ats(h)
  BY <1>1, <1>3 DEF Ats, len
<1>10. Holds(g, new)
  BY <1>1, <1>3, <1>4, <1>6, <1>7, <1>8 DEF Holds
<1> QED BY <1>9, <1>10 DEF g, T

LEMMA SameIsExact ==
    ASSUME NEW h, NEW g, NEW free, NEW allocated, NEW calls \in Nat,
           IsExact(h, free, allocated, calls), Ats(g) = Ats(h)
    PROVE  IsExact(g, free, allocated, calls + 1)
<1>1. IsFiniteSet(NodeAddresses)
  BY SetAssumptions, FS_Interval DEF NodeAddresses
<1>2. Cardinality(allocated) \in Nat
  BY <1>1, FS_Subset, FS_CardinalityType DEF IsExact
<1> QED BY <1>2 DEF IsExact

LEMMA EmptyIsHashed == ASSUME NEW D PROVE IsHashed(EmptyList, D) /\ Ats(EmptyList) = {}
<1>1. EmptyList = [nodes |-> <<>>, first |-> NoBucket, last |-> NoBucket]
  BY DEF EmptyList
<1>2. /\ EmptyList.nodes = <<>> /\ EmptyList.first = NoBucket /\ EmptyList.last = NoBucket
      /\ Len(<<>>) = 0 /\ 1..0 = {} /\ NoBucket \in Bounds
  BY <1>1 DEF NoBucket, Bounds
<1>3. \A b \in 0..Buckets - 1 : NoBucket[b] = Null
  BY DEF NoBucket
<1>4. EmptyList \in HashedLists(D)
  <2> DEFINE N == [at : Nat, key : Nat, data : D]
  <2> HIDE DEF N
  <2>1. <<>> \in Seq(N)
    OBVIOUS
  <2>2. [nodes |-> <<>>, first |-> NoBucket, last |-> NoBucket] \in [nodes : Seq(N), first : Bounds, last : Bounds]
    BY <1>2, <2>1
  <2> QED BY <1>1, <2>2 DEF HashedLists, N
<1>5. IsHashed(EmptyList, D)
  BY <1>2, <1>3, <1>4 DEF IsHashed, HasRun
<1> QED BY <1>2, <1>5 DEF Ats

LEMMA SetInvInit == SetInit => SetInv
<1> SUFFICES ASSUME SetInit PROVE SetInv
  OBVIOUS
<1>1. /\ list = EmptyList /\ pool = <<>> /\ heap = {} /\ setCalls = 0 /\ map = <<>>
      /\ list.nodes = <<>> /\ Len(<<>>) = 0 /\ 1..0 = {} /\ DOMAIN <<>> = {} /\ MaxPoolSize \in Nat
  BY SetAssumptions DEF SetInit, EmptyList
<1>2. IsFiniteSet({}) /\ Cardinality({}) = 0
  BY FS_EmptySet
<1>3. IsExact(list, pool, heap, setCalls)
  BY <1>1, <1>2, EmptyIsHashed DEF IsExact, Range
<1>4. Holds(list, map)
  BY <1>1, <1>2 DEF Holds
<1>5. setCalls \in 0..MaxSetCalls /\ Len(list.nodes) <= setCalls
  BY <1>1, SetAssumptions
<1>6. IsHashed(list, SetData)
  BY <1>1, EmptyIsHashed
<1> QED BY <1>3, <1>4, <1>5, <1>6 DEF SetInv, SetHolds

\* A name that is found is a name of the map.
LEMMA FoundIsInTheMap ==
    ASSUME NEW D, NEW h, IsHashed(h, D), NEW m, Holds(h, m), NEW key \in Nat
    PROVE  /\ find(h, key) # {} <=> key \in DOMAIN m
           /\ {h.nodes[i].data : i \in find(h, key)} = {m[k] : k \in DOMAIN m \cap {key}}
<1>1. find(h, key) = {i \in 1..Len(h.nodes) : h.nodes[i].key = key}
  BY FindIsRight
<1>2. /\ DOMAIN m = {h.nodes[i].key : i \in 1..Len(h.nodes)}
      /\ \A i \in 1..Len(h.nodes) : m[h.nodes[i].key] = h.nodes[i].data
  BY DEF Holds
<1>3. CASE find(h, key) = {}
  <2>1. key \notin DOMAIN m
    BY <1>1, <1>2, <1>3
  <2> QED BY <1>3, <2>1
<1>4. CASE find(h, key) # {}
  <2>1. PICK i \in find(h, key) : TRUE
    BY <1>4
  <2>2. key \in DOMAIN m
    BY <1>1, <1>2, <2>1
  <2>3. \A j \in find(h, key) : h.nodes[j].data = m[key]
    BY <1>1, <1>2
  <2>4. DOMAIN m \cap {key} = {key}
    BY <2>2
  <2> QED BY <2>1, <2>2, <2>3, <2>4
<1> QED BY <1>3, <1>4

\* What a call of insert leaves.
LEMMA InsertKeepsSetInv ==
    ASSUME NEW key \in SetKeys, NEW data \in SetData, NEW overwrite \in BOOLEAN,
           SetInv, insert(key, data, overwrite)
    PROVE  SetInv'
<1> SUFFICES ASSUME ~inFront' PROVE SetHolds(list, pool, heap, setCalls, map)'
  BY DEF SetInv
<1>1. ~inFront
  BY DEF insert
<1>2. /\ IsHashed(list, SetData) /\ IsExact(list, pool, heap, setCalls) /\ Holds(list, map)
      /\ setCalls \in Nat /\ setCalls < MaxSetCalls /\ setCalls' = setCalls + 1
      /\ setCalls' \in 0..MaxSetCalls /\ Len(list.nodes) \in Nat /\ Len(list.nodes) <= setCalls
      /\ setCalls \in 0..(MaxSetCalls - 1) /\ key \in Nat
  <2>1. /\ IsHashed(list, SetData) /\ IsExact(list, pool, heap, setCalls) /\ Holds(list, map)
        /\ setCalls \in 0..MaxSetCalls /\ Len(list.nodes) <= setCalls
        /\ setCalls < MaxSetCalls /\ setCalls' = setCalls + 1
    BY <1>1 DEF SetInv, SetHolds, insert, Call
  <2> QED BY <2>1, SetAssumptions, HashedListIs
<1>3. find(list, key) # {} <=> key \in DOMAIN map
  BY <1>2, FoundIsInTheMap
<1>4. CASE find(list, key) # {}
  <2>1. pool' = pool /\ heap' = heap
    BY <1>4 DEF insert
  <2>2. CASE overwrite
    <3>1. list' = Overwritten(list, find(list, key), data)
      BY <1>4, <2>2 DEF insert, Overwritten
    <3>2. Puts(map', map, key, data)
      BY <2>2 DEF insert, Puts
    <3>3. Ats(list') = Ats(list) /\ Holds(list', map')
      <4>1. PICK new : new = map'
        OBVIOUS
      <4>2. /\ IsHashed(list, SetData) /\ key \in Nat /\ data \in SetData /\ Holds(list, map)
            /\ find(list, key) # {} /\ Puts(new, map, key, data)
        BY <1>2, <1>4, <3>2, <4>1
      <4>3. /\ Ats(Overwritten(list, find(list, key), data)) = Ats(list)
            /\ Holds(Overwritten(list, find(list, key), data), new)
        BY ONLY <4>2, OverwrittenHolds
      <4> QED BY <3>1, <4>1, <4>3
    <3>4. IsHashed(list', SetData) /\ Len(list'.nodes) = Len(list.nodes)
      BY <1>2, <3>1, OverwriteKeepsHashed
    <3>5. IsExact(list', pool', heap', setCalls')
      BY <1>2, <2>1, <3>3, SameIsExact
    <3>6. Len(list'.nodes) <= setCalls'
      BY <1>2, <3>4
    <3> QED BY <1>2, <3>3, <3>4, <3>5, <3>6 DEF SetHolds
  <2>3. CASE ~overwrite
    <3>1. list' = list /\ map' = map
      BY <1>3, <1>4, <2>3 DEF insert
    <3>2. IsExact(list', pool', heap', setCalls')
      BY <1>2, <2>1, <3>1, SameIsExact
    <3>3. Len(list'.nodes) <= setCalls'
      BY <1>2, <3>1
    <3> QED BY <1>2, <3>1, <3>2, <3>3 DEF SetHolds
  <2> QED BY <2>2, <2>3
<1>5. CASE find(list, key) = {}
  <2> DEFINE a == Address(pool, heap)
             n == Node(a, key, data)
  <2>1. a = allocate
    BY DEF Address, allocate
  <2>2. /\ list' = LinkNode(list, n) /\ heap' = heap \cup {a} /\ pool' = Left(pool)
        /\ ~GoesInFront(list, key)
    BY <1>5, <2>1 DEF insert, Left
  <2>3. key \notin DOMAIN map
    BY <1>3, <1>5
  <2>4. Puts(map', map, key, data)
    BY <2>3 DEF insert, Puts
  <2>5. /\ a \in Nat \ Ats(list)
        /\ \A g : Ats(g) = Ats(list) \cup {a} => IsExact(g, Left(pool), heap \cup {a}, setCalls + 1)
    BY <1>2, AllocateIsExact
  <2> HIDE DEF a
  <2>6. /\ n.at = a /\ n.key = key /\ n.data = data /\ n \in [at : Nat, key : Nat, data : SetData]
    BY <1>2, <2>5 DEF Node
  <2> HIDE DEF n
  <2>7. \A i \in 1..Len(list.nodes) : list.nodes[i].at # n.at /\ list.nodes[i].key # n.key
    BY <1>2, <2>3, <2>5, <2>6 DEF Ats, Holds
  <2>8. /\ IsHashed(LinkNode(list, n), SetData)
        /\ \E q \in 1..(Len(list.nodes) + 1) : Inserted(list.nodes, q, n, LinkNode(list, n).nodes)
    BY <1>2, <2>2, <2>6, <2>7, LinkKeepsHashed
  <2>9. PICK q \in 1..(Len(list.nodes) + 1) : Inserted(list.nodes, q, n, list'.nodes)
    BY <2>2, <2>8
  <2>10. /\ Ats(list') = Ats(list) \cup {a} /\ Holds(list', map')
    <3>1. n.key \notin DOMAIN map
      BY <2>3, <2>6
    <3>2. Ats(list') = Ats(list) \cup {n.at} /\ Holds(list', map')
      <4>1. PICK g, new : g = list' /\ new = map'
        OBVIOUS
      <4>2. /\ IsHashed(list, SetData) /\ Holds(list, map) /\ q \in 1..(Len(list.nodes) + 1)
            /\ Inserted(list.nodes, q, n, g.nodes) /\ n.key \notin DOMAIN map
            /\ Puts(new, map, n.key, n.data)
        BY <1>2, <2>4, <2>6, <2>9, <3>1, <4>1
      <4>3. Ats(g) = Ats(list) \cup {n.at} /\ Holds(g, new)
        BY ONLY <4>2, InsertedHolds
      <4> QED BY <4>1, <4>3
    <3> QED BY <2>6, <3>2
  <2>11. IsExact(list', pool', heap', setCalls')
    BY <1>2, <2>2, <2>5, <2>10
  <2>12. Len(list'.nodes) <= setCalls'
    <3>1. Len(list'.nodes) = Len(list.nodes) + 1
      BY <2>9 DEF Inserted
    <3> QED BY <1>2, <3>1
  <2> QED BY <1>2, <2>2, <2>8, <2>10, <2>11, <2>12 DEF SetHolds
<1> QED BY <1>4, <1>5

\* What a call of erase leaves.
LEMMA EraseKeepsSetInv ==
    ASSUME NEW i \in DOMAIN list.nodes, SetInv, erase(i)
    PROVE  SetInv'
<1> SUFFICES ASSUME ~inFront' PROVE SetHolds(list, pool, heap, setCalls, map)'
  BY DEF SetInv
<1>1. ~inFront
  BY DEF erase
<1>2. /\ IsHashed(list, SetData) /\ IsExact(list, pool, heap, setCalls) /\ Holds(list, map)
      /\ setCalls \in Nat /\ setCalls < MaxSetCalls /\ setCalls' = setCalls + 1
      /\ setCalls' \in 0..MaxSetCalls /\ Len(list.nodes) \in Nat /\ Len(list.nodes) <= setCalls
      /\ i \in 1..Len(list.nodes)
  <2>1. /\ IsHashed(list, SetData) /\ IsExact(list, pool, heap, setCalls) /\ Holds(list, map)
        /\ setCalls \in 0..MaxSetCalls /\ Len(list.nodes) <= setCalls
        /\ setCalls < MaxSetCalls /\ setCalls' = setCalls + 1
    BY <1>1 DEF SetInv, SetHolds, erase, Call
  <2> QED BY <2>1, SetAssumptions, HashedListIs
<1> DEFINE p == list.nodes[i].at
           a == <<p>>
<1>3. list' = Unlinked(list, i) /\ Drops(map', map, list.nodes[i].key) /\ deallocate(a)
  BY DEF erase, Unlinked, Drops
<1>4. IsHashed(list', SetData) /\ Removed(list.nodes, i, list'.nodes)
  BY <1>2, <1>3, UnlinkKeepsHashed
<1>5. Ats(list') = Ats(list) \ {p} /\ Holds(list', map')
  <2>1. PICK g, new : g = list' /\ new = map'
    OBVIOUS
  <2>2. /\ IsHashed(list, SetData) /\ i \in 1..Len(list.nodes) /\ Removed(list.nodes, i, g.nodes)
        /\ Holds(list, map) /\ Drops(new, map, list.nodes[i].key)
    BY <1>2, <1>3, <1>4, <2>1
  <2>3. Ats(g) = Ats(list) \ {list.nodes[i].at} /\ Holds(g, new)
    BY ONLY <2>2, RemovedHolds
  <2> QED BY <2>1, <2>3
<1>6. pool' = pool \o Kept(a, pool) /\ heap' = heap \ (ToSet(a) \ ToSet(Kept(a, pool)))
  BY <1>3 DEF deallocate, Kept
<1>7. p \in Nat /\ p \in Ats(list)
  BY <1>2, HashedListIs DEF Ats
<1> HIDE DEF p
<1>8. /\ a \in Seq(Nat) /\ Range(a) = {p}
      /\ \A x, y \in 1..Len(a) : a[x] = a[y] => x = y
  <2>1. a \in Seq(Nat) /\ Len(a) = 1 /\ a[1] = p /\ DOMAIN a = {1}
    BY <1>7
  <2> HIDE DEF a
  <2> QED BY <2>1 DEF Range
<1> HIDE DEF a
<1>9. IsExact(list', pool', heap', setCalls')
  BY <1>2, <1>5, <1>6, <1>7, <1>8, DeallocateIsExact
<1>10. Len(list'.nodes) <= setCalls'
  <2>1. Len(list'.nodes) = Len(list.nodes) - 1
    BY <1>4 DEF Removed
  <2> QED BY <1>2, <2>1
<1> QED BY <1>2, <1>4, <1>5, <1>9, <1>10 DEF SetHolds

LEMMA ClearKeepsSetInv == SetInv /\ clear => SetInv'
<1> SUFFICES ASSUME SetInv, clear, ~inFront' PROVE SetHolds(list, pool, heap, setCalls, map)'
  BY DEF SetInv
<1>1. ~inFront
  BY DEF clear
<1>2. /\ IsHashed(list, SetData) /\ IsExact(list, pool, heap, setCalls) /\ Holds(list, map)
      /\ setCalls \in Nat /\ setCalls < MaxSetCalls /\ setCalls' = setCalls + 1
      /\ setCalls' \in 0..MaxSetCalls
  <2>1. /\ IsHashed(list, SetData) /\ IsExact(list, pool, heap, setCalls) /\ Holds(list, map)
        /\ setCalls \in 0..MaxSetCalls
        /\ setCalls < MaxSetCalls /\ setCalls' = setCalls + 1
    BY <1>1 DEF SetInv, SetHolds, clear, Call
  <2> QED BY <2>1, SetAssumptions
<1> DEFINE a == [i \in DOMAIN list.nodes |-> list.nodes[i].at]
           len == Len(list.nodes)
<1>3. list' = EmptyList /\ map' = <<>> /\ deallocate(a)
  BY DEF clear
<1>4. IsHashed(list', SetData) /\ Ats(list') = {} /\ list'.nodes = <<>>
  <2>1. EmptyList.nodes = <<>>
    BY DEF EmptyList
  <2> QED BY <1>3, <2>1, EmptyIsHashed
<1>5. Holds(list', map')
  <2>1. Len(<<>>) = 0 /\ 1..0 = {} /\ DOMAIN <<>> = {}
    OBVIOUS
  <2> QED BY <1>3, <1>4, <2>1, FS_EmptySet DEF Holds
<1>6. pool' = pool \o Kept(a, pool) /\ heap' = heap \ (ToSet(a) \ ToSet(Kept(a, pool)))
  BY <1>3 DEF deallocate, Kept
<1>7. /\ len \in Nat /\ DOMAIN list.nodes = 1..len /\ Ats(list) = {list.nodes[i].at : i \in 1..len}
      /\ \A i \in 1..len : list.nodes[i].at \in Nat
      /\ \A i, j \in 1..len : list.nodes[i].at = list.nodes[j].at => i = j
  BY <1>2, HashedListIs DEF IsHashed, Ats
<1> HIDE DEF len
<1>8. /\ a \in Seq(Nat) /\ Range(a) = Ats(list)
      /\ \A x, y \in 1..Len(a) : a[x] = a[y] => x = y
  <2>1. a \in [1..len -> Nat] /\ \A x \in 1..len : a[x] = list.nodes[x].at
    BY <1>7
  <2> HIDE DEF a
  <2>2. a \in Seq(Nat) /\ Len(a) = len /\ DOMAIN a = 1..len
    BY <1>7, <2>1, FunctionIsSeq
  <2>3. Range(a) = {a[x] : x \in 1..len}
    BY <2>2 DEF Range
  <2>4. {a[x] : x \in 1..len} = {list.nodes[x].at : x \in 1..len}
    BY <2>1
  <2>5. \A x, y \in 1..len : a[x] = a[y] => x = y
    BY <1>7, <2>1
  <2> QED BY <1>7, <2>2, <2>3, <2>4, <2>5
<1> HIDE DEF a
<1>9. Ats(list') = Ats(list) \ Range(a)
  BY <1>4, <1>8
<1>10. IsExact(list', pool', heap', setCalls')
  BY <1>2, <1>6, <1>8, <1>9, DeallocateIsExact
<1>11. Len(list'.nodes) <= setCalls'
  BY <1>2, <1>4
<1> QED BY <1>2, <1>4, <1>5, <1>10, <1>11 DEF SetHolds

LEMMA CopyKeepsSetInv == SetInv /\ copy => SetInv'
<1> SUFFICES ASSUME SetInv, copy, ~inFront' PROVE SetHolds(list, pool, heap, setCalls, map)'
  BY DEF SetInv
<1>1. ~inFront
  BY DEF copy
<1> DEFINE len == Len(list.nodes)
<1>2. /\ IsHashed(list, SetData) /\ Holds(list, map)
      /\ setCalls \in Nat /\ setCalls < MaxSetCalls /\ setCalls' = setCalls + 1
      /\ setCalls' \in 0..MaxSetCalls /\ len \in Nat /\ len <= setCalls /\ Len(list.nodes) = len
      /\ MaxSetCalls \in Nat /\ MaxPoolSize \in Nat
  <2>1. /\ IsHashed(list, SetData) /\ Holds(list, map)
        /\ setCalls \in 0..MaxSetCalls /\ Len(list.nodes) <= setCalls
        /\ setCalls < MaxSetCalls /\ setCalls' = setCalls + 1
    BY <1>1 DEF SetInv, SetHolds, copy, Call
  <2> QED BY <2>1, SetAssumptions, HashedListIs
<1>3. list' = ListOf(Copied(list)) /\ heap' = 1..len /\ pool' = <<>> /\ map' = map
  BY DEF copy, Copied
<1> HIDE DEF len
<1>4. /\ IsHashed(list', SetData) /\ Len(list'.nodes) = len
      /\ \A i \in 1..len : list'.nodes[i] = Node(i, list.nodes[i].key, list.nodes[i].data)
  BY <1>2, <1>3, CopyIsHashed
<1>5. \A i \in 1..len : /\ list'.nodes[i].at = i /\ list'.nodes[i].key = list.nodes[i].key
                        /\ list'.nodes[i].data = list.nodes[i].data
  <2>1. \A i \in 1..len : list'.nodes[i] = [at |-> i, key |-> list.nodes[i].key, data |-> list.nodes[i].data]
    BY <1>4 DEF Node
  <2>2. ASSUME NEW i \in 1..len
        PROVE  /\ list'.nodes[i].at = i /\ list'.nodes[i].key = list.nodes[i].key
               /\ list'.nodes[i].data = list.nodes[i].data
    <3>1. list'.nodes[i] = [at |-> i, key |-> list.nodes[i].key, data |-> list.nodes[i].data]
      BY <2>1
    <3> QED BY ONLY <3>1
  <2> QED BY <2>2
<1>6. Holds(list', map')
  <2>1. /\ DOMAIN map = {list.nodes[i].key : i \in 1..len}
        /\ \A i \in 1..len : map[list.nodes[i].key] = list.nodes[i].data
        /\ IsFiniteSet(DOMAIN map) /\ Cardinality(DOMAIN map) = len
    BY <1>2 DEF Holds
  <2>2. {list'.nodes[i].key : i \in 1..len} = {list.nodes[i].key : i \in 1..len}
    BY <1>5
  <2>3. \A i \in 1..len : map[list'.nodes[i].key] = list'.nodes[i].data
    BY <1>5, <2>1
  <2> QED BY <1>3, <1>4, <2>1, <2>2, <2>3 DEF Holds
<1>7. Ats(list') = 1..len
  BY <1>4, <1>5 DEF Ats
<1>8. Cardinality(1..len) = len
  <2>1. 1 \in Int /\ len \in Int /\ len - 1 + 1 = len /\ (1 > len => len = 0)
    BY <1>2
  <2>2. Cardinality(1..len) = IF 1 > len THEN 0 ELSE len - 1 + 1
    BY <2>1, FS_Interval
  <2> QED BY <2>1, <2>2
<1>9. IsExact(list', pool', heap', setCalls')
  <2>1. /\ <<>> \in Seq(Nat) /\ Len(<<>>) = 0 /\ 1..0 = {} /\ DOMAIN <<>> = {}
    OBVIOUS
  <2>2. Range(<<>>) = {}
    BY <2>1 DEF Range
  <2>3. 1..len \subseteq NodeAddresses /\ len <= setCalls'
    BY <1>2 DEF NodeAddresses
  <2> QED BY <1>2, <1>3, <1>7, <1>8, <2>1, <2>2, <2>3 DEF IsExact
<1>10. Len(list'.nodes) <= setCalls'
  BY <1>2, <1>4
<1> QED BY <1>2, <1>4, <1>6, <1>9, <1>10 DEF SetHolds

LEMMA SetInvNext == SetInv /\ [SetNext]_setVars => SetInv'
<1> SUFFICES ASSUME SetInv, [SetNext]_setVars PROVE SetInv'
  OBVIOUS
<1>1. CASE \E key \in SetKeys, data \in SetData, overwrite \in BOOLEAN : insert(key, data, overwrite)
  BY <1>1, InsertKeepsSetInv
<1>2. CASE \E i \in DOMAIN list.nodes : erase(i)
  BY <1>2, EraseKeepsSetInv
<1>3. CASE \E key \in SetKeys : erase_key(key)
  <2>1. PICK key \in SetKeys : erase_key(key)
    BY <1>3
  <2>2. PICK i \in find(list, key) : erase(i)
    BY <2>1 DEF erase_key
  <2>3. CASE inFront
    <3>1. inFront'
      BY <2>2, <2>3 DEF erase
    <3> QED BY <3>1 DEF SetInv
  <2>4. CASE ~inFront
    <3>1. IsHashed(list, SetData) /\ key \in Nat
      BY <2>4, SetAssumptions DEF SetInv, SetHolds
    <3>2. i \in DOMAIN list.nodes
      BY <3>1, FindIsRight, HashedListIs
    <3> QED BY <2>2, <3>2, EraseKeepsSetInv
  <2> QED BY <2>3, <2>4
<1>4. CASE clear
  BY <1>4, ClearKeepsSetInv
<1>5. CASE copy
  BY <1>5, CopyKeepsSetInv
<1>6. CASE UNCHANGED setVars
  BY <1>6 DEF SetInv, setVars
<1> QED BY <1>1, <1>2, <1>3, <1>4, <1>5, <1>6 DEF SetNext

\* An attribute set whose nodes were never put in front of their bucket is the
\* map of the same calls, whatever the size of the table and of the pool: find
\* follows the bounds of the buckets through insertions, erasures, clear and copies.
THEOREM OrderedAttributeSetsAreMaps == SetSpec => []OrderedSetIsAMap
<1>1. SetInv => OrderedSetIsAMap
  <2> SUFFICES ASSUME SetInv, ~inFront
               PROVE  /\ Keys(list) = DOMAIN map
                      /\ Len(list.nodes) = Cardinality(DOMAIN map)
                      /\ \A key \in SetKeys :
                            /\ Walkable(list, get_bucket(key))
                            /\ {list.nodes[i].data : i \in find(list, key)} = {map[k] : k \in DOMAIN map \cap {key}}
    BY DEF OrderedSetIsAMap
  <2>1. IsHashed(list, SetData) /\ Holds(list, map)
    BY DEF SetInv, SetHolds
  <2>2. DOMAIN list.nodes = 1..Len(list.nodes)
    BY <2>1, HashedListIs
  <2>3. Keys(list) = DOMAIN map /\ Len(list.nodes) = Cardinality(DOMAIN map)
    BY <2>1, <2>2 DEF Keys, Holds
  <2>4. ASSUME NEW key \in SetKeys
        PROVE  /\ Walkable(list, get_bucket(key))
               /\ {list.nodes[i].data : i \in find(list, key)} = {map[k] : k \in DOMAIN map \cap {key}}
    <3>1. key \in Nat
      BY SetAssumptions
    <3>2. Walkable(list, get_bucket(key))
      BY <2>1, <3>1, FindIsRight
    <3>3. {list.nodes[i].data : i \in find(list, key)} = {map[k] : k \in DOMAIN map \cap {key}}
      BY <2>1, <3>1, FoundIsInTheMap
    <3> QED BY <3>2, <3>3
  <2> QED BY <2>3, <2>4
<1> QED BY <1>1, SetInvInit, SetInvNext, PTL DEF SetSpec

-------------------------------------------------------------------------------
(***************************************************************************)
(* The named scopes.  The invariant names the place of every node: the     *)
(* i-th scope of the thread is on the stack at depth i, the i-th element   *)
(* of another list is the i-th of one block, the root is before the first  *)
(* and behind the last.  The links of a list lead from each place to the   *)
(* next and back, no block has two lists, and no node exists that has no   *)
(* place.                                                                  *)
(***************************************************************************)

\* The names of nodes, and what a node holds.
NodeIds == Roots \cup {OnStack(d) : d \in Nat} \cup {InBlock(b, i) : b \in Nat, i \in Nat}
LinkRecs == [prev : NodeIds, next : NodeIds, name : ScopeNames \cup {"root"}]

\* The node at each place of a list with k elements; the root is in front of the
\* first and behind the last one.
Place(l, b, k, i) == IF i \in 1..k THEN IF l = "scopes" THEN OnStack(i) ELSE InBlock(b, i) ELSE Root(l)

\* The links of a list lead round, both ways, through the scopes s.
Ring(mem, l, b, s) ==
    \A i \in 0..Len(s) :
        /\ mem[Place(l, b, Len(s), i)].next = Place(l, b, Len(s), i + 1)
        /\ mem[Place(l, b, Len(s), i + 1)].prev = Place(l, b, Len(s), i)
        /\ i > 0 => mem[Place(l, b, Len(s), i)].name = s[i]

\* No block belongs to two lists.
Separate(size, blk) ==
    \A l, m \in Lists \ {"scopes"} : size[l] > 0 /\ size[m] > 0 /\ blk[l] = blk[m] => l = m

LEMMA NodesDiffer ==
    /\ \A l, m : Root(l) = Root(m) => l = m
    /\ \A i, j : OnStack(i) = OnStack(j) => i = j
    /\ \A b, c, i, j : InBlock(b, i) = InBlock(c, j) => b = c /\ i = j
    /\ \A l, i : Root(l) # OnStack(i)
    /\ \A l, b, i : Root(l) # InBlock(b, i)
    /\ \A b, i, j : OnStack(i) # InBlock(b, j)
<1>1. ASSUME NEW l, NEW m, Root(l) = Root(m) PROVE l = m
  <2>1. Root(l).list = l /\ Root(m).list = m
    BY DEF Root
  <2> QED BY <1>1, <2>1
<1>2. ASSUME NEW i, NEW j, OnStack(i) = OnStack(j) PROVE i = j
  <2>1. OnStack(i).depth = i /\ OnStack(j).depth = j
    BY DEF OnStack
  <2> QED BY <1>2, <2>1
<1>3. ASSUME NEW b, NEW c, NEW i, NEW j, InBlock(b, i) = InBlock(c, j) PROVE b = c /\ i = j
  <2>1. InBlock(b, i).block = b /\ InBlock(b, i).i = i /\ InBlock(c, j).block = c /\ InBlock(c, j).i = j
    BY DEF InBlock
  <2> QED BY <1>3, <2>1
<1>4. /\ \A l : Root(l).of = "root"
      /\ \A i : OnStack(i).of = "stack"
      /\ \A b, i : InBlock(b, i).of = "block"
  BY DEF Root, OnStack, InBlock
<1>5. "root" # "stack" /\ "root" # "block" /\ "stack" # "block"
  OBVIOUS
<1>6. \A l, i : Root(l) # OnStack(i)
  BY <1>4, <1>5
<1>7. \A l, b, i : Root(l) # InBlock(b, i)
  BY <1>4, <1>5
<1>8. \A b, i, j : OnStack(i) # InBlock(b, j)
  BY <1>4, <1>5
<1> QED BY <1>1, <1>2, <1>3, <1>6, <1>7, <1>8

LEMMA PlaceIs ==
    ASSUME NEW l, NEW b, NEW k \in Nat
    PROVE  /\ Place(l, b, k, 0) = Root(l) /\ Place(l, b, k, k + 1) = Root(l)
           /\ \A i \in 1..k : /\ l = "scopes" => Place(l, b, k, i) = OnStack(i)
                              /\ l # "scopes" => Place(l, b, k, i) = InBlock(b, i)
BY DEF Place

LEMMA PlacesOfOneDiffer ==
    ASSUME NEW l, NEW b, NEW k \in Nat, NEW i \in 0..k, NEW j \in 0..k,
           Place(l, b, k, i) = Place(l, b, k, j)
    PROVE  i = j
<1>1. (i = 0 \/ i \in 1..k) /\ (j = 0 \/ j \in 1..k)
  OBVIOUS
<1>2. Place(l, b, k, 0) = Root(l) /\ Place(l, b, k, i) = Place(l, b, k, j)
  BY PlaceIs
<1>3. CASE l = "scopes"
  <2>1. \A x \in 1..k : Place(l, b, k, x) = OnStack(x)
    BY <1>3, PlaceIs
  <2> QED BY ONLY <1>1, <1>2, <2>1, NodesDiffer
<1>4. CASE l # "scopes"
  <2>1. \A x \in 1..k : Place(l, b, k, x) = InBlock(b, x)
    BY <1>4, PlaceIs
  <2> QED BY ONLY <1>1, <1>2, <2>1, NodesDiffer
<1> QED BY <1>3, <1>4

\* Different lists have no node in common.
LEMMA PlacesDiffer ==
    ASSUME NEW size \in [Lists -> Nat], NEW blk, Separate(size, blk), NEW l \in Lists, NEW m \in Lists,
           NEW i \in 0..size[l], NEW j \in 0..size[m],
           Place(l, blk[l], size[l], i) = Place(m, blk[m], size[m], j)
    PROVE  l = m
<1>1. size[l] \in Nat /\ size[m] \in Nat
  OBVIOUS
<1>2. i = 0 \/ (i \in 1..size[l] /\ size[l] > 0)
  BY <1>1
<1>3. j = 0 \/ (j \in 1..size[m] /\ size[m] > 0)
  BY <1>1
<1>4. /\ i = 0 => Place(l, blk[l], size[l], i) = Root(l)
      /\ i \in 1..size[l] => /\ l = "scopes" => Place(l, blk[l], size[l], i) = OnStack(i)
                             /\ l # "scopes" => Place(l, blk[l], size[l], i) = InBlock(blk[l], i)
      /\ j = 0 => Place(m, blk[m], size[m], j) = Root(m)
      /\ j \in 1..size[m] => /\ m = "scopes" => Place(m, blk[m], size[m], j) = OnStack(j)
                             /\ m # "scopes" => Place(m, blk[m], size[m], j) = InBlock(blk[m], j)
  BY <1>1, PlaceIs
<1>5. Place(l, blk[l], size[l], i) = Place(m, blk[m], size[m], j)
  OBVIOUS
<1>6. CASE i = 0
  BY <1>3, <1>4, <1>5, <1>6, NodesDiffer
<1>7. CASE i \in 1..size[l] /\ size[l] > 0
  <2>1. j \in 1..size[m] /\ size[m] > 0
    BY <1>3, <1>4, <1>5, <1>7, NodesDiffer
  <2>2. CASE l = "scopes"
    BY <1>4, <1>5, <1>7, <2>1, <2>2, NodesDiffer
  <2>3. CASE l # "scopes"
    <3>1. m # "scopes" /\ blk[l] = blk[m]
      BY <1>4, <1>5, <1>7, <2>1, <2>3, NodesDiffer
    <3> QED BY <1>7, <2>1, <2>3, <3>1 DEF Separate
  <2> QED BY <2>2, <2>3
<1> QED BY <1>2, <1>6, <1>7

\* A node keeps its links.
Same(new, mem, x) == new[x].next = mem[x].next /\ new[x].prev = mem[x].prev /\ new[x].name = mem[x].name

\* A list whose nodes keep their links keeps its ring.
LEMMA RingStays ==
    ASSUME NEW mem, NEW new, NEW l, NEW b, NEW s \in Seq(ScopeNames), Ring(mem, l, b, s),
           \A i \in 0..Len(s) : Same(new, mem, Place(l, b, Len(s), i))
    PROVE  Ring(new, l, b, s)
<1> DEFINE k == Len(s)
<1>1. k \in Nat
  OBVIOUS
<1>2. \A i \in 0..k : i + 1 \in 0..k \/ Place(l, b, k, i + 1) = Place(l, b, k, 0)
  <2> HIDE DEF k
  <2>1. ASSUME NEW i \in 0..k PROVE i + 1 \in 0..k \/ i + 1 = k + 1
    BY <1>1
  <2> QED BY <1>1, <2>1, PlaceIs
<1>3. \A i \in 0..k : Same(new, mem, Place(l, b, k, i + 1))
  <2>1. 0 \in 0..k
    BY <1>1
  <2> QED BY <1>2, <2>1
<1> QED BY <1>3 DEF Ring, Same

-------------------------------------------------------------------------------
\* The nodes p are linked one after the other.
Leads(mem, field, K, p) == \A i \in 1..K : mem[p[i - 1]][field] = p[i]

\* What an iterator meets then.
LEMMA WalkGoes ==
    ASSUME NEW mem, NEW field, NEW K \in Nat, NEW V, NEW p \in [0..K -> V],
           Leads(mem, field, K, p)
    PROVE  \A i \in 0..K : Walk(mem, p[0], field, K)[i] = p[i]
<1> DEFINE IsWalk(f) == f = [i \in 0..K |-> IF i = 0 THEN p[0] ELSE mem[f[i - 1]][field]]
           w == CHOOSE f : IsWalk(f)
<1>1. IsWalk(p)
  <2>1. p = [i \in 0..K |-> p[i]]
    OBVIOUS
  <2>2. \A i \in 0..K : p[i] = IF i = 0 THEN p[0] ELSE mem[p[i - 1]][field]
    BY DEF Leads
  <2> QED BY <2>1, <2>2
<1>2. IsWalk(w)
  BY <1>1
<1>3. Walk(mem, p[0], field, K) = w
  BY DEF Walk
<1> HIDE DEF w
<1>4. w[0] = p[0] /\ \A i \in 1..K : w[i] = mem[w[i - 1]][field]
  BY <1>2
<1> HIDE DEF IsWalk
<1> DEFINE Off == {i \in 0..K : w[i] # p[i]}
<1>5. Off = {}
  <2> SUFFICES ASSUME Off # {} PROVE FALSE
    OBVIOUS
  <2>1. Off \subseteq Nat
    OBVIOUS
  <2> HIDE DEF Off
  <2>2. PICK x \in Off : \A y \in Off : x <= y
    BY <2>1, LeastElement
  <2>3. x \in 0..K /\ w[x] # p[x]
    BY DEF Off
  <2>4. x \in 1..K /\ x - 1 \in 0..K
    BY <1>4, <2>3
  <2>5. x - 1 \notin Off
    BY <2>2, <2>4
  <2>6. w[x - 1] = p[x - 1]
    BY <2>4, <2>5 DEF Off
  <2> QED BY <1>4, <2>3, <2>4, <2>6 DEF Leads
<1> QED BY <1>3, <1>5

\* Forwards and backwards, an iterator meets the places of the list.
LEMMA WalksRound ==
    ASSUME NEW mem, NEW l, NEW b, NEW s \in Seq(ScopeNames), Ring(mem, l, b, s), NEW k, k = Len(s)
    PROVE  /\ \A i \in 0..k : Walk(mem, Root(l), "next", k)[i] = Place(l, b, k, i)
           /\ \A i \in 0..(k + 1) : Walk(mem, Root(l), "next", k + 1)[i] = Place(l, b, k, i)
           /\ \A i \in 0..(k + 1) : Walk(mem, Root(l), "prev", k + 1)[i] = Place(l, b, k, k + 1 - i)
<1>1. k \in Nat /\ k + 1 \in Nat
  OBVIOUS
<1>2. \A i \in 0..k : /\ mem[Place(l, b, k, i)].next = Place(l, b, k, i + 1)
                      /\ mem[Place(l, b, k, i + 1)].prev = Place(l, b, k, i)
  BY DEF Ring
<1>3. Place(l, b, k, 0) = Root(l) /\ Place(l, b, k, k + 1) = Root(l)
  BY <1>1, PlaceIs
<1>4. ASSUME NEW K \in {k, k + 1} PROVE \A i \in 0..K : Walk(mem, Root(l), "next", K)[i] = Place(l, b, k, i)
  <2> DEFINE p == [i \in 0..K |-> Place(l, b, k, i)]
             V == {Place(l, b, k, i) : i \in 0..K}
  <2>1. K \in Nat /\ p \in [0..K -> V]
    BY <1>1
  <2>2. p[0] = Root(l) /\ \A i \in 0..K : p[i] = Place(l, b, k, i)
    BY <1>3, <2>1
  <2>3. ASSUME NEW i \in 1..K PROVE mem[p[i - 1]]["next"] = p[i]
    <3>1. i - 1 \in 0..k /\ i - 1 \in 0..K /\ i \in 0..K /\ i - 1 + 1 = i
      BY <1>1
    <3>2. p[i - 1] = Place(l, b, k, i - 1) /\ p[i] = Place(l, b, k, i)
      BY <2>2, <3>1
    <3>3. mem[Place(l, b, k, i - 1)].next = Place(l, b, k, i - 1 + 1)
      BY <1>2, <3>1
    <3> QED BY <3>1, <3>2, <3>3
  <2> HIDE DEF p, V
  <2>4. Leads(mem, "next", K, p)
    BY <2>3 DEF Leads
  <2>5. \A i \in 0..K : Walk(mem, p[0], "next", K)[i] = p[i]
    BY ONLY <2>1, <2>4, WalkGoes
  <2> QED BY <2>2, <2>5
<1>5. \A i \in 0..(k + 1) : Walk(mem, Root(l), "prev", k + 1)[i] = Place(l, b, k, k + 1 - i)
  <2>1. PICK K : K = k + 1
    OBVIOUS
  <2> DEFINE p == [i \in 0..K |-> Place(l, b, k, k + 1 - i)]
             V == {Place(l, b, k, k + 1 - i) : i \in 0..K}
  <2>2. K \in Nat /\ p \in [0..K -> V]
    BY <1>1, <2>1
  <2>3. p[0] = Root(l) /\ \A i \in 0..K : p[i] = Place(l, b, k, k + 1 - i)
    <3>1. 0 \in 0..K /\ k + 1 - 0 = k + 1
      BY <1>1, <2>1
    <3> QED BY <1>3, <3>1
  <2>4. ASSUME NEW i \in 1..K PROVE mem[p[i - 1]]["prev"] = p[i]
    <3>1. /\ k + 1 - i \in 0..k /\ i - 1 \in 0..K /\ i \in 0..K
          /\ k + 1 - i + 1 = k + 1 - (i - 1)
      BY <1>1, <2>1
    <3>2. p[i - 1] = Place(l, b, k, k + 1 - (i - 1)) /\ p[i] = Place(l, b, k, k + 1 - i)
      BY <2>3, <3>1
    <3>3. mem[Place(l, b, k, k + 1 - i + 1)].prev = Place(l, b, k, k + 1 - i)
      BY <1>2, <3>1
    <3> QED BY <3>1, <3>2, <3>3
  <2> HIDE DEF p, V
  <2>5. Leads(mem, "prev", K, p)
    BY <2>4 DEF Leads
  <2>6. \A i \in 0..K : Walk(mem, p[0], "prev", K)[i] = p[i]
    BY ONLY <2>2, <2>5, WalkGoes
  <2> QED BY <2>1, <2>3, <2>6
<1> QED BY <1>4, <1>5

\* The nodes that exist.
Cells(size, blk) == UNION {{Place(l, blk[l], size[l], i) : i \in 0..size[l]} : l \in Lists}

Books(size, need, cont, blk, calls) ==
    /\ size \in [Lists -> Nat] /\ need \in [Lists -> BOOLEAN] /\ cont \in [Lists -> Seq(ScopeNames)]
    /\ blk \in [Lists -> Nat] /\ calls \in Nat
    /\ \A l \in Lists : /\ Len(cont[l]) = size[l]
                        /\ need[l] <=> l # "scopes" /\ size[l] > 0
                        /\ l # "scopes" /\ size[l] > 0 => blk[l] < calls
    /\ Separate(size, blk)

\* Every list is a ring of its scopes, and no node exists besides.
Shape(mem, size, need, cont, blk, calls) ==
    /\ Books(size, need, cont, blk, calls)
    /\ mem \in [Cells(size, blk) -> LinkRecs]
    /\ \A l \in Lists : Ring(mem, l, blk[l], cont[l])

NSInv ==
    /\ \E blk : Shape(links, m_Size, needToDeallocate, contents, blk, nsCalls)
    /\ pushed \in {"no", "open", "detached"}
    /\ pushed # "detached" => m_Size["detached"] = 0

LEMMA CellsAre ==
    ASSUME NEW size \in [Lists -> Nat], NEW blk
    PROVE  /\ \A l \in Lists : \A i \in 0..size[l] : Place(l, blk[l], size[l], i) \in Cells(size, blk)
           /\ \A l \in Lists : Root(l) \in Cells(size, blk)
           /\ \A n \in Cells(size, blk) : \E l \in Lists : \E i \in 0..size[l] : n = Place(l, blk[l], size[l], i)
<1>1. \A l \in Lists : \A i \in 0..size[l] : Place(l, blk[l], size[l], i) \in Cells(size, blk)
  BY DEF Cells
<1>2. ASSUME NEW l \in Lists PROVE Root(l) \in Cells(size, blk)
  <2>1. size[l] \in Nat /\ 0 \in 0..size[l]
    OBVIOUS
  <2>2. Place(l, blk[l], size[l], 0) = Root(l)
    BY <2>1, PlaceIs
  <2> QED BY <1>1, <2>1, <2>2
<1>3. \A n \in Cells(size, blk) : \E l \in Lists : \E i \in 0..size[l] : n = Place(l, blk[l], size[l], i)
  BY DEF Cells
<1> QED BY <1>1, <1>2, <1>3

\* A cell is of one of three kinds.
IsCell(n, size, blk) ==
    \/ \E l \in Lists : n = Root(l)
    \/ \E i \in 1..size["scopes"] : n = OnStack(i)
    \/ \E l \in Lists \ {"scopes"} : \E i \in 1..size[l] : n = InBlock(blk[l], i)

LEMMA KindsOfCells ==
    ASSUME NEW size \in [Lists -> Nat], NEW blk
    PROVE  \A n : n \in Cells(size, blk) <=> IsCell(n, size, blk)
<1>1. ASSUME NEW n \in Cells(size, blk) PROVE IsCell(n, size, blk)
  <2>1. PICK l \in Lists : \E i \in 0..size[l] : n = Place(l, blk[l], size[l], i)
    BY CellsAre
  <2>2. PICK i \in 0..size[l] : n = Place(l, blk[l], size[l], i)
    BY <2>1
  <2>3. size[l] \in Nat /\ (i = 0 \/ i \in 1..size[l])
    OBVIOUS
  <2>4. /\ i = 0 => n = Root(l)
        /\ i \in 1..size[l] /\ l = "scopes" => n = OnStack(i)
        /\ i \in 1..size[l] /\ l # "scopes" => n = InBlock(blk[l], i)
    BY <2>2, <2>3, PlaceIs
  <2> QED BY <2>3, <2>4 DEF IsCell
<1>2. ASSUME NEW n, IsCell(n, size, blk) PROVE n \in Cells(size, blk)
  <2>1. CASE \E l \in Lists : n = Root(l)
    BY <2>1, CellsAre
  <2>2. CASE \E i \in 1..size["scopes"] : n = OnStack(i)
    <3>1. PICK i \in 1..size["scopes"] : n = OnStack(i)
      BY <2>2
    <3>2. "scopes" \in Lists /\ size["scopes"] \in Nat /\ i \in 0..size["scopes"]
      BY DEF Lists
    <3>3. n = Place("scopes", blk["scopes"], size["scopes"], i)
      BY <3>1, <3>2, PlaceIs
    <3> QED BY <3>2, <3>3, CellsAre
  <2>3. CASE \E l \in Lists \ {"scopes"} : \E i \in 1..size[l] : n = InBlock(blk[l], i)
    <3>1. PICK l \in Lists \ {"scopes"} : \E i \in 1..size[l] : n = InBlock(blk[l], i)
      BY <2>3
    <3>2. PICK i \in 1..size[l] : n = InBlock(blk[l], i)
      BY <3>1
    <3>3. size[l] \in Nat /\ i \in 0..size[l]
      OBVIOUS
    <3>4. n = Place(l, blk[l], size[l], i)
      BY <3>2, <3>3, PlaceIs
    <3> QED BY <3>3, <3>4, CellsAre
  <2> QED BY <1>2, <2>1, <2>2, <2>3 DEF IsCell
<1> QED BY <1>1, <1>2

LEMMA CellsAreNodes ==
    ASSUME NEW size \in [Lists -> Nat], NEW blk \in [Lists -> Nat]
    PROVE  Cells(size, blk) \subseteq NodeIds
<1>1. ASSUME NEW n \in Cells(size, blk) PROVE n \in NodeIds
  <2>1. IsCell(n, size, blk)
    BY KindsOfCells
  <2>2. CASE \E l \in Lists : n = Root(l)
    BY <2>2 DEF NodeIds, Roots
  <2>3. CASE \E i \in 1..size["scopes"] : n = OnStack(i)
    <3>1. "scopes" \in Lists /\ size["scopes"] \in Nat
      BY DEF Lists
    <3> QED BY <2>3, <3>1 DEF NodeIds
  <2>4. CASE \E l \in Lists \ {"scopes"} : \E i \in 1..size[l] : n = InBlock(blk[l], i)
    BY <2>4 DEF NodeIds
  <2> QED BY <2>1, <2>2, <2>3, <2>4 DEF IsCell
<1> QED BY <1>1

-------------------------------------------------------------------------------
\* What an assignment to a link does.
LEMMA AssignsNext ==
    ASSUME NEW D, NEW mem \in [D -> LinkRecs], NEW n \in D, NEW v \in NodeIds
    PROVE  /\ Assign(mem, n, "next", v) \in [D -> LinkRecs]
           /\ \A x \in D : /\ Assign(mem, n, "next", v)[x].next = IF x = n THEN v ELSE mem[x].next
                           /\ Assign(mem, n, "next", v)[x].prev = mem[x].prev
                           /\ Assign(mem, n, "next", v)[x].name = mem[x].name
<1>1. Assign(mem, n, "next", v) = [mem EXCEPT ![n] = [mem[n] EXCEPT !["next"] = v]]
  BY DEF Assign
<1> DEFINE r == [mem[n] EXCEPT !["next"] = v]
<1>2. r \in LinkRecs /\ r.next = v /\ r.prev = mem[n].prev /\ r.name = mem[n].name
  BY DEF LinkRecs
<1> HIDE DEF r
<1> QED BY <1>1, <1>2 DEF r

LEMMA AssignsPrev ==
    ASSUME NEW D, NEW mem \in [D -> LinkRecs], NEW n \in D, NEW v \in NodeIds
    PROVE  /\ Assign(mem, n, "prev", v) \in [D -> LinkRecs]
           /\ \A x \in D : /\ Assign(mem, n, "prev", v)[x].next = mem[x].next
                           /\ Assign(mem, n, "prev", v)[x].prev = IF x = n THEN v ELSE mem[x].prev
                           /\ Assign(mem, n, "prev", v)[x].name = mem[x].name
<1>1. Assign(mem, n, "prev", v) = [mem EXCEPT ![n] = [mem[n] EXCEPT !["prev"] = v]]
  BY DEF Assign
<1> DEFINE r == [mem[n] EXCEPT !["prev"] = v]
<1>2. r \in LinkRecs /\ r.prev = v /\ r.next = mem[n].next /\ r.name = mem[n].name
  BY DEF LinkRecs
<1> HIDE DEF r
<1> QED BY <1>1, <1>2 DEF r

-------------------------------------------------------------------------------
\* What the invariant is for.
LEMMA ShapeIsIntact == NSInv => ScopeListsAreIntact
<1> SUFFICES ASSUME NSInv PROVE ScopeListsAreIntact
  OBVIOUS
<1>1. PICK blk : Shape(links, m_Size, needToDeallocate, contents, blk, nsCalls)
  BY DEF NSInv
<1>2. /\ Books(m_Size, needToDeallocate, contents, blk, nsCalls)
      /\ links \in [Cells(m_Size, blk) -> LinkRecs]
      /\ \A l \in Lists : Ring(links, l, blk[l], contents[l])
  BY <1>1 DEF Shape
<1>3. /\ m_Size \in [Lists -> Nat] /\ contents \in [Lists -> Seq(ScopeNames)]
      /\ \A l \in Lists : Len(contents[l]) = m_Size[l] /\ (needToDeallocate[l] <=> l # "scopes" /\ m_Size[l] > 0)
      /\ Separate(m_Size, blk)
  BY <1>2 DEF Books
<1>4. ASSUME NEW ls \in Lists, NEW k, k = m_Size[ls],
             NEW forth, forth = Walk(links, Root(ls), "next", k + 1),
             NEW back, back = Walk(links, Root(ls), "prev", k + 1)
      PROVE  /\ k = Len(contents[ls])
             /\ forth[k + 1] = Root(ls) /\ back[k + 1] = Root(ls)
             /\ \A i \in 1..k : /\ links[forth[i]].name = contents[ls][i]
                                /\ back[i] = forth[k + 1 - i]
  <2> DEFINE b == blk[ls]
             s == contents[ls]
  <2>1. s \in Seq(ScopeNames) /\ k = Len(s) /\ k \in Nat /\ Ring(links, ls, b, s)
    BY <1>2, <1>3, <1>4
  <2> HIDE DEF b, s
  <2>2. /\ \A i \in 0..(k + 1) : forth[i] = Place(ls, b, k, i)
        /\ \A i \in 0..(k + 1) : back[i] = Place(ls, b, k, k + 1 - i)
    BY <1>4, <2>1, WalksRound
  <2>3. Place(ls, b, k, 0) = Root(ls) /\ Place(ls, b, k, k + 1) = Root(ls)
    BY <2>1, PlaceIs
  <2>4. k + 1 \in 0..(k + 1) /\ k + 1 - (k + 1) = 0
    BY <2>1
  <2>5. forth[k + 1] = Root(ls) /\ back[k + 1] = Root(ls)
    BY <2>2, <2>3, <2>4
  <2>6. ASSUME NEW i \in 1..k
        PROVE  links[forth[i]].name = s[i] /\ back[i] = forth[k + 1 - i]
    <3>1. i \in 0..k /\ i > 0 /\ i \in 0..(k + 1) /\ k + 1 - i \in 0..(k + 1)
      BY <2>1
    <3>2. links[Place(ls, b, k, i)].name = s[i]
      BY <2>1, <3>1 DEF Ring
    <3> QED BY <2>2, <3>1, <3>2
  <2> QED BY <2>1, <2>5, <2>6 DEF s
<1>5. ASSUME NEW n \in DOMAIN links, n.of = "block"
      PROVE  Cardinality({ls \in Lists : needToDeallocate[ls] /\ links[Root(ls)].next = InBlock(n.block, 1)}) = 1
  <2>1. n \in Cells(m_Size, blk)
    BY <1>2
  <2>2. PICK l \in Lists \ {"scopes"} : \E i \in 1..m_Size[l] : n = InBlock(blk[l], i)
    <3>1. (\A m : Root(m).of = "root") /\ (\A i : OnStack(i).of = "stack")
      BY DEF Root, OnStack
    <3>2. ~\E m \in Lists : n = Root(m)
      BY <1>5, <3>1
    <3>3. ~\E i \in 1..m_Size["scopes"] : n = OnStack(i)
      BY <1>5, <3>1
    <3>4. IsCell(n, m_Size, blk)
      BY <1>3, <2>1, KindsOfCells
    <3> QED BY ONLY <3>2, <3>3, <3>4 DEF IsCell
  <2>3. n.block = blk[l] /\ m_Size[l] > 0 /\ needToDeallocate[l]
    <3>1. m_Size[l] \in Nat /\ m_Size[l] > 0
      BY <1>3, <2>2
    <3>2. n.block = blk[l]
      BY <2>2 DEF InBlock
    <3> QED BY <1>3, <3>1, <3>2
  <2>4. ASSUME NEW m \in Lists, needToDeallocate[m] PROVE m # "scopes" /\ m_Size[m] > 0 /\ links[Root(m)].next = InBlock(blk[m], 1)
    <3>1. m # "scopes" /\ m_Size[m] > 0 /\ m_Size[m] \in Nat
      BY <1>3, <2>4
    <3>2. 0 \in 0..m_Size[m] /\ 1 \in 1..m_Size[m] /\ 0 + 1 = 1
      BY <3>1
    <3>3. Place(m, blk[m], m_Size[m], 0) = Root(m) /\ Place(m, blk[m], m_Size[m], 1) = InBlock(blk[m], 1)
      BY <3>1, <3>2, PlaceIs
    <3>4. Ring(links, m, blk[m], contents[m]) /\ Len(contents[m]) = m_Size[m]
      BY <1>2, <1>3
    <3>5. links[Place(m, blk[m], m_Size[m], 0)].next = Place(m, blk[m], m_Size[m], 0 + 1)
      BY <3>2, <3>4 DEF Ring
    <3> QED BY <3>1, <3>2, <3>3, <3>5
  <2>5. ASSUME NEW m \in Lists, needToDeallocate[m], links[Root(m)].next = InBlock(n.block, 1) PROVE m = l
    <3>1. blk[m] = blk[l]
      BY <2>3, <2>4, <2>5, NodesDiffer
    <3>2. m # "scopes" /\ m_Size[m] > 0
      BY <2>4, <2>5
    <3> QED BY <1>3, <2>3, <3>1, <3>2 DEF Separate
  <2>6. links[Root(l)].next = InBlock(n.block, 1)
    BY <2>3, <2>4
  <2>7. {ls \in Lists : needToDeallocate[ls] /\ links[Root(ls)].next = InBlock(n.block, 1)} = {l}
    BY <2>3, <2>5, <2>6
  <2> QED BY <2>7, FS_Singleton
<1>6. \A ls \in Lists :
         LET k == m_Size[ls]
             forth == Walk(links, Root(ls), "next", k + 1)
             back == Walk(links, Root(ls), "prev", k + 1)
         IN  /\ k = Len(contents[ls])
             /\ forth[k + 1] = Root(ls) /\ back[k + 1] = Root(ls)
             /\ \A i \in 1..k : /\ links[forth[i]].name = contents[ls][i]
                                /\ back[i] = forth[k + 1 - i]
  <2> TAKE ls \in Lists
  <2>1. PICK k, forth, back : /\ k = m_Size[ls]
                              /\ forth = Walk(links, Root(ls), "next", k + 1)
                              /\ back = Walk(links, Root(ls), "prev", k + 1)
    OBVIOUS
  <2>2. /\ k = Len(contents[ls])
        /\ forth[k + 1] = Root(ls) /\ back[k + 1] = Root(ls)
        /\ \A i \in 1..k : /\ links[forth[i]].name = contents[ls][i]
                           /\ back[i] = forth[k + 1 - i]
    BY <1>4, <2>1
  <2> QED BY <2>1, <2>2
<1> QED BY <1>5, <1>6 DEF ScopeListsAreIntact

-------------------------------------------------------------------------------
\* A node of one of the lists T.
OfLists(x, T, size, blk) == \E l \in T : \E i \in 0..size[l] : x = Place(l, blk[l], size[l], i)

\* A step that touches only nodes of the lists T leaves the other rings.
LEMMA OthersStay ==
    ASSUME NEW mem, NEW size, NEW need, NEW cont, NEW blk, NEW calls, Shape(mem, size, need, cont, blk, calls),
           NEW new, NEW T \in SUBSET Lists,
           \A x \in Cells(size, blk) : OfLists(x, T, size, blk) \/ Same(new, mem, x)
    PROVE  \A m \in Lists \ T : Ring(new, m, blk[m], cont[m])
<1>1. /\ size \in [Lists -> Nat] /\ cont \in [Lists -> Seq(ScopeNames)] /\ Separate(size, blk)
      /\ \A l \in Lists : Len(cont[l]) = size[l] /\ Ring(mem, l, blk[l], cont[l])
  BY DEF Shape, Books
<1>2. ASSUME NEW m \in Lists \ T PROVE Ring(new, m, blk[m], cont[m])
  <2>1. ASSUME NEW i \in 0..size[m] PROVE Same(new, mem, Place(m, blk[m], size[m], i))
    <3>1. Place(m, blk[m], size[m], i) \in Cells(size, blk)
      BY <1>1, CellsAre
    <3>2. ~OfLists(Place(m, blk[m], size[m], i), T, size, blk)
      <4> SUFFICES ASSUME OfLists(Place(m, blk[m], size[m], i), T, size, blk) PROVE FALSE
        OBVIOUS
      <4>1. PICK l \in T : \E j \in 0..size[l] : Place(m, blk[m], size[m], i) = Place(l, blk[l], size[l], j)
        BY DEF OfLists
      <4>2. PICK j \in 0..size[l] : Place(m, blk[m], size[m], i) = Place(l, blk[l], size[l], j)
        BY <4>1
      <4>3. m = l
        BY <1>1, <4>2, PlacesDiffer
      <4> QED BY <4>3
    <3> QED BY <3>1, <3>2
  <2>2. cont[m] \in Seq(ScopeNames) /\ Len(cont[m]) = size[m] /\ Ring(mem, m, blk[m], cont[m])
    BY <1>1
  <2>3. \A i \in 0..Len(cont[m]) : Same(new, mem, Place(m, blk[m], Len(cont[m]), i))
    BY <2>1, <2>2
  <2> QED BY <2>2, <2>3, RingStays
<1> QED BY <1>2

\* What push_scope does to the memory.
Pushed(mem, k, name) ==
    LET entry == OnStack(k + 1)
        root == Root("scopes")
        top == mem[root].prev
        withEntry == [n \in DOMAIN mem \cup {entry} |->
                         IF n = entry THEN [prev |-> top, next |-> root, name |-> name] ELSE mem[n]]
    IN  Assign(Assign(withEntry, root, "prev", entry), top, "next", entry)

CanPush(mem, D, k, entry, root, top) ==
    /\ mem \in [D -> LinkRecs]
    /\ entry = OnStack(k + 1) /\ entry \in NodeIds \ D
    /\ root = Root("scopes") /\ root \in D /\ root \in NodeIds
    /\ top = mem[root].prev /\ top \in D

HasPushed(new, mem, D, entry, root, top, name) ==
    /\ new \in [D \cup {entry} -> LinkRecs]
    /\ \A x \in D \cup {entry} :
          /\ new[x].next = IF x = top THEN entry ELSE IF x = entry THEN root ELSE mem[x].next
          /\ new[x].prev = IF x = root THEN entry ELSE IF x = entry THEN top ELSE mem[x].prev
          /\ new[x].name = IF x = entry THEN name ELSE mem[x].name

LEMMA PushLinks ==
    ASSUME NEW D, NEW mem, NEW k, NEW name \in ScopeNames, NEW entry, NEW root, NEW top,
           CanPush(mem, D, k, entry, root, top)
    PROVE  HasPushed(Pushed(mem, k, name), mem, D, entry, root, top, name)
<1>1. /\ mem \in [D -> LinkRecs]
      /\ entry = OnStack(k + 1) /\ entry \in NodeIds \ D
      /\ root = Root("scopes") /\ root \in D /\ root \in NodeIds
      /\ top = mem[root].prev /\ top \in D
  BY DEF CanPush
<1> DEFINE E == D \cup {entry}
           r == [prev |-> top, next |-> root, name |-> name]
           w == [n \in E |-> IF n = entry THEN r ELSE mem[n]]
           u == Assign(w, root, "prev", entry)
           v == Assign(u, top, "next", entry)
<1>2. Pushed(mem, k, name) = v
  BY <1>1 DEF Pushed
<1>3. r \in LinkRecs /\ r.prev = top /\ r.next = root /\ r.name = name
  <2>1. top \in NodeIds
    BY <1>1 DEF LinkRecs
  <2> QED BY <1>1, <2>1 DEF LinkRecs
<1> HIDE DEF r
<1>4. /\ w \in [E -> LinkRecs] /\ w[entry] = r /\ \A x \in D : w[x] = mem[x]
      /\ root \in E /\ top \in E /\ entry \in NodeIds
  BY <1>1, <1>3
<1> HIDE DEF w, E
<1>5. /\ u \in [E -> LinkRecs]
      /\ \A x \in E : /\ u[x].next = w[x].next
                      /\ u[x].prev = IF x = root THEN entry ELSE w[x].prev
                      /\ u[x].name = w[x].name
  BY <1>4, AssignsPrev
<1> HIDE DEF u
<1>6. /\ v \in [E -> LinkRecs]
      /\ \A x \in E : /\ v[x].next = IF x = top THEN entry ELSE u[x].next
                      /\ v[x].prev = u[x].prev
                      /\ v[x].name = u[x].name
  BY <1>4, <1>5, AssignsNext
<1> HIDE DEF v
<1>7. \A x \in E : w[x].next = (IF x = entry THEN root ELSE mem[x].next) /\ w[x].prev = (IF x = entry THEN top ELSE mem[x].prev)
                   /\ w[x].name = (IF x = entry THEN name ELSE mem[x].name)
  BY <1>3, <1>4 DEF E
<1>8. entry # root /\ entry # top
  BY <1>1
<1>9. v \in [D \cup {entry} -> LinkRecs]
  BY <1>6 DEF E
<1>10. \A x \in E : /\ v[x].next = IF x = top THEN entry ELSE IF x = entry THEN root ELSE mem[x].next
                    /\ v[x].prev = IF x = root THEN entry ELSE IF x = entry THEN top ELSE mem[x].prev
                    /\ v[x].name = IF x = entry THEN name ELSE mem[x].name
  BY <1>5, <1>6, <1>7
<1> QED BY <1>2, <1>9, <1>10 DEF E, HasPushed

LEMMA PushShape ==
    ASSUME NEW mem, NEW size, NEW need, NEW cont, NEW blk, NEW calls, Shape(mem, size, need, cont, blk, calls),
           NEW name \in ScopeNames, NEW k, k = size["scopes"],
           NEW new, new = Pushed(mem, k, name),
           NEW size2, size2 = [size EXCEPT !["scopes"] = k + 1],
           NEW cont2, cont2 = [cont EXCEPT !["scopes"] = Append(cont["scopes"], name)]
    PROVE  Shape(new, size2, need, cont2, blk, calls + 1)
<1> DEFINE b == blk["scopes"]
           s == cont["scopes"]
           D == Cells(size, blk)
           root == Root("scopes")
           entry == OnStack(k + 1)
           at(i) == Place("scopes", b, k, i)
           to(i) == Place("scopes", b, k + 1, i)
<1>1. /\ size \in [Lists -> Nat] /\ need \in [Lists -> BOOLEAN] /\ cont \in [Lists -> Seq(ScopeNames)]
      /\ blk \in [Lists -> Nat] /\ calls \in Nat /\ Separate(size, blk) /\ "scopes" \in Lists
      /\ \A l \in Lists : /\ Len(cont[l]) = size[l]
                          /\ need[l] <=> l # "scopes" /\ size[l] > 0
                          /\ l # "scopes" /\ size[l] > 0 => blk[l] < calls
      /\ mem \in [D -> LinkRecs] /\ \A l \in Lists : Ring(mem, l, blk[l], cont[l])
  BY DEF Shape, Books, Lists
<1>2. k \in Nat /\ s \in Seq(ScopeNames) /\ Len(s) = k /\ Ring(mem, "scopes", b, s)
  BY <1>1
<1>3. /\ size2 \in [Lists -> Nat] /\ size2["scopes"] = k + 1 /\ \A l \in Lists \ {"scopes"} : size2[l] = size[l]
      /\ cont2 \in [Lists -> Seq(ScopeNames)] /\ cont2["scopes"] = Append(s, name)
      /\ \A l \in Lists \ {"scopes"} : cont2[l] = cont[l]
  BY <1>1, <1>2
<1>4. /\ Append(s, name) \in Seq(ScopeNames) /\ Len(Append(s, name)) = k + 1
      /\ Append(s, name)[k + 1] = name /\ \A i \in 1..k : Append(s, name)[i] = s[i]
  BY <1>2
<1> HIDE DEF b, s
<1>5. Books(size2, need, cont2, blk, calls + 1)
  <2>1. Separate(size2, blk)
    BY <1>1, <1>3 DEF Separate
  <2>2. \A l \in Lists : /\ Len(cont2[l]) = size2[l]
                         /\ need[l] <=> l # "scopes" /\ size2[l] > 0
                         /\ l # "scopes" /\ size2[l] > 0 => blk[l] < calls + 1
    BY <1>1, <1>3, <1>4
  <2> QED BY <1>1, <1>3, <2>1, <2>2 DEF Books
<1>6. /\ \A i \in 0..k : at(i) \in D
      /\ \A i \in 0..k : mem[at(i)].next = at(i + 1) /\ mem[at(i + 1)].prev = at(i) /\ (i > 0 => mem[at(i)].name = s[i])
      /\ at(0) = root /\ at(k + 1) = root
  <2>1. \A i \in 0..k : at(i) \in D
    BY <1>1, <1>2, CellsAre DEF b
  <2>2. \A i \in 0..k : mem[at(i)].next = at(i + 1) /\ mem[at(i + 1)].prev = at(i) /\ (i > 0 => mem[at(i)].name = s[i])
    BY <1>2 DEF Ring
  <2> QED BY <1>2, <2>1, <2>2, PlaceIs
<1>7. /\ \A i \in 0..k : to(i) = at(i)
      /\ to(k + 1) = entry /\ to(k + 2) = root /\ to(0) = root
  <2>1. k + 1 \in Nat /\ k + 1 \in 1..(k + 1) /\ k + 1 + 1 = k + 2
    BY <1>2
  <2>2. to(k + 1) = entry /\ to(k + 2) = root /\ to(0) = root
    BY <2>1, PlaceIs
  <2>3. ASSUME NEW i \in 0..k PROVE to(i) = at(i)
    <3>1. i = 0 \/ (i \in 1..k /\ i \in 1..(k + 1))
      BY <1>2
    <3>2. i \in 1..k => at(i) = OnStack(i)
      BY <1>2, PlaceIs
    <3>3. i \in 1..(k + 1) => to(i) = OnStack(i)
      BY <2>1, PlaceIs
    <3> QED BY <1>6, <2>2, <3>1, <3>2, <3>3
  <2> QED BY <2>2, <2>3
<1>8. entry \in NodeIds /\ entry \notin D /\ root \in D /\ root \in NodeIds /\ mem[root].prev = at(k) /\ at(k) \in D
  <2>1. entry \in NodeIds
    BY <1>2 DEF NodeIds
  <2>2. ~IsCell(entry, size, blk)
    <3>1. k + 1 \notin 1..k
      BY <1>2
    <3> QED BY <3>1, NodesDiffer DEF IsCell
  <2>3. entry \notin D
    BY <1>1, <2>2, KindsOfCells
  <2>4. k \in 0..k /\ 0 \in 0..k
    BY <1>2
  <2>5. D \subseteq NodeIds
    BY <1>1, CellsAreNodes
  <2> QED BY <1>6, <2>1, <2>3, <2>4, <2>5
<1>9. Cells(size2, blk) = D \cup {entry}
  <2>1. \A i : i \in 1..(k + 1) <=> i \in 1..k \/ i = k + 1
    BY <1>2
  <2>2. \A n : IsCell(n, size2, blk) <=> IsCell(n, size, blk) \/ n = entry
    <3> HIDE DEF entry
    <3>1. \A n : (\E i \in 1..(k + 1) : n = OnStack(i)) <=> (\E i \in 1..k : n = OnStack(i)) \/ n = entry
      BY <2>1 DEF entry
    <3>2. \A n : (\E l \in Lists \ {"scopes"} : \E i \in 1..size2[l] : n = InBlock(blk[l], i))
                    <=> (\E l \in Lists \ {"scopes"} : \E i \in 1..size[l] : n = InBlock(blk[l], i))
      BY <1>3
    <3> QED BY <1>3, <3>1, <3>2 DEF IsCell
  <2>3. \A n : (n \in Cells(size2, blk) <=> IsCell(n, size2, blk)) /\ (n \in D <=> IsCell(n, size, blk))
    BY <1>1, <1>3, KindsOfCells
  <2> HIDE DEF D, entry
  <2> QED BY <2>2, <2>3
<1> DEFINE top == at(k)
<1> HIDE DEF D, entry, root, at, to
<1>10. /\ new \in [D \cup {entry} -> LinkRecs]
       /\ \A x \in D \cup {entry} :
             /\ new[x].next = IF x = top THEN entry ELSE IF x = entry THEN root ELSE mem[x].next
             /\ new[x].prev = IF x = root THEN entry ELSE IF x = entry THEN top ELSE mem[x].prev
             /\ new[x].name = IF x = entry THEN name ELSE mem[x].name
  <2>1. CanPush(mem, D, k, entry, root, top)
    BY <1>1, <1>8 DEF CanPush, entry, root
  <2> HIDE DEF top
  <2>2. HasPushed(new, mem, D, entry, root, top, name)
    BY <2>1, PushLinks
  <2> QED BY ONLY <2>2 DEF HasPushed
<1>11. \A i, j \in 0..k : at(i) = at(j) => i = j
  BY <1>2, PlacesOfOneDiffer DEF at
<1>12. Ring(new, "scopes", b, Append(s, name))
  <2>1. ASSUME NEW i \in 0..(k + 1)
        PROVE  new[to(i)].next = to(i + 1) /\ new[to(i + 1)].prev = to(i) /\ (i > 0 => new[to(i)].name = Append(s, name)[i])
    <3>1. CASE i < k
      <4>1. i \in 0..k /\ i + 1 \in 0..k /\ k \in 0..k /\ 0 \in 0..k /\ i # k /\ i + 1 # 0 /\ (i > 0 => i \in 1..k)
        BY <1>2, <3>1
      <4>2. /\ to(i) = at(i) /\ to(i + 1) = at(i + 1) /\ at(i) \in D /\ at(i + 1) \in D
            /\ at(i) # top /\ at(i + 1) # root /\ at(i) # entry /\ at(i + 1) # entry
        BY <1>6, <1>7, <1>8, <1>11, <4>1
      <4>3. /\ new[at(i)].next = mem[at(i)].next /\ new[at(i)].name = mem[at(i)].name
            /\ new[at(i + 1)].prev = mem[at(i + 1)].prev
        BY ONLY <1>10, <4>2
      <4>4. /\ mem[at(i)].next = at(i + 1) /\ mem[at(i + 1)].prev = at(i)
            /\ (i > 0 => mem[at(i)].name = s[i] /\ Append(s, name)[i] = s[i])
        BY <1>4, <1>6, <4>1
      <4> QED BY ONLY <4>2, <4>3, <4>4
    <3>2. CASE i = k
      <4>1. /\ i \in 0..k /\ to(i) = top /\ to(i + 1) = entry /\ top \in D /\ top # entry /\ root # entry
            /\ (i > 0 => i \in 1..k)
        BY <1>2, <1>7, <1>8, <3>2
      <4>2. i > 0 => mem[top].name = s[i] /\ Append(s, name)[i] = s[i]
        BY <1>4, <1>6, <3>2, <4>1
      <4> HIDE DEF top
      <4>3. new[top].next = entry /\ new[entry].prev = top /\ new[top].name = mem[top].name
        BY <1>10, <4>1
      <4> QED BY <4>1, <4>2, <4>3
    <3>3. CASE i = k + 1
      <4>1. to(i) = entry /\ to(i + 1) = root /\ top \in D /\ top # entry /\ root # entry /\ root \in D
        BY <1>2, <1>7, <1>8, <3>3
      <4> QED BY <1>4, <1>10, <3>3, <4>1
    <3> QED BY <1>2, <3>1, <3>2, <3>3
  <2> QED BY <1>4, <2>1 DEF Ring, to
<1>13. ASSUME NEW m \in Lists \ {"scopes"} PROVE Ring(new, m, blk[m], cont2[m])
  <2> DEFINE T == {"scopes"}
  <2>1. ASSUME NEW x \in Cells(size, blk) PROVE OfLists(x, T, size, blk) \/ Same(new, mem, x)
    <3>1. x \in D /\ x # entry
      BY <1>8 DEF D
    <3>2. CASE x # top /\ x # root
      BY <1>10, <3>1, <3>2 DEF Same
    <3>3. CASE x = top \/ x = root
      <4>1. 0 \in 0..k /\ k \in 0..k /\ x \in {at(0), at(k)} /\ k = size["scopes"] /\ "scopes" \in T
        BY <1>2, <1>6, <3>3
      <4> QED BY <4>1 DEF OfLists, at, b
    <3> QED BY <3>2, <3>3
  <2>2. T \in SUBSET Lists
    BY <1>1
  <2>3. m \in Lists \ T
    OBVIOUS
  <2>4. Shape(mem, size, need, cont, blk, calls)
    OBVIOUS
  <2> HIDE DEF T
  <2>5. Ring(new, m, blk[m], cont[m])
    BY ONLY <2>1, <2>2, <2>3, <2>4, OthersStay
  <2> QED BY <1>3, <2>5
<1>14. \A l \in Lists : Ring(new, l, blk[l], cont2[l])
  BY <1>3, <1>12, <1>13 DEF b
<1> QED BY <1>5, <1>9, <1>10, <1>14 DEF Shape

\* What pop_scope does to the memory.
Popped(mem) ==
    LET top == mem[Root("scopes")].prev
        unlinked == Assign(Assign(mem, mem[top].prev, "next", mem[top].next),
                           mem[top].next, "prev", mem[top].prev)
    IN  Freed(unlinked, {top})

CanPop(mem, D, root, top, below) ==
    /\ mem \in [D -> LinkRecs]
    /\ root = Root("scopes") /\ root \in D /\ top \in D \ {root} /\ below \in D \ {top}
    /\ mem[root].prev = top /\ mem[top].prev = below /\ mem[top].next = root

HasPopped(new, mem, D, root, top, below) ==
    /\ new \in [D \ {top} -> LinkRecs]
    /\ \A x \in D \ {top} :
          /\ new[x].next = IF x = below THEN root ELSE mem[x].next
          /\ new[x].prev = IF x = root THEN below ELSE mem[x].prev
          /\ new[x].name = mem[x].name

LEMMA PopLinks ==
    ASSUME NEW D, NEW mem, NEW root, NEW top, NEW below, CanPop(mem, D, root, top, below)
    PROVE  HasPopped(Popped(mem), mem, D, root, top, below)
<1>1. /\ mem \in [D -> LinkRecs]
      /\ root = Root("scopes") /\ root \in D /\ top \in D \ {root} /\ below \in D \ {top}
      /\ mem[root].prev = top /\ mem[top].prev = below /\ mem[top].next = root
  BY DEF CanPop
<1> DEFINE u == Assign(mem, below, "next", root)
           v == Assign(u, root, "prev", below)
           w == [n \in D \ {top} |-> v[n]]
<1>2. root \in NodeIds /\ below \in NodeIds
  BY <1>1 DEF LinkRecs
<1>3. /\ u \in [D -> LinkRecs]
      /\ \A x \in D : /\ u[x].next = IF x = below THEN root ELSE mem[x].next
                      /\ u[x].prev = mem[x].prev
                      /\ u[x].name = mem[x].name
  BY <1>1, <1>2, AssignsNext
<1>4. Popped(mem) = Freed(v, {top})
  BY <1>1 DEF Popped
<1> HIDE DEF u
<1>5. /\ v \in [D -> LinkRecs]
      /\ \A x \in D : /\ v[x].next = u[x].next
                      /\ v[x].prev = IF x = root THEN below ELSE u[x].prev
                      /\ v[x].name = u[x].name
  BY <1>1, <1>2, <1>3, AssignsPrev
<1> HIDE DEF v
<1>6. Freed(v, {top}) = w
  <2>1. DOMAIN v = D
    BY <1>5
  <2> QED BY <2>1 DEF Freed
<1>7. w \in [D \ {top} -> LinkRecs] /\ \A x \in D \ {top} : w[x] = v[x]
  BY <1>5
<1> HIDE DEF w
<1>8. \A x \in D \ {top} : /\ w[x].next = IF x = below THEN root ELSE mem[x].next
                           /\ w[x].prev = IF x = root THEN below ELSE mem[x].prev
                           /\ w[x].name = mem[x].name
  BY <1>3, <1>5, <1>7
<1> QED BY <1>4, <1>6, <1>7, <1>8 DEF HasPopped

LEMMA PopShape ==
    ASSUME NEW mem, NEW size, NEW need, NEW cont, NEW blk, NEW calls, Shape(mem, size, need, cont, blk, calls),
           NEW k, k = size["scopes"], k > 0,
           NEW new, new = Popped(mem),
           NEW size2, size2 = [size EXCEPT !["scopes"] = k - 1],
           NEW cont2, cont2 = [cont EXCEPT !["scopes"] = SubSeq(cont["scopes"], 1, Len(cont["scopes"]) - 1)]
    PROVE  Shape(new, size2, need, cont2, blk, calls + 1)
<1> DEFINE b == blk["scopes"]
           s == cont["scopes"]
           r == SubSeq(s, 1, Len(s) - 1)
           D == Cells(size, blk)
           root == Root("scopes")
           at(i) == Place("scopes", b, k, i)
           to(i) == Place("scopes", b, k - 1, i)
           top == at(k)
           below == at(k - 1)
<1>1. /\ size \in [Lists -> Nat] /\ need \in [Lists -> BOOLEAN] /\ cont \in [Lists -> Seq(ScopeNames)]
      /\ blk \in [Lists -> Nat] /\ calls \in Nat /\ Separate(size, blk) /\ "scopes" \in Lists
      /\ \A l \in Lists : /\ Len(cont[l]) = size[l]
                          /\ need[l] <=> l # "scopes" /\ size[l] > 0
                          /\ l # "scopes" /\ size[l] > 0 => blk[l] < calls
      /\ mem \in [D -> LinkRecs] /\ \A l \in Lists : Ring(mem, l, blk[l], cont[l])
  BY DEF Shape, Books, Lists
<1>2. k \in Nat /\ k - 1 \in Nat /\ s \in Seq(ScopeNames) /\ Len(s) = k /\ Ring(mem, "scopes", b, s)
  BY <1>1
<1>3. /\ r \in Seq(ScopeNames) /\ Len(r) = k - 1 /\ \A i \in 1..(k - 1) : r[i] = s[i]
  BY <1>2
<1> HIDE DEF r
<1>4. /\ size2 \in [Lists -> Nat] /\ size2["scopes"] = k - 1 /\ \A l \in Lists \ {"scopes"} : size2[l] = size[l]
      /\ cont2 \in [Lists -> Seq(ScopeNames)] /\ cont2["scopes"] = r
      /\ \A l \in Lists \ {"scopes"} : cont2[l] = cont[l]
  <2>1. cont2 = [cont EXCEPT !["scopes"] = r]
    BY DEF r
  <2> QED BY <1>1, <1>2, <1>3, <2>1
<1> HIDE DEF b, s
<1>5. Books(size2, need, cont2, blk, calls + 1)
  <2>1. Separate(size2, blk)
    BY <1>1, <1>4 DEF Separate
  <2>2. \A l \in Lists : /\ Len(cont2[l]) = size2[l]
                         /\ need[l] <=> l # "scopes" /\ size2[l] > 0
                         /\ l # "scopes" /\ size2[l] > 0 => blk[l] < calls + 1
    BY <1>1, <1>3, <1>4
  <2> QED BY <1>1, <1>4, <2>1, <2>2 DEF Books
<1>6. /\ \A i \in 0..k : at(i) \in D
      /\ \A i \in 0..k : mem[at(i)].next = at(i + 1) /\ mem[at(i + 1)].prev = at(i) /\ (i > 0 => mem[at(i)].name = s[i])
      /\ at(0) = root /\ at(k + 1) = root
  <2>1. \A i \in 0..k : at(i) \in D
    BY <1>1, <1>2, CellsAre DEF b
  <2>2. \A i \in 0..k : mem[at(i)].next = at(i + 1) /\ mem[at(i + 1)].prev = at(i) /\ (i > 0 => mem[at(i)].name = s[i])
    BY <1>2 DEF Ring
  <2> QED BY <1>2, <2>1, <2>2, PlaceIs
<1>7. (\A i \in 0..(k - 1) : to(i) = at(i)) /\ to(k) = root /\ top = OnStack(k)
  <2>1. k - 1 + 1 = k /\ k \in 1..k
    BY <1>2
  <2>2. to(k) = root /\ to(0) = root /\ top = OnStack(k)
    BY ZenonT(60), <1>2, <2>1, PlaceIs
  <2>3. ASSUME NEW i \in 0..(k - 1) PROVE to(i) = at(i)
    <3>1. i = 0 \/ (i \in 1..k /\ i \in 1..(k - 1))
      BY <1>2
    <3>2. i \in 1..k => at(i) = OnStack(i)
      BY <1>2, PlaceIs
    <3>3. i \in 1..(k - 1) => to(i) = OnStack(i)
      BY <1>2, PlaceIs
    <3> QED BY <1>6, <2>2, <3>1, <3>2, <3>3
  <2> QED BY <2>2, <2>3
<1>8. \A i, j \in 0..k : at(i) = at(j) => i = j
  BY <1>2, PlacesOfOneDiffer
<1>9. Cells(size2, blk) = D \ {top}
  <2>1. \A i : i \in 1..(k - 1) <=> i \in 1..k /\ i # k
    BY <1>2
  <2>2. \A n : IsCell(n, size2, blk) <=> IsCell(n, size, blk) /\ n # OnStack(k)
    <3>1. \A n : (\E i \in 1..(k - 1) : n = OnStack(i)) <=> (\E i \in 1..k : n = OnStack(i)) /\ n # OnStack(k)
      BY <2>1, NodesDiffer
    <3>2. \A n : (\E l \in Lists \ {"scopes"} : \E i \in 1..size2[l] : n = InBlock(blk[l], i))
                    <=> (\E l \in Lists \ {"scopes"} : \E i \in 1..size[l] : n = InBlock(blk[l], i))
      BY <1>4
    <3>3. /\ \A n : (\E l \in Lists \ {"scopes"} : \E i \in 1..size[l] : n = InBlock(blk[l], i)) => n # OnStack(k)
          /\ \A n : (\E l \in Lists : n = Root(l)) => n # OnStack(k)
      BY NodesDiffer
    <3> QED BY <1>4, <3>1, <3>2, <3>3 DEF IsCell
  <2>3. \A n : (n \in Cells(size2, blk) <=> IsCell(n, size2, blk)) /\ (n \in D <=> IsCell(n, size, blk))
    BY <1>1, <1>4, KindsOfCells
  <2> HIDE DEF D, top
  <2> QED BY <1>7, <2>2, <2>3
<1>10. /\ 0 \in 0..k /\ k \in 0..k /\ k - 1 \in 0..k /\ k # 0 /\ k - 1 # k /\ k - 1 + 1 = k
       /\ top # root /\ below # top /\ top \in D /\ below \in D /\ root \in D
  <2>1. 0 \in 0..k /\ k \in 0..k /\ k - 1 \in 0..k /\ k # 0 /\ k - 1 # k /\ k - 1 + 1 = k
    BY <1>2
  <2> HIDE DEF D, root, at
  <2>2. at(0) \in D /\ at(k) \in D /\ at(k - 1) \in D /\ at(0) = root
    BY <1>6, <2>1
  <2>3. at(k) # at(0) /\ at(k - 1) # at(k)
    BY <1>8, <2>1
  <2> QED BY <2>1, <2>2, <2>3
<1> HIDE DEF D, root, at, to
<1>11. /\ new \in [D \ {top} -> LinkRecs]
       /\ \A x \in D \ {top} :
             /\ new[x].next = IF x = below THEN root ELSE mem[x].next
             /\ new[x].prev = IF x = root THEN below ELSE mem[x].prev
             /\ new[x].name = mem[x].name
  <2>1. mem[root].prev = top /\ mem[top].prev = below /\ mem[top].next = root
    BY <1>6, <1>10
  <2> HIDE DEF top, below
  <2>2. CanPop(mem, D, root, top, below)
    BY <1>1, <1>10, <2>1 DEF CanPop, root
  <2>3. HasPopped(new, mem, D, root, top, below)
    BY <2>2, PopLinks
  <2> QED BY ONLY <2>3 DEF HasPopped
<1>12. Ring(new, "scopes", b, r)
  <2>1. ASSUME NEW i \in 0..(k - 1)
        PROVE  new[to(i)].next = to(i + 1) /\ new[to(i + 1)].prev = to(i) /\ (i > 0 => new[to(i)].name = r[i])
    <3>1. i \in 0..k /\ to(i) = at(i) /\ at(i) \in D \ {top} /\ (i > 0 => r[i] = s[i])
      BY <1>2, <1>3, <1>6, <1>7, <1>8, <1>10
    <3>2. i > 0 => new[to(i)].name = r[i]
      BY <1>6, <1>11, <3>1
    <3>3. CASE i < k - 1
      <4>1. i + 1 \in 0..k /\ i + 1 \in 0..(k - 1) /\ i # k - 1 /\ i + 1 # 0 /\ i + 1 # k
        BY <1>2, <3>3
      <4>2. to(i + 1) = at(i + 1) /\ at(i + 1) \in D \ {top} /\ at(i) # below /\ at(i + 1) # root
        BY <1>6, <1>7, <1>8, <1>10, <3>1, <4>1
      <4>3. new[at(i)].next = at(i + 1) /\ new[at(i + 1)].prev = at(i)
        BY <1>6, <1>11, <3>1, <4>1, <4>2
      <4> QED BY <3>1, <3>2, <4>2, <4>3
    <3>4. CASE i = k - 1
      <4>1. to(i + 1) = root /\ at(i) = below
        BY <1>7, <1>10, <3>4
      <4>2. new[below].next = root /\ new[root].prev = below
        BY <1>10, <1>11
      <4> QED BY <3>1, <3>2, <4>1, <4>2
    <3> QED BY <1>2, <3>3, <3>4
  <2> QED BY <1>3, <2>1 DEF Ring, to
<1>13. ASSUME NEW m \in Lists \ {"scopes"} PROVE Ring(new, m, blk[m], cont2[m])
  <2> DEFINE T == {"scopes"}
  <2>1. ASSUME NEW x \in Cells(size, blk) PROVE OfLists(x, T, size, blk) \/ Same(new, mem, x)
    <3>1. x \in D
      BY DEF D
    <3>2. CASE x # top /\ x # root /\ x # below
      BY <1>11, <3>1, <3>2 DEF Same
    <3>3. CASE x = top \/ x = root \/ x = below
      <4>1. 0 \in 0..k /\ k \in 0..k /\ k - 1 \in 0..k /\ x \in {at(0), at(k), at(k - 1)} /\ k = size["scopes"] /\ "scopes" \in T
        BY <1>2, <1>6, <3>3
      <4> QED BY <4>1 DEF OfLists, at, b
    <3> QED BY <3>2, <3>3
  <2>2. T \in SUBSET Lists
    BY <1>1
  <2>3. m \in Lists \ T
    OBVIOUS
  <2>4. Shape(mem, size, need, cont, blk, calls)
    OBVIOUS
  <2> HIDE DEF T
  <2>5. Ring(new, m, blk[m], cont[m])
    BY ONLY <2>1, <2>2, <2>3, <2>4, OthersStay
  <2> QED BY <1>4, <2>5
<1>14. \A l \in Lists : Ring(new, l, blk[l], cont2[l])
  BY <1>4, <1>12, <1>13 DEF b
<1> QED BY <1>5, <1>9, <1>11, <1>14 DEF Shape

\* What the copy constructor does to the memory, for a source with k elements.
CopiedTo(mem, b, to, from, k) ==
    LET source == Walk(mem, Root(from), "next", k)
        node(i) == IF i = 0 \/ i = k + 1 THEN Root(to) ELSE InBlock(b, i)
        copied == {InBlock(b, i) : i \in 1..k}
    IN  [n \in DOMAIN mem \cup copied |->
           IF n \in copied THEN [prev |-> node(n.i - 1), next |-> node(n.i + 1), name |-> mem[source[n.i]].name]
           ELSE IF n = Root(to) THEN [prev |-> node(k), next |-> node(1), name |-> "root"]
           ELSE mem[n]]

CanCopy(mem, D, b, to, from, s) ==
    /\ mem \in [D -> LinkRecs] /\ b \in Nat /\ to # "scopes"
    /\ Root(to) \in D /\ Root(to) \in NodeIds
    /\ s \in Seq(ScopeNames)
    /\ \A i \in 1..Len(s) : /\ InBlock(b, i) \notin D
                            /\ mem[Walk(mem, Root(from), "next", Len(s))[i]].name = s[i]

HasCopied(new, mem, D, b, to, s) ==
    /\ new \in [D \cup {InBlock(b, i) : i \in 1..Len(s)} -> LinkRecs]
    /\ \A x \in D \ {Root(to)} : new[x] = mem[x]
    /\ Ring(new, to, b, s)

LEMMA CopyLinks ==
    ASSUME NEW mem, NEW D, NEW b, NEW to, NEW from, NEW s, CanCopy(mem, D, b, to, from, s)
    PROVE  HasCopied(CopiedTo(mem, b, to, from, Len(s)), mem, D, b, to, s)
<1> DEFINE k == Len(s)
           copied == {InBlock(b, i) : i \in 1..k}
           source == Walk(mem, Root(from), "next", k)
           node(i) == IF i = 0 \/ i = k + 1 THEN Root(to) ELSE InBlock(b, i)
           rec(n) == [prev |-> node(n.i - 1), next |-> node(n.i + 1), name |-> mem[source[n.i]].name]
           root == [prev |-> node(k), next |-> node(1), name |-> "root"]
           new == [n \in D \cup copied |-> IF n \in copied THEN rec(n) ELSE IF n = Root(to) THEN root ELSE mem[n]]
<1>1. /\ mem \in [D -> LinkRecs] /\ b \in Nat /\ to # "scopes"
      /\ Root(to) \in D /\ Root(to) \in NodeIds
      /\ s \in Seq(ScopeNames) /\ k \in Nat
      /\ \A i \in 1..k : InBlock(b, i) \notin D /\ mem[source[i]].name = s[i] /\ s[i] \in ScopeNames
  BY DEF CanCopy
<1>2. CopiedTo(mem, b, to, from, k) = new
  <2>1. DOMAIN mem = D
    BY <1>1
  <2> HIDE DEF k
  <2> QED BY <2>1 DEF CopiedTo
<1> HIDE DEF k, source
<1>3. /\ \A i \in 0..(k + 1) : node(i) = Place(to, b, k, i) /\ node(i) \in NodeIds
      /\ 0 \in 0..(k + 1) /\ k \in 0..(k + 1) /\ 1 \in 0..(k + 1) /\ k + 1 \in 0..(k + 1)
  <2>1. ASSUME NEW i \in 0..(k + 1) PROVE node(i) = Place(to, b, k, i) /\ node(i) \in NodeIds
    <3>1. i = 0 \/ i = k + 1 \/ (i \in 1..k /\ i # 0 /\ i # k + 1 /\ i \in Nat)
      BY <1>1
    <3>2. Place(to, b, k, 0) = Root(to) /\ Place(to, b, k, k + 1) = Root(to)
      BY <1>1, PlaceIs
    <3>3. i \in 1..k => Place(to, b, k, i) = InBlock(b, i)
      BY <1>1 DEF Place
    <3>4. i \in Nat => InBlock(b, i) \in NodeIds
      BY <1>1 DEF NodeIds
    <3> QED BY <1>1, <3>1, <3>2, <3>4, <3>3
  <2> QED BY <1>1, <2>1
<1> HIDE DEF node
<1>4. \A i \in 1..k : /\ rec(InBlock(b, i)).prev = Place(to, b, k, i - 1)
                      /\ rec(InBlock(b, i)).next = Place(to, b, k, i + 1)
                      /\ rec(InBlock(b, i)).name = s[i]
                      /\ rec(InBlock(b, i)) \in LinkRecs
  <2>1. ASSUME NEW i \in 1..k
        PROVE  /\ rec(InBlock(b, i)).prev = Place(to, b, k, i - 1)
               /\ rec(InBlock(b, i)).next = Place(to, b, k, i + 1)
               /\ rec(InBlock(b, i)).name = s[i]
               /\ rec(InBlock(b, i)) \in LinkRecs
    <3>1. InBlock(b, i).i = i
      BY DEF InBlock
    <3>2. rec(InBlock(b, i)) = [prev |-> node(i - 1), next |-> node(i + 1), name |-> s[i]]
      BY <1>1, <3>1
    <3>3. i - 1 \in 0..(k + 1) /\ i + 1 \in 0..(k + 1)
      BY <1>1
    <3>4. node(i - 1) = Place(to, b, k, i - 1) /\ node(i + 1) = Place(to, b, k, i + 1)
          /\ node(i - 1) \in NodeIds /\ node(i + 1) \in NodeIds
      BY <1>3, <3>3
    <3> HIDE DEF rec
    <3> QED BY <1>1, <3>2, <3>4 DEF LinkRecs
  <2> QED BY <2>1
<1>5. root \in LinkRecs /\ root.next = Place(to, b, k, 1) /\ root.prev = Place(to, b, k, k)
  BY <1>3 DEF LinkRecs
<1> HIDE DEF rec, root
<1>6. Root(to) \notin copied
  BY <1>1
<1>7. /\ new \in [D \cup copied -> LinkRecs]
      /\ \A x \in D \ {Root(to)} : new[x] = mem[x]
      /\ \A i \in 1..k : new[InBlock(b, i)] = rec(InBlock(b, i))
      /\ new[Root(to)] = root
  <2>1. ASSUME NEW n \in copied PROVE new[n] = rec(n) /\ rec(n) \in LinkRecs
    BY <1>4
  <2>2. \A n \in D : n \notin copied
    BY <1>1
  <2>3. \A i \in 1..k : InBlock(b, i) \in copied
    OBVIOUS
  <2> HIDE DEF copied
  <2>4. ASSUME NEW n \in D \cup copied PROVE new[n] \in LinkRecs
    <3>1. CASE n \in copied
      BY <2>1, <3>1
    <3>2. CASE n \in D
      <4>1. mem[n] \in LinkRecs
        BY <1>1, <3>2
      <4> QED BY <1>5, <2>2, <3>2, <4>1
    <3> QED BY <3>1, <3>2
  <2>5. \A x \in D \ {Root(to)} : new[x] = mem[x]
    BY <2>2
  <2>6. new[Root(to)] = root
    BY <1>1, <1>6
  <2>7. new \in [D \cup copied -> LinkRecs]
    <3>1. new = [n \in D \cup copied |-> new[n]]
      OBVIOUS
    <3> HIDE DEF new
    <3> QED BY <2>4, <3>1
  <2> QED BY <2>1, <2>3, <2>5, <2>6, <2>7
<1> HIDE DEF new
<1>8. Ring(new, to, b, s)
  <2>1. ASSUME NEW i \in 0..k
        PROVE  /\ new[Place(to, b, k, i)].next = Place(to, b, k, i + 1)
               /\ new[Place(to, b, k, i + 1)].prev = Place(to, b, k, i)
               /\ i > 0 => new[Place(to, b, k, i)].name = s[i]
    <3>1. Place(to, b, k, 0) = Root(to) /\ Place(to, b, k, k + 1) = Root(to)
      BY <1>1, PlaceIs
    <3>2. \A j \in 1..k : Place(to, b, k, j) = InBlock(b, j)
      BY <1>1 DEF Place
    <3>3. new[Place(to, b, k, i)].next = Place(to, b, k, i + 1) /\ (i > 0 => new[Place(to, b, k, i)].name = s[i])
      <4>1. CASE i = 0
        BY <1>5, <1>7, <3>1, <3>2, <4>1
      <4>2. CASE i \in 1..k
        BY <1>4, <1>7, <3>2, <4>2
      <4> QED BY <1>1, <4>1, <4>2
    <3>4. new[Place(to, b, k, i + 1)].prev = Place(to, b, k, i)
      <4>1. CASE i = k
        BY <1>5, <1>7, <3>1, <3>2, <4>1
      <4>2. CASE i + 1 \in 1..k
        <5>1. i + 1 - 1 = i
          OBVIOUS
        <5>2. new[Place(to, b, k, i + 1)].prev = Place(to, b, k, i + 1 - 1)
          BY <1>4, <1>7, <3>2, <4>2
        <5> QED BY <5>1, <5>2
      <4> QED BY <1>1, <4>1, <4>2
    <3> QED BY <3>3, <3>4
  <2> QED BY <2>1 DEF Ring, k
<1> QED BY <1>2, <1>7, <1>8 DEF HasCopied, k

CopyMade(new, size2, need2, cont2, blk2, mem, size, need, cont, blk, calls, to, from) ==
    /\ new = CopiedTo(mem, calls, to, from, size[from])
    /\ size2 = [size EXCEPT ![to] = size[from]] /\ need2 = [need EXCEPT ![to] = size[from] > 0]
    /\ cont2 = [cont EXCEPT ![to] = cont[from]] /\ blk2 = [blk EXCEPT ![to] = calls]

LEMMA CopyShape ==
    ASSUME NEW mem, NEW size, NEW need, NEW cont, NEW blk, NEW calls, Shape(mem, size, need, cont, blk, calls),
           NEW to \in Lists \ {"scopes"}, NEW from \in Lists \ {to}, size[to] = 0,
           NEW k, k = size[from], NEW new, NEW size2, NEW need2, NEW cont2, NEW blk2,
           CopyMade(new, size2, need2, cont2, blk2, mem, size, need, cont, blk, calls, to, from)
    PROVE  Shape(new, size2, need2, cont2, blk2, calls + 1)
<1> DEFINE s == cont[from]
           D == Cells(size, blk)
           copied == {InBlock(calls, i) : i \in 1..k}
<1>1. /\ new = CopiedTo(mem, calls, to, from, k)
      /\ size2 = [size EXCEPT ![to] = k] /\ need2 = [need EXCEPT ![to] = k > 0]
      /\ cont2 = [cont EXCEPT ![to] = cont[from]] /\ blk2 = [blk EXCEPT ![to] = calls]
  BY DEF CopyMade
<1>2. /\ size \in [Lists -> Nat] /\ need \in [Lists -> BOOLEAN] /\ cont \in [Lists -> Seq(ScopeNames)]
      /\ blk \in [Lists -> Nat] /\ calls \in Nat /\ Separate(size, blk) /\ "scopes" \in Lists
      /\ \A l \in Lists : /\ Len(cont[l]) = size[l]
                          /\ need[l] <=> l # "scopes" /\ size[l] > 0
                          /\ l # "scopes" /\ size[l] > 0 => blk[l] < calls
      /\ mem \in [D -> LinkRecs] /\ \A l \in Lists : Ring(mem, l, blk[l], cont[l])
  BY DEF Shape, Books, Lists
<1>3. k \in Nat /\ s \in Seq(ScopeNames) /\ Len(s) = k /\ Ring(mem, from, blk[from], s)
  BY <1>2
<1>4. /\ size2 \in [Lists -> Nat] /\ size2[to] = k /\ \A l \in Lists \ {to} : size2[l] = size[l]
      /\ cont2 \in [Lists -> Seq(ScopeNames)] /\ cont2[to] = s /\ \A l \in Lists \ {to} : cont2[l] = cont[l]
      /\ blk2 \in [Lists -> Nat] /\ blk2[to] = calls /\ \A l \in Lists \ {to} : blk2[l] = blk[l]
      /\ need2 \in [Lists -> BOOLEAN] /\ (need2[to] <=> k > 0) /\ \A l \in Lists \ {to} : need2[l] = need[l]
  <2>1. size2 \in [Lists -> Nat] /\ size2[to] = k /\ \A l \in Lists \ {to} : size2[l] = size[l]
    BY <1>1, <1>2, <1>3
  <2>2. cont2 \in [Lists -> Seq(ScopeNames)] /\ cont2[to] = s /\ \A l \in Lists \ {to} : cont2[l] = cont[l]
    BY <1>1, <1>2, <1>3
  <2>3. blk2 \in [Lists -> Nat] /\ blk2[to] = calls /\ \A l \in Lists \ {to} : blk2[l] = blk[l]
    BY <1>1, <1>2, <1>3
  <2>4. need2 \in [Lists -> BOOLEAN] /\ (need2[to] <=> k > 0) /\ \A l \in Lists \ {to} : need2[l] = need[l]
    <3> DEFINE p == k > 0
    <3>1. p \in BOOLEAN /\ need2 = [need EXCEPT ![to] = p]
      BY <1>1
    <3> HIDE DEF p
    <3>2. need2 \in [Lists -> BOOLEAN] /\ need2[to] = p /\ \A l \in Lists \ {to} : need2[l] = need[l]
      BY <1>2, <3>1, Zenon
    <3> QED BY <3>2 DEF p
  <2> QED BY ONLY <2>1, <2>2, <2>3, <2>4
<1> HIDE DEF s
<1>5. Books(size2, need2, cont2, blk2, calls + 1)
  <2>1. Separate(size2, blk2)
    <3>1. ASSUME NEW l \in Lists \ {"scopes"}, NEW m \in Lists \ {"scopes"}, size2[l] > 0, size2[m] > 0, blk2[l] = blk2[m]
          PROVE  l = m
      <4>1. \A x \in Lists \ {"scopes", to} : size2[x] > 0 => size[x] > 0 /\ blk2[x] = blk[x] /\ blk2[x] < calls
        BY <1>2, <1>4
      <4>2. CASE l = to \/ m = to
        <5>1. blk2[to] = calls /\ calls \in Nat /\ \A x \in Lists : blk2[x] \in Nat
          BY <1>2, <1>4
        <5>2. (m # to => blk2[m] < calls) /\ (l # to => blk2[l] < calls)
          BY <3>1, <4>1
        <5> QED BY ONLY <3>1, <4>2, <5>1, <5>2
      <4>3. CASE l # to /\ m # to
        BY <1>2, <3>1, <4>1, <4>3 DEF Separate
      <4> QED BY <4>2, <4>3
    <3> QED BY <3>1 DEF Separate
  <2>2. \A l \in Lists : /\ Len(cont2[l]) = size2[l]
                         /\ need2[l] <=> l # "scopes" /\ size2[l] > 0
                         /\ l # "scopes" /\ size2[l] > 0 => blk2[l] < calls + 1
    <3>1. ASSUME NEW l \in Lists \ {to}
          PROVE  /\ Len(cont2[l]) = size2[l]
                 /\ need2[l] <=> l # "scopes" /\ size2[l] > 0
                 /\ l # "scopes" /\ size2[l] > 0 => blk2[l] < calls + 1
      BY ONLY <1>2, <1>4, <3>1
    <3>2. /\ Len(cont2[to]) = size2[to]
          /\ need2[to] <=> to # "scopes" /\ size2[to] > 0
          /\ to # "scopes" /\ size2[to] > 0 => blk2[to] < calls + 1
      BY <1>2, <1>3, <1>4
    <3> QED BY <3>1, <3>2
  <2> QED BY <1>2, <1>4, <2>1, <2>2 DEF Books
<1>6. \A i \in 1..k : InBlock(calls, i) \notin D
  <2>1. ASSUME NEW i \in 1..k PROVE ~IsCell(InBlock(calls, i), size, blk)
    <3>1. ASSUME NEW l \in Lists \ {"scopes"}, NEW j \in 1..size[l] PROVE blk[l] # calls
      <4>1. size[l] \in Nat /\ size[l] > 0 /\ blk[l] \in Nat
        BY <1>2
      <4> QED BY <1>2, <4>1
    <3> QED BY <3>1, NodesDiffer DEF IsCell
  <2> QED BY <1>2, <2>1, KindsOfCells
<1>7. CanCopy(mem, D, calls, to, from, s)
  <2>1. Root(to) \in D /\ D \subseteq NodeIds
    BY <1>2, CellsAre, CellsAreNodes
  <2>2. ASSUME NEW i \in 1..k PROVE mem[Walk(mem, Root(from), "next", k)[i]].name = s[i]
    <3>1. i \in 0..k /\ i > 0
      BY <1>3
    <3>2. Walk(mem, Root(from), "next", k)[i] = Place(from, blk[from], k, i)
      BY <1>3, <3>1, WalksRound
    <3>3. mem[Place(from, blk[from], k, i)].name = s[i]
      BY <1>3, <3>1 DEF Ring
    <3> QED BY <3>2, <3>3
  <2> HIDE DEF D
  <2> QED BY <1>2, <1>3, <1>6, <2>1, <2>2 DEF CanCopy
<1>8. HasCopied(new, mem, D, calls, to, s)
  <2> HIDE DEF D
  <2> QED BY <1>1, <1>3, <1>7, CopyLinks
<1>9. /\ new \in [D \cup copied -> LinkRecs] /\ \A x \in D \ {Root(to)} : new[x] = mem[x]
      /\ Ring(new, to, calls, s)
  <2> HIDE DEF D
  <2> QED BY <1>3, <1>8 DEF HasCopied
<1>10. Cells(size2, blk2) = D \cup copied
  <2>1. ASSUME NEW n PROVE IsCell(n, size2, blk2) <=> IsCell(n, size, blk) \/ n \in copied
    <3>1. (\E l \in Lists \ {"scopes"} : \E i \in 1..size2[l] : n = InBlock(blk2[l], i))
             <=> (\E l \in Lists \ {"scopes", to} : \E i \in 1..size[l] : n = InBlock(blk[l], i)) \/ n \in copied
      <4> DEFINE In(l) == \E i \in 1..size2[l] : n = InBlock(blk2[l], i)
      <4>1. In(to) <=> n \in copied
        BY <1>4
      <4>2. \A l \in Lists \ {"scopes", to} : In(l) <=> \E i \in 1..size[l] : n = InBlock(blk[l], i)
        BY <1>4
      <4> HIDE DEF In, copied
      <4>3. (\E l \in Lists \ {"scopes"} : In(l)) <=> (\E l \in Lists \ {"scopes", to} : In(l)) \/ In(to)
        OBVIOUS
      <4>4. (\E l \in Lists \ {"scopes"} : In(l))
               <=> (\E l \in Lists \ {"scopes", to} : \E i \in 1..size[l] : n = InBlock(blk[l], i)) \/ n \in copied
        BY ONLY <4>1, <4>2, <4>3
      <4> QED BY <4>4 DEF In
    <3>2. (\E l \in Lists \ {"scopes"} : \E i \in 1..size[l] : n = InBlock(blk[l], i))
             <=> (\E l \in Lists \ {"scopes", to} : \E i \in 1..size[l] : n = InBlock(blk[l], i))
      <4>1. 1..size[to] = {}
        OBVIOUS
      <4> QED BY <4>1
    <3>3. size2["scopes"] = size["scopes"]
      BY <1>2, <1>4
    <3> HIDE DEF copied
    <3> QED BY <3>1, <3>2, <3>3 DEF IsCell
  <2>2. \A n : (n \in Cells(size2, blk2) <=> IsCell(n, size2, blk2)) /\ (n \in D <=> IsCell(n, size, blk))
    BY <1>2, <1>4, KindsOfCells
  <2> HIDE DEF D, copied
  <2> QED BY <2>1, <2>2
<1>11. ASSUME NEW m \in Lists \ {to} PROVE Ring(new, m, blk2[m], cont2[m])
  <2> DEFINE T == {to}
  <2>1. ASSUME NEW x \in Cells(size, blk) PROVE OfLists(x, T, size, blk) \/ Same(new, mem, x)
    <3>1. CASE x = Root(to)
      <4>1. size[to] \in Nat /\ 0 \in 0..size[to] /\ to \in T
        BY <1>2
      <4>2. x = Place(to, blk[to], size[to], 0)
        BY <3>1, <4>1, PlaceIs
      <4> QED BY <4>1, <4>2 DEF OfLists
    <3>2. CASE x # Root(to)
      BY <1>9, <3>2 DEF Same
    <3> QED BY <3>1, <3>2
  <2>2. T \in SUBSET Lists
    OBVIOUS
  <2>3. m \in Lists \ T
    OBVIOUS
  <2>4. Shape(mem, size, need, cont, blk, calls)
    OBVIOUS
  <2> HIDE DEF T
  <2>5. Ring(new, m, blk[m], cont[m])
    BY ONLY <2>1, <2>2, <2>3, <2>4, OthersStay
  <2> QED BY <1>4, <2>5
<1>12. \A l \in Lists : Ring(new, l, blk2[l], cont2[l])
  BY <1>4, <1>9, <1>11
<1> QED BY <1>5, <1>9, <1>10, <1>12 DEF Shape

\* What the destructor of a list does to the memory, or the assignment of an
\* empty one.
BlockNodes(mem, block) == {n \in DOMAIN mem : n.of = "block" /\ n.block = block}
Cleared(mem, ls, owned) ==
    [(IF owned THEN Freed(mem, BlockNodes(mem, mem[Root(ls)].next.block)) ELSE mem)
        EXCEPT ![Root(ls)] = EmptyRoot(ls)]

LEMMA ClearShape ==
    ASSUME NEW mem, NEW size, NEW need, NEW cont, NEW blk, NEW calls, Shape(mem, size, need, cont, blk, calls),
           NEW ls \in Lists \ {"scopes"}, NEW later \in Nat, calls <= later,
           NEW new, new = Cleared(mem, ls, need[ls]),
           NEW size2, size2 = [size EXCEPT ![ls] = 0], NEW need2, need2 = [need EXCEPT ![ls] = FALSE],
           NEW cont2, cont2 = [cont EXCEPT ![ls] = <<>>]
    PROVE  Shape(new, size2, need2, cont2, blk, later)
<1> DEFINE D == Cells(size, blk)
           F == IF need[ls] THEN BlockNodes(mem, blk[ls]) ELSE {}
<1>1. /\ size \in [Lists -> Nat] /\ need \in [Lists -> BOOLEAN] /\ cont \in [Lists -> Seq(ScopeNames)]
      /\ blk \in [Lists -> Nat] /\ calls \in Nat /\ Separate(size, blk) /\ "scopes" \in Lists
      /\ \A l \in Lists : /\ Len(cont[l]) = size[l]
                          /\ need[l] <=> l # "scopes" /\ size[l] > 0
                          /\ l # "scopes" /\ size[l] > 0 => blk[l] < calls
      /\ mem \in [D -> LinkRecs] /\ \A l \in Lists : Ring(mem, l, blk[l], cont[l])
  BY DEF Shape, Books, Lists
<1>2. /\ size2 \in [Lists -> Nat] /\ size2[ls] = 0 /\ \A l \in Lists \ {ls} : size2[l] = size[l]
      /\ cont2 \in [Lists -> Seq(ScopeNames)] /\ cont2[ls] = <<>> /\ \A l \in Lists \ {ls} : cont2[l] = cont[l]
      /\ need2 \in [Lists -> BOOLEAN] /\ ~need2[ls] /\ \A l \in Lists \ {ls} : need2[l] = need[l]
  <2>1. size2 \in [Lists -> Nat] /\ size2[ls] = 0 /\ \A l \in Lists \ {ls} : size2[l] = size[l]
    BY <1>1
  <2>2. cont2 \in [Lists -> Seq(ScopeNames)] /\ cont2[ls] = <<>> /\ \A l \in Lists \ {ls} : cont2[l] = cont[l]
    BY <1>1
  <2>3. need2 \in [Lists -> BOOLEAN] /\ ~need2[ls] /\ \A l \in Lists \ {ls} : need2[l] = need[l]
    BY <1>1
  <2> QED BY ONLY <2>1, <2>2, <2>3
<1>3. Books(size2, need2, cont2, blk, later)
  <2>1. Separate(size2, blk)
    BY <1>1, <1>2 DEF Separate
  <2>2. ASSUME NEW l \in Lists
        PROVE  /\ Len(cont2[l]) = size2[l]
               /\ need2[l] <=> l # "scopes" /\ size2[l] > 0
               /\ l # "scopes" /\ size2[l] > 0 => blk[l] < later
    <3>1. CASE l = ls
      <4>1. Len(cont2[l]) = 0 /\ size2[l] = 0 /\ ~need2[l]
        BY <1>2, <3>1
      <4> QED BY <4>1
    <3>2. CASE l # ls
      BY <1>1, <1>2, <3>2
    <3> QED BY <3>1, <3>2
  <2> QED BY <1>1, <1>2, <2>1, <2>2 DEF Books
<1>4. need[ls] => mem[Root(ls)].next = InBlock(blk[ls], 1) /\ size[ls] > 0
  <2> SUFFICES ASSUME need[ls] PROVE mem[Root(ls)].next = InBlock(blk[ls], 1) /\ size[ls] > 0
    OBVIOUS
  <2>1. size[ls] \in Nat /\ size[ls] > 0 /\ Len(cont[ls]) = size[ls] /\ Ring(mem, ls, blk[ls], cont[ls])
    BY <1>1
  <2>2. 0 \in 0..size[ls] /\ 1 \in 1..size[ls] /\ 0 + 1 = 1
    BY <2>1
  <2>3. Place(ls, blk[ls], size[ls], 0) = Root(ls) /\ Place(ls, blk[ls], size[ls], 1) = InBlock(blk[ls], 1)
    BY <2>1, <2>2 DEF Place
  <2>4. mem[Place(ls, blk[ls], size[ls], 0)].next = Place(ls, blk[ls], size[ls], 0 + 1)
    BY <2>1, <2>2 DEF Ring
  <2> QED BY <2>1, <2>2, <2>3, <2>4
<1>5. \A n : n \in D <=> IsCell(n, size, blk)
  BY <1>1, KindsOfCells
<1>6. /\ \A l : Root(l).of = "root"
      /\ \A i : OnStack(i).of = "stack"
      /\ \A b, i : InBlock(b, i).of = "block" /\ InBlock(b, i).block = b
  BY DEF Root, OnStack, InBlock
<1>7. \A n : n \in F <=> \E i \in 1..size[ls] : n = InBlock(blk[ls], i)
  <2>1. ASSUME NEW n \in F PROVE \E i \in 1..size[ls] : n = InBlock(blk[ls], i)
    <3>1. n \in D /\ n.of = "block" /\ n.block = blk[ls] /\ need[ls]
      BY <1>1 DEF BlockNodes
    <3>2. PICK l \in Lists \ {"scopes"} : \E i \in 1..size[l] : n = InBlock(blk[l], i)
      BY <1>5, <1>6, <3>1 DEF IsCell
    <3>3. PICK i \in 1..size[l] : n = InBlock(blk[l], i)
      BY <3>2
    <3>4. blk[l] = blk[ls] /\ size[l] > 0 /\ size[ls] > 0
      <4>1. size[l] \in Nat
        BY <1>1
      <4> QED BY <1>4, <1>6, <3>1, <3>3, <4>1
    <3>5. l = ls
      BY <1>1, <3>4 DEF Separate
    <3> QED BY <3>3, <3>5
  <2>2. ASSUME NEW i \in 1..size[ls] PROVE InBlock(blk[ls], i) \in F
    <3>1. size[ls] \in Nat /\ size[ls] > 0
      BY <1>1
    <3>2. need[ls]
      BY <1>1, <3>1
    <3>3. InBlock(blk[ls], i) \in D
      BY <1>5 DEF IsCell
    <3> QED BY <1>1, <1>6, <3>2, <3>3 DEF BlockNodes
  <2> HIDE DEF F
  <2> QED BY <2>1, <2>2
<1>8. Root(ls) \in D \ F
  <2>1. Root(ls) \in D
    BY <1>5 DEF IsCell
  <2> QED BY <1>7, <2>1, NodesDiffer
<1>9. EmptyRoot(ls) \in LinkRecs /\ EmptyRoot(ls).next = Root(ls) /\ EmptyRoot(ls).prev = Root(ls)
  <2>1. Root(ls) \in NodeIds
    BY DEF NodeIds, Roots
  <2> QED BY <2>1 DEF EmptyRoot, LinkRecs
<1>10. /\ new \in [D \ F -> LinkRecs] /\ new[Root(ls)] = EmptyRoot(ls)
       /\ \A x \in (D \ F) \ {Root(ls)} : new[x] = mem[x]
  <2> DEFINE old == IF need[ls] THEN Freed(mem, BlockNodes(mem, mem[Root(ls)].next.block)) ELSE mem
  <2>1. new = [old EXCEPT ![Root(ls)] = EmptyRoot(ls)]
    BY DEF Cleared
  <2>2. old = [n \in D \ F |-> mem[n]]
    <3>1. CASE need[ls]
      <4>1. old = Freed(mem, F)
        BY <1>4, <1>6, <3>1
      <4>2. DOMAIN mem = D
        BY <1>1
      <4> HIDE DEF F, D, old
      <4> QED BY <4>1, <4>2 DEF Freed
    <3>2. CASE ~need[ls]
      <4>1. old = mem /\ F = {}
        BY <3>2
      <4>2. mem = [n \in D |-> mem[n]]
        BY <1>1
      <4> HIDE DEF F, D, old
      <4> QED BY <4>1, <4>2
    <3> QED BY <3>1, <3>2
  <2> HIDE DEF F, D, old
  <2>3. old \in [D \ F -> LinkRecs] /\ \A x \in D \ F : old[x] = mem[x]
    BY <1>1, <2>2
  <2> QED BY <1>8, <1>9, <2>1, <2>3
<1>11. Cells(size2, blk) = D \ F
  <2>1. ASSUME NEW n PROVE IsCell(n, size2, blk) <=> IsCell(n, size, blk) /\ n \notin F
    <3> DEFINE In(l) == \E i \in 1..size[l] : n = InBlock(blk[l], i)
               In2(l) == \E i \in 1..size2[l] : n = InBlock(blk[l], i)
    <3>1. n \in F <=> In(ls)
      BY <1>7
    <3>2. ~In2(ls) /\ \A l \in Lists \ {ls} : In2(l) <=> In(l)
      BY <1>2
    <3>3. \A l \in Lists \ {"scopes", ls} : In(l) => n \notin F
      <4>1. ASSUME NEW l \in Lists \ {"scopes", ls}, In(l), n \in F PROVE FALSE
        <5>1. PICK i \in 1..size[l] : n = InBlock(blk[l], i)
          BY <4>1
        <5>2. PICK j \in 1..size[ls] : n = InBlock(blk[ls], j)
          BY <1>7, <4>1
        <5>3. size[l] \in Nat /\ size[ls] \in Nat /\ size[l] > 0 /\ size[ls] > 0
          BY <1>1
        <5>4. blk[l] = blk[ls]
          BY <5>1, <5>2, NodesDiffer
        <5> QED BY <1>1, <5>3, <5>4 DEF Separate
      <4> QED BY <4>1
    <3>4. (\E l \in Lists : n = Root(l)) \/ (\E i \in 1..size["scopes"] : n = OnStack(i)) => n \notin F
      BY <1>7, NodesDiffer
    <3>5. size2["scopes"] = size["scopes"]
      BY <1>1, <1>2
    <3>6. (IsCell(n, size2, blk) <=> (\E l \in Lists : n = Root(l)) \/ (\E i \in 1..size2["scopes"] : n = OnStack(i))
                                        \/ \E l \in Lists \ {"scopes"} : In2(l))
          /\ (IsCell(n, size, blk) <=> (\E l \in Lists : n = Root(l)) \/ (\E i \in 1..size["scopes"] : n = OnStack(i))
                                        \/ \E l \in Lists \ {"scopes"} : In(l))
      BY DEF IsCell
    <3> HIDE DEF In, In2, F
    <3>7. (\E l \in Lists \ {"scopes"} : In2(l)) <=> (\E l \in Lists \ {"scopes"} : In(l)) /\ n \notin F
      BY <3>1, <3>2, <3>3
    <3> QED BY <3>4, <3>5, <3>6, <3>7
  <2>2. \A n : (n \in Cells(size2, blk) <=> IsCell(n, size2, blk)) /\ (n \in D <=> IsCell(n, size, blk))
    BY <1>1, <1>2, KindsOfCells
  <2> HIDE DEF D, F
  <2> QED BY <2>1, <2>2
<1>12. Ring(new, ls, blk[ls], cont2[ls])
  <2>1. Place(ls, blk[ls], 0, 0) = Root(ls) /\ Place(ls, blk[ls], 0, 0 + 1) = Root(ls)
    BY DEF Place
  <2>2. Len(cont2[ls]) = 0
    BY <1>2
  <2>3. \A i \in 0..0 : i = 0
    OBVIOUS
  <2> HIDE DEF F, D
  <2> QED BY <1>9, <1>10, <2>1, <2>2, <2>3 DEF Ring
<1>13. ASSUME NEW m \in Lists \ {ls} PROVE Ring(new, m, blk[m], cont2[m])
  <2> DEFINE T == {ls}
  <2>1. ASSUME NEW x \in Cells(size, blk) PROVE OfLists(x, T, size, blk) \/ Same(new, mem, x)
    <3>1. CASE x = Root(ls)
      <4>1. size[ls] \in Nat /\ 0 \in 0..size[ls] /\ ls \in T
        BY <1>1
      <4>2. x = Place(ls, blk[ls], size[ls], 0)
        BY <3>1, <4>1, PlaceIs
      <4> QED BY <4>1, <4>2 DEF OfLists
    <3>2. CASE x \in F
      <4>1. PICK i \in 1..size[ls] : x = InBlock(blk[ls], i)
        BY <1>7, <3>2
      <4>2. size[ls] \in Nat /\ i \in 0..size[ls] /\ ls \in T
        BY <1>1
      <4>3. x = Place(ls, blk[ls], size[ls], i)
        BY ZenonT(60), <4>1, <4>2, PlaceIs
      <4> QED BY <4>2, <4>3 DEF OfLists
    <3>3. CASE x # Root(ls) /\ x \notin F
      <4> HIDE DEF F
      <4> QED BY <1>10, <3>3 DEF Same
    <3> QED BY <3>1, <3>2, <3>3
  <2>2. T \in SUBSET Lists
    OBVIOUS
  <2>3. m \in Lists \ T
    OBVIOUS
  <2>4. Shape(mem, size, need, cont, blk, calls)
    OBVIOUS
  <2> HIDE DEF T
  <2>5. Ring(new, m, blk[m], cont[m])
    BY ONLY <2>1, <2>2, <2>3, <2>4, OthersStay
  <2> QED BY <1>2, <2>5
<1>14. \A l \in Lists : Ring(new, l, blk[l], cont2[l])
  BY <1>12, <1>13
<1> HIDE DEF D, F
<1> QED BY <1>3, <1>10, <1>11, <1>14 DEF Shape

-------------------------------------------------------------------------------
\* The elements of a list go over to the root of another one.
GoesOver(new, mem, t, b, k) ==
    /\ new[Root(t)].next = IF k > 0 THEN InBlock(b, 1) ELSE Root(t)
    /\ new[Root(t)].prev = IF k > 0 THEN InBlock(b, k) ELSE Root(t)
    /\ \A i \in 1..k : /\ new[InBlock(b, i)].next = IF i = k THEN Root(t) ELSE mem[InBlock(b, i)].next
                       /\ new[InBlock(b, i)].prev = IF i = 1 THEN Root(t) ELSE mem[InBlock(b, i)].prev
                       /\ new[InBlock(b, i)].name = mem[InBlock(b, i)].name

LEMMA RingGoesOver ==
    ASSUME NEW mem, NEW new, NEW l, NEW t, NEW b, NEW s \in Seq(ScopeNames), l # "scopes", t # "scopes",
           Ring(mem, l, b, s), GoesOver(new, mem, t, b, Len(s))
    PROVE  Ring(new, t, b, s)
<1> DEFINE k == Len(s)
<1>1. k \in Nat
  OBVIOUS
<1>2. \A i \in 0..k : /\ mem[Place(l, b, k, i)].next = Place(l, b, k, i + 1)
                      /\ mem[Place(l, b, k, i + 1)].prev = Place(l, b, k, i)
                      /\ i > 0 => mem[Place(l, b, k, i)].name = s[i]
  BY DEF Ring
<1> HIDE DEF k
<1>3. /\ new[Root(t)].next = IF k > 0 THEN InBlock(b, 1) ELSE Root(t)
      /\ new[Root(t)].prev = IF k > 0 THEN InBlock(b, k) ELSE Root(t)
      /\ \A i \in 1..k : /\ new[InBlock(b, i)].next = IF i = k THEN Root(t) ELSE mem[InBlock(b, i)].next
                         /\ new[InBlock(b, i)].prev = IF i = 1 THEN Root(t) ELSE mem[InBlock(b, i)].prev
                         /\ new[InBlock(b, i)].name = mem[InBlock(b, i)].name
  BY DEF GoesOver, k
<1>4. \A i \in 1..k : Place(l, b, k, i) = InBlock(b, i) /\ Place(t, b, k, i) = InBlock(b, i)
  BY DEF Place
<1>5. \A i : i \notin 1..k => Place(t, b, k, i) = Root(t)
  BY DEF Place
<1>6. ASSUME NEW i \in 0..k
      PROVE  /\ new[Place(t, b, k, i)].next = Place(t, b, k, i + 1)
             /\ new[Place(t, b, k, i + 1)].prev = Place(t, b, k, i)
             /\ i > 0 => new[Place(t, b, k, i)].name = s[i]
  <2>1. new[Place(t, b, k, i)].next = Place(t, b, k, i + 1)
    <3>1. CASE i = 0
      <4>1. i \notin 1..k /\ (k > 0 => i + 1 \in 1..k) /\ (~(k > 0) => i + 1 \notin 1..k) /\ i + 1 = 1
        BY <1>1, <3>1
      <4> QED BY <1>3, <1>4, <1>5, <4>1
    <3>2. CASE i \in 1..k /\ i # k
      <4>1. i + 1 \in 1..k
        BY <1>1, <3>2
      <4>2. mem[InBlock(b, i)].next = InBlock(b, i + 1)
        BY <1>2, <1>4, <3>2, <4>1
      <4> QED BY <1>3, <1>4, <3>2, <4>1, <4>2
    <3>3. CASE i \in 1..k /\ i = k
      <4>1. i + 1 \notin 1..k
        BY <1>1, <3>3
      <4> QED BY <1>3, <1>4, <1>5, <3>3, <4>1
    <3> QED BY <1>1, <3>1, <3>2, <3>3
  <2>2. new[Place(t, b, k, i + 1)].prev = Place(t, b, k, i)
    <3>1. CASE i = k
      <4>1. i + 1 \notin 1..k /\ (k > 0 => k \in 1..k) /\ (~(k > 0) => k \notin 1..k)
        BY <1>1, <3>1
      <4> QED BY <1>3, <1>4, <1>5, <3>1, <4>1
    <3>2. CASE i + 1 \in 1..k /\ i # 0
      <4>1. i \in 1..k /\ i + 1 # 1
        BY <1>1, <3>2
      <4>2. mem[InBlock(b, i + 1)].prev = InBlock(b, i)
        BY <1>2, <1>4, <3>2, <4>1
      <4> QED BY <1>3, <1>4, <3>2, <4>1, <4>2
    <3>3. CASE i + 1 \in 1..k /\ i = 0
      <4>1. i \notin 1..k /\ i + 1 = 1
        BY <1>1, <3>3
      <4> QED BY <1>3, <1>4, <1>5, <3>3, <4>1
    <3> QED BY <1>1, <3>1, <3>2, <3>3
  <2>3. i > 0 => new[Place(t, b, k, i)].name = s[i]
    <3>1. i > 0 => i \in 1..k
      BY <1>1
    <3> QED BY <1>2, <1>3, <1>4, <3>1
  <2> QED BY <2>1, <2>2, <2>3
<1> QED BY <1>6 DEF Ring, k

\* What swap relies on of the two lists, and what it does.
IsEnded(mem, D, l, b, k) ==
    /\ Root(l) \in D /\ k \in Nat
    /\ mem[Root(l)].next = IF k > 0 THEN InBlock(b, 1) ELSE Root(l)
    /\ mem[Root(l)].prev = IF k > 0 THEN InBlock(b, k) ELSE Root(l)
    /\ \A i \in 1..k : InBlock(b, i) \in D

Touched(x, l, b, k) == x = Root(l) \/ (\E i \in 1..k : x = InBlock(b, i))

HasSwapped(new, mem, D, l, b, k, m, c, n) ==
    /\ new \in [D -> LinkRecs]
    /\ GoesOver(new, mem, m, b, k) /\ GoesOver(new, mem, l, c, n)
    /\ \A x \in D : Touched(x, l, b, k) \/ Touched(x, m, c, n) \/ Same(new, mem, x)

LEMMA MoveLinks ==
    ASSUME NEW D, NEW mem \in [D -> LinkRecs], NEW l, NEW b, NEW k, NEW m, NEW c, NEW n,
           IsEnded(mem, D, l, b, k), IsEnded(mem, D, m, c, n), k > 0, n = 0, l # m,
           Root(l) \in NodeIds, Root(m) \in NodeIds
    PROVE  HasSwapped(Moved(mem, l, m), mem, D, l, b, k, m, c, n)
<1> DEFINE f == mem[Root(l)]
           first == InBlock(b, 1)
           last == InBlock(b, k)
           r == Root(m)
           u == Assign(mem, first, "prev", r)
           v == Assign(u, last, "next", r)
           new == [v EXCEPT ![r] = f, ![Root(l)] = EmptyRoot(l)]
<1>1. /\ k \in Nat /\ 1 \in 1..k /\ k \in 1..k
      /\ Root(l) \in D /\ r \in D /\ r # Root(l)
      /\ f.next = first /\ f.prev = last /\ f \in LinkRecs
      /\ \A i \in 1..k : InBlock(b, i) \in D
      /\ \A i \in 1..k : InBlock(b, i) # r /\ InBlock(b, i) # Root(l)
      /\ \A i \in 1..k : (InBlock(b, i) = first <=> i = 1) /\ (InBlock(b, i) = last <=> i = k)
  <2>1. k \in Nat /\ 1 \in 1..k /\ k \in 1..k /\ Root(l) \in D /\ r \in D
        /\ f.next = first /\ f.prev = last /\ \A i \in 1..k : InBlock(b, i) \in D
    BY DEF IsEnded
  <2>2. f \in LinkRecs
    BY <2>1
  <2>3. \A i \in 1..k : InBlock(b, i) # r /\ InBlock(b, i) # Root(l)
    BY NodesDiffer
  <2>4. \A i \in 1..k : (InBlock(b, i) = first <=> i = 1) /\ (InBlock(b, i) = last <=> i = k)
    BY NodesDiffer
  <2>5. r # Root(l)
    BY NodesDiffer
  <2> HIDE DEF f, first, last, r
  <2> QED BY ONLY <2>1, <2>2, <2>3, <2>4, <2>5
<1>2. Moved(mem, l, m) = new
  BY <1>1 DEF Moved
<1>3. first \in D /\ last \in D /\ r \in NodeIds
  BY <1>1
<1> HIDE DEF f, first, last, r
<1>4. /\ u \in [D -> LinkRecs]
      /\ \A x \in D : /\ u[x].next = mem[x].next
                      /\ u[x].prev = IF x = first THEN r ELSE mem[x].prev
                      /\ u[x].name = mem[x].name
  BY <1>3, AssignsPrev
<1> HIDE DEF u
<1>5. /\ v \in [D -> LinkRecs]
      /\ \A x \in D : /\ v[x].next = IF x = last THEN r ELSE u[x].next
                      /\ v[x].prev = u[x].prev
                      /\ v[x].name = u[x].name
  BY <1>3, <1>4, AssignsNext
<1> HIDE DEF v
<1>6. EmptyRoot(l) \in LinkRecs /\ EmptyRoot(l).next = Root(l) /\ EmptyRoot(l).prev = Root(l)
  BY DEF EmptyRoot, LinkRecs
<1>7. /\ new \in [D -> LinkRecs] /\ new[r] = f /\ new[Root(l)] = EmptyRoot(l)
      /\ \A x \in D \ {r, Root(l)} : new[x] = v[x]
  BY <1>1, <1>5, <1>6
<1> HIDE DEF new
<1>8. GoesOver(new, mem, m, b, k)
  <2>1. ASSUME NEW i \in 1..k
        PROVE  /\ new[InBlock(b, i)].next = IF i = k THEN r ELSE mem[InBlock(b, i)].next
               /\ new[InBlock(b, i)].prev = IF i = 1 THEN r ELSE mem[InBlock(b, i)].prev
               /\ new[InBlock(b, i)].name = mem[InBlock(b, i)].name
    <3>1. PICK x : x = InBlock(b, i)
      OBVIOUS
    <3>2. x \in D \ {r, Root(l)} /\ (x = first <=> i = 1) /\ (x = last <=> i = k)
      BY <1>1, <3>1
    <3> QED BY <1>4, <1>5, <1>7, <3>1, <3>2
  <2>2. new[r].next = first /\ new[r].prev = last
    BY <1>1, <1>7
  <2> QED BY <2>1, <2>2 DEF GoesOver, first, last, r
<1>9. GoesOver(new, mem, l, c, n)
  <2>1. 1..n = {} /\ ~(n > 0)
    OBVIOUS
  <2> QED BY <1>6, <1>7, <2>1 DEF GoesOver
<1>10. ASSUME NEW x \in D PROVE Touched(x, l, b, k) \/ Touched(x, m, c, n) \/ Same(new, mem, x)
  <2>1. CASE x \in {r, Root(l), first, last}
    BY <1>1, <2>1 DEF Touched, r, first, last
  <2>2. CASE x \notin {r, Root(l), first, last}
    BY <1>4, <1>5, <1>7, <2>2 DEF Same
  <2> QED BY <2>1, <2>2
<1> QED BY <1>2, <1>7, <1>8, <1>9, <1>10 DEF HasSwapped

LEMMA ExchangeLinks ==
    ASSUME NEW D, NEW mem \in [D -> LinkRecs], NEW l, NEW b, NEW k, NEW m, NEW c, NEW n,
           IsEnded(mem, D, l, b, k), IsEnded(mem, D, m, c, n), k > 0, n > 0, l # m, b # c,
           Root(l) \in NodeIds, Root(m) \in NodeIds
    PROVE  HasSwapped(Exchanged(mem, l, m), mem, D, l, b, k, m, c, n)
<1> DEFINE rl == Root(l)
           rm == Root(m)
           f == mem[rl]
           g == mem[rm]
           first == InBlock(b, 1)
           last == InBlock(b, k)
           head == InBlock(c, 1)
           tail == InBlock(c, n)
           t == Assign(mem, first, "prev", rm)
           u == Assign(t, head, "prev", rl)
           v == Assign(u, last, "next", rm)
           w == Assign(v, tail, "next", rl)
           new == [w EXCEPT ![rl] = g, ![rm] = f]
<1>1. /\ rl \in D /\ rm \in D /\ f.next = first /\ f.prev = last /\ g.next = head /\ g.prev = tail
      /\ \A i \in 1..k : InBlock(b, i) \in D
      /\ \A i \in 1..n : InBlock(c, i) \in D
      /\ 1 \in 1..k /\ k \in 1..k /\ 1 \in 1..n /\ n \in 1..n
  <2>1. k \in Nat /\ n \in Nat
    BY DEF IsEnded
  <2> QED BY <2>1 DEF IsEnded
<1>2. f \in LinkRecs /\ g \in LinkRecs /\ rl # rm
  BY <1>1, NodesDiffer
<1>3. /\ \A i \in 1..k : /\ InBlock(b, i) \notin {rl, rm, head, tail}
                         /\ InBlock(b, i) = first <=> i = 1
                         /\ InBlock(b, i) = last <=> i = k
      /\ \A i \in 1..n : /\ InBlock(c, i) \notin {rl, rm, first, last}
                         /\ InBlock(c, i) = head <=> i = 1
                         /\ InBlock(c, i) = tail <=> i = n
  BY NodesDiffer
<1>4. Exchanged(mem, l, m) = new
  BY <1>1 DEF Exchanged
<1>5. first \in D /\ last \in D /\ head \in D /\ tail \in D /\ rl \in NodeIds /\ rm \in NodeIds
  BY <1>1
<1> HIDE DEF rl, rm, f, g, first, last, head, tail
<1>6. /\ t \in [D -> LinkRecs]
      /\ \A x \in D : /\ t[x].next = mem[x].next
                      /\ t[x].prev = IF x = first THEN rm ELSE mem[x].prev
                      /\ t[x].name = mem[x].name
  BY <1>5, AssignsPrev
<1> HIDE DEF t
<1>7. /\ u \in [D -> LinkRecs]
      /\ \A x \in D : /\ u[x].next = t[x].next
                      /\ u[x].prev = IF x = head THEN rl ELSE t[x].prev
                      /\ u[x].name = t[x].name
  BY <1>5, <1>6, AssignsPrev
<1> HIDE DEF u
<1>8. /\ v \in [D -> LinkRecs]
      /\ \A x \in D : /\ v[x].next = IF x = last THEN rm ELSE u[x].next
                      /\ v[x].prev = u[x].prev
                      /\ v[x].name = u[x].name
  BY <1>5, <1>7, AssignsNext
<1> HIDE DEF v
<1>9. /\ w \in [D -> LinkRecs]
      /\ \A x \in D : /\ w[x].next = IF x = tail THEN rl ELSE v[x].next
                      /\ w[x].prev = v[x].prev
                      /\ w[x].name = v[x].name
  BY <1>5, <1>8, AssignsNext
<1> HIDE DEF w
<1>10. /\ new \in [D -> LinkRecs] /\ new[rl] = g /\ new[rm] = f /\ \A x \in D \ {rl, rm} : new[x] = w[x]
  BY <1>1, <1>2, <1>9
<1> HIDE DEF new
<1>11. \A x \in D \ {rl, rm} :
          /\ new[x].next = IF x = tail THEN rl ELSE IF x = last THEN rm ELSE mem[x].next
          /\ new[x].prev = IF x = head THEN rl ELSE IF x = first THEN rm ELSE mem[x].prev
          /\ new[x].name = mem[x].name
  BY <1>6, <1>7, <1>8, <1>9, <1>10
<1>12. GoesOver(new, mem, m, b, k)
  <2>1. ASSUME NEW i \in 1..k
        PROVE  /\ new[InBlock(b, i)].next = IF i = k THEN rm ELSE mem[InBlock(b, i)].next
               /\ new[InBlock(b, i)].prev = IF i = 1 THEN rm ELSE mem[InBlock(b, i)].prev
               /\ new[InBlock(b, i)].name = mem[InBlock(b, i)].name
    <3>1. PICK x : x = InBlock(b, i)
      OBVIOUS
    <3>2. x \in D \ {rl, rm} /\ x # head /\ x # tail /\ (x = first <=> i = 1) /\ (x = last <=> i = k)
      BY <1>1, <1>3, <3>1
    <3> QED BY <1>11, <3>1, <3>2
  <2>2. new[rm].next = first /\ new[rm].prev = last
    BY <1>1, <1>10
  <2> QED BY <2>1, <2>2 DEF GoesOver, first, last, rm
<1>13. GoesOver(new, mem, l, c, n)
  <2>1. ASSUME NEW i \in 1..n
        PROVE  /\ new[InBlock(c, i)].next = IF i = n THEN rl ELSE mem[InBlock(c, i)].next
               /\ new[InBlock(c, i)].prev = IF i = 1 THEN rl ELSE mem[InBlock(c, i)].prev
               /\ new[InBlock(c, i)].name = mem[InBlock(c, i)].name
    <3>1. PICK x : x = InBlock(c, i)
      OBVIOUS
    <3>2. x \in D \ {rl, rm} /\ x # first /\ x # last /\ (x = head <=> i = 1) /\ (x = tail <=> i = n)
      BY <1>1, <1>3, <3>1
    <3> QED BY <1>11, <3>1, <3>2
  <2>2. new[rl].next = head /\ new[rl].prev = tail
    BY <1>1, <1>10
  <2> QED BY <2>1, <2>2 DEF GoesOver, head, tail, rl
<1>14. ASSUME NEW x \in D PROVE Touched(x, l, b, k) \/ Touched(x, m, c, n) \/ Same(new, mem, x)
  <2>1. CASE x \in {rl, rm, first, last, head, tail}
    BY <1>1, <2>1 DEF Touched, rl, rm, first, last, head, tail
  <2>2. CASE x \notin {rl, rm, first, last, head, tail}
    BY <1>11, <2>2 DEF Same
  <2> QED BY <2>1, <2>2
<1> QED BY <1>4, <1>10, <1>12, <1>13, <1>14 DEF HasSwapped

\* swap, for lists of the given sizes.
SwappedIn(mem, size, a, b) ==
    IF size[a] > 0 /\ size[b] > 0 THEN Exchanged(mem, a, b)
    ELSE IF size[a] > 0 THEN Moved(mem, a, b)
    ELSE IF size[b] > 0 THEN Moved(mem, b, a)
    ELSE mem

LEMMA SwapLinks ==
    ASSUME NEW D, NEW mem \in [D -> LinkRecs], NEW size, NEW l, NEW b, NEW k, NEW m, NEW c, NEW n,
           IsEnded(mem, D, l, b, k), IsEnded(mem, D, m, c, n), l # m, k > 0 /\ n > 0 => b # c,
           k = size[l], n = size[m], Root(l) \in NodeIds, Root(m) \in NodeIds
    PROVE  HasSwapped(SwappedIn(mem, size, l, m), mem, D, l, b, k, m, c, n)
<1>1. k \in Nat /\ n \in Nat
  BY DEF IsEnded
<1>2. CASE k > 0 /\ n > 0
  <2>1. SwappedIn(mem, size, l, m) = Exchanged(mem, l, m)
    BY <1>2 DEF SwappedIn
  <2> QED BY <1>2, <2>1, ExchangeLinks
<1>3. CASE k > 0 /\ n = 0
  <2>1. SwappedIn(mem, size, l, m) = Moved(mem, l, m)
    BY <1>3 DEF SwappedIn
  <2> QED BY <1>3, <2>1, MoveLinks
<1>4. CASE k = 0 /\ n > 0
  <2>1. SwappedIn(mem, size, l, m) = Moved(mem, m, l)
    BY <1>4 DEF SwappedIn
  <2>2. HasSwapped(Moved(mem, m, l), mem, D, m, c, n, l, b, k)
    BY <1>4, MoveLinks
  <2> QED BY <2>1, <2>2 DEF HasSwapped
<1>5. CASE k = 0 /\ n = 0
  <2>1. SwappedIn(mem, size, l, m) = mem
    BY <1>5 DEF SwappedIn
  <2>2. 1..k = {} /\ 1..n = {} /\ ~(k > 0) /\ ~(n > 0)
    BY <1>5
  <2>3. GoesOver(mem, mem, m, b, k) /\ GoesOver(mem, mem, l, c, n)
    BY <2>2 DEF GoesOver, IsEnded
  <2>4. \A x \in D : Same(mem, mem, x)
    BY DEF Same
  <2> QED BY <2>1, <2>3, <2>4 DEF HasSwapped
<1> QED BY <1>1, <1>2, <1>3, <1>4, <1>5

SwapOf(new, size2, need2, cont2, blk2, mem, size, need, cont, blk, a, b) ==
    /\ new = SwappedIn(mem, size, a, b)
    /\ size2 = [size EXCEPT ![a] = size[b], ![b] = size[a]]
    /\ need2 = [need EXCEPT ![a] = need[b], ![b] = need[a]]
    /\ cont2 = [cont EXCEPT ![a] = cont[b], ![b] = cont[a]]
    /\ blk2 = [blk EXCEPT ![a] = blk[b], ![b] = blk[a]]

LEMMA SwapShape ==
    ASSUME NEW mem, NEW size, NEW need, NEW cont, NEW blk, NEW calls, Shape(mem, size, need, cont, blk, calls),
           NEW a \in Lists \ {"scopes"}, NEW b \in Lists \ {"scopes", a},
           NEW new, NEW size2, NEW need2, NEW cont2, NEW blk2,
           SwapOf(new, size2, need2, cont2, blk2, mem, size, need, cont, blk, a, b)
    PROVE  Shape(new, size2, need2, cont2, blk2, calls + 1)
<1> DEFINE D == Cells(size, blk)
<1>1. /\ new = SwappedIn(mem, size, a, b)
      /\ size2 = [size EXCEPT ![a] = size[b], ![b] = size[a]]
      /\ need2 = [need EXCEPT ![a] = need[b], ![b] = need[a]]
      /\ cont2 = [cont EXCEPT ![a] = cont[b], ![b] = cont[a]]
      /\ blk2 = [blk EXCEPT ![a] = blk[b], ![b] = blk[a]]
  BY DEF SwapOf
<1>2. /\ size \in [Lists -> Nat] /\ need \in [Lists -> BOOLEAN] /\ cont \in [Lists -> Seq(ScopeNames)]
      /\ blk \in [Lists -> Nat] /\ calls \in Nat /\ Separate(size, blk) /\ "scopes" \in Lists
      /\ \A l \in Lists : /\ Len(cont[l]) = size[l]
                          /\ need[l] <=> l # "scopes" /\ size[l] > 0
                          /\ l # "scopes" /\ size[l] > 0 => blk[l] < calls
      /\ mem \in [D -> LinkRecs] /\ \A l \in Lists : Ring(mem, l, blk[l], cont[l])
  BY DEF Shape, Books, Lists
<1>3. /\ size2 \in [Lists -> Nat] /\ size2[a] = size[b] /\ size2[b] = size[a] /\ \A l \in Lists \ {a, b} : size2[l] = size[l]
      /\ cont2 \in [Lists -> Seq(ScopeNames)] /\ cont2[a] = cont[b] /\ cont2[b] = cont[a]
      /\ \A l \in Lists \ {a, b} : cont2[l] = cont[l]
      /\ blk2 \in [Lists -> Nat] /\ blk2[a] = blk[b] /\ blk2[b] = blk[a] /\ \A l \in Lists \ {a, b} : blk2[l] = blk[l]
      /\ need2 \in [Lists -> BOOLEAN] /\ (need2[a] <=> need[b]) /\ (need2[b] <=> need[a])
      /\ \A l \in Lists \ {a, b} : need2[l] = need[l]
  <2>1. size2 \in [Lists -> Nat] /\ size2[a] = size[b] /\ size2[b] = size[a] /\ \A l \in Lists \ {a, b} : size2[l] = size[l]
    BY <1>1, <1>2
  <2>2. /\ cont2 \in [Lists -> Seq(ScopeNames)] /\ cont2[a] = cont[b] /\ cont2[b] = cont[a]
        /\ \A l \in Lists \ {a, b} : cont2[l] = cont[l]
    BY <1>1, <1>2
  <2>3. blk2 \in [Lists -> Nat] /\ blk2[a] = blk[b] /\ blk2[b] = blk[a] /\ \A l \in Lists \ {a, b} : blk2[l] = blk[l]
    BY <1>1, <1>2
  <2>4. /\ need2 \in [Lists -> BOOLEAN] /\ (need2[a] <=> need[b]) /\ (need2[b] <=> need[a])
        /\ \A l \in Lists \ {a, b} : need2[l] = need[l]
    BY <1>1, <1>2
  <2> QED BY ONLY <2>1, <2>2, <2>3, <2>4
<1>4. Books(size2, need2, cont2, blk2, calls + 1)
  <2>1. Separate(size2, blk2)
    <3>1. ASSUME NEW l \in Lists \ {"scopes"}, NEW m \in Lists \ {"scopes"}, size2[l] > 0, size2[m] > 0, blk2[l] = blk2[m]
          PROVE  l = m
      <4> DEFINE was(x) == IF x = a THEN b ELSE IF x = b THEN a ELSE x
      <4>1. \A x \in Lists \ {"scopes"} : was(x) \in Lists \ {"scopes"} /\ size2[x] = size[was(x)] /\ blk2[x] = blk[was(x)]
        BY <1>3
      <4>2. was(l) = was(m) => l = m
        OBVIOUS
      <4> HIDE DEF was
      <4>3. /\ was(l) \in Lists \ {"scopes"} /\ was(m) \in Lists \ {"scopes"}
            /\ size[was(l)] > 0 /\ size[was(m)] > 0 /\ blk[was(l)] = blk[was(m)]
        BY <3>1, <4>1
      <4>4. Separate(size, blk)
        BY <1>2
      <4>5. was(l) = was(m)
        BY ONLY <4>3, <4>4 DEF Separate
      <4> QED BY <4>2, <4>5
    <3> QED BY <3>1 DEF Separate
  <2>2. ASSUME NEW l \in Lists
        PROVE  /\ Len(cont2[l]) = size2[l]
               /\ need2[l] <=> l # "scopes" /\ size2[l] > 0
               /\ l # "scopes" /\ size2[l] > 0 => blk2[l] < calls + 1
    <3>1. CASE l = a
      BY <1>2, <1>3, <3>1
    <3>2. CASE l = b
      BY <1>2, <1>3, <3>2
    <3>3. CASE l # a /\ l # b
      BY <1>2, <1>3, <3>3
    <3> QED BY <3>1, <3>2, <3>3
  <2>3. calls + 1 \in Nat
    BY <1>2
  <2> QED BY ONLY <1>3, <2>1, <2>2, <2>3 DEF Books
<1>5. ASSUME NEW l \in Lists \ {"scopes"} PROVE IsEnded(mem, D, l, blk[l], size[l])
  <2>1. size[l] \in Nat /\ Len(cont[l]) = size[l] /\ Ring(mem, l, blk[l], cont[l])
    BY <1>2
  <2>2. \A i \in 0..size[l] : /\ mem[Place(l, blk[l], size[l], i)].next = Place(l, blk[l], size[l], i + 1)
                              /\ mem[Place(l, blk[l], size[l], i + 1)].prev = Place(l, blk[l], size[l], i)
    BY <2>1 DEF Ring
  <2>3. Place(l, blk[l], size[l], 0) = Root(l) /\ Place(l, blk[l], size[l], size[l] + 1) = Root(l)
    BY <2>1, PlaceIs
  <2>4. \A i \in 1..size[l] : Place(l, blk[l], size[l], i) = InBlock(blk[l], i)
    BY DEF Place
  <2>5. \A i \in 0..size[l] : Place(l, blk[l], size[l], i) \in D
    BY <1>2, CellsAre
  <2>6. 0 \in 0..size[l] /\ size[l] \in 0..size[l] /\ 0 + 1 = 1
        /\ (size[l] > 0 => 1 \in 1..size[l] /\ size[l] \in 1..size[l]) /\ (~(size[l] > 0) => size[l] = 0)
        /\ \A i \in 1..size[l] : i \in 0..size[l]
    BY <2>1
  <2>7. mem[Root(l)].next = Place(l, blk[l], size[l], 1) /\ mem[Root(l)].prev = Place(l, blk[l], size[l], size[l])
    BY <2>2, <2>3, <2>6
  <2> HIDE DEF D
  <2>8. Place(l, blk[l], size[l], 1) = IF size[l] > 0 THEN InBlock(blk[l], 1) ELSE Root(l)
    BY <2>3, <2>4, <2>6
  <2>9. Place(l, blk[l], size[l], size[l]) = IF size[l] > 0 THEN InBlock(blk[l], size[l]) ELSE Root(l)
    BY <2>3, <2>4, <2>6
  <2>10. Root(l) \in D /\ \A i \in 1..size[l] : InBlock(blk[l], i) \in D
    BY <2>3, <2>4, <2>5, <2>6
  <2> QED BY <2>1, <2>7, <2>8, <2>9, <2>10 DEF IsEnded
<1>6. HasSwapped(new, mem, D, a, blk[a], size[a], b, blk[b], size[b])
  <2>1. Root(a) \in NodeIds /\ Root(b) \in NodeIds
    BY DEF NodeIds, Roots
  <2>2. size[a] > 0 /\ size[b] > 0 => blk[a] # blk[b]
    BY <1>2 DEF Separate
  <2> HIDE DEF D
  <2> QED BY <1>1, <1>2, <1>5, <2>1, <2>2, SwapLinks
<1> HIDE DEF D
<1>7. /\ new \in [D -> LinkRecs]
      /\ GoesOver(new, mem, b, blk[a], size[a]) /\ GoesOver(new, mem, a, blk[b], size[b])
      /\ \A x \in D : Touched(x, a, blk[a], size[a]) \/ Touched(x, b, blk[b], size[b]) \/ Same(new, mem, x)
  BY <1>6 DEF HasSwapped
<1>8. Ring(new, b, blk[a], cont[a]) /\ Ring(new, a, blk[b], cont[b])
  BY <1>2, <1>7, RingGoesOver
<1>9. Cells(size2, blk2) = D
  <2>1. ASSUME NEW x PROVE IsCell(x, size2, blk2) <=> IsCell(x, size, blk)
    <3> DEFINE In(l) == \E i \in 1..size[l] : x = InBlock(blk[l], i)
               In2(l) == \E i \in 1..size2[l] : x = InBlock(blk2[l], i)
    <3>1. (In2(a) <=> In(b)) /\ (In2(b) <=> In(a)) /\ \A l \in Lists \ {a, b} : In2(l) <=> In(l)
      BY <1>3
    <3>2. size2["scopes"] = size["scopes"]
      BY <1>2, <1>3
    <3>3. (IsCell(x, size2, blk2) <=> (\E l \in Lists : x = Root(l)) \/ (\E i \in 1..size2["scopes"] : x = OnStack(i))
                                        \/ \E l \in Lists \ {"scopes"} : In2(l))
          /\ (IsCell(x, size, blk) <=> (\E l \in Lists : x = Root(l)) \/ (\E i \in 1..size["scopes"] : x = OnStack(i))
                                        \/ \E l \in Lists \ {"scopes"} : In(l))
      BY DEF IsCell
    <3> HIDE DEF In, In2
    <3>4. (\E l \in Lists \ {"scopes"} : In2(l)) <=> (\E l \in Lists \ {"scopes"} : In(l))
      BY <3>1
    <3> QED BY <3>2, <3>3, <3>4
  <2>2. \A x : (x \in Cells(size2, blk2) <=> IsCell(x, size2, blk2)) /\ (x \in D <=> IsCell(x, size, blk))
    BY <1>2, <1>3, KindsOfCells DEF D
  <2> QED BY <2>1, <2>2
<1>10. ASSUME NEW m \in Lists \ {a, b} PROVE Ring(new, m, blk2[m], cont2[m])
  <2> DEFINE T == {a, b}
  <2>1. ASSUME NEW x \in Cells(size, blk) PROVE OfLists(x, T, size, blk) \/ Same(new, mem, x)
    <3>1. ASSUME NEW l \in T, Touched(x, l, blk[l], size[l]) PROVE OfLists(x, T, size, blk)
      <4>1. size[l] \in Nat /\ 0 \in 0..size[l] /\ l # "scopes"
        BY <1>2
      <4>2. CASE x = Root(l)
        <5>1. x = Place(l, blk[l], size[l], 0)
          BY <4>1, <4>2, PlaceIs
        <5> QED BY <4>1, <5>1 DEF OfLists
      <4>3. CASE \E i \in 1..size[l] : x = InBlock(blk[l], i)
        <5>1. PICK i \in 1..size[l] : x = InBlock(blk[l], i)
          BY <4>3
        <5>2. i \in 0..size[l] /\ x = Place(l, blk[l], size[l], i)
          BY <4>1, <5>1 DEF Place
        <5> QED BY <5>2 DEF OfLists
      <4> QED BY <3>1, <4>2, <4>3 DEF Touched
    <3> QED BY <1>7, <3>1 DEF D
  <2>2. T \in SUBSET Lists
    OBVIOUS
  <2>3. m \in Lists \ T
    OBVIOUS
  <2>4. Shape(mem, size, need, cont, blk, calls)
    OBVIOUS
  <2> HIDE DEF T
  <2>5. Ring(new, m, blk[m], cont[m])
    BY ONLY <2>1, <2>2, <2>3, <2>4, OthersStay
  <2> QED BY <1>3, <2>5
<1>11. \A l \in Lists : Ring(new, l, blk2[l], cont2[l])
  BY <1>3, <1>8, <1>10
<1> QED BY <1>4, <1>7, <1>9, <1>11 DEF Shape

LEMMA NSInitHolds == NSInit => NSInv
<1> SUFFICES ASSUME NSInit PROVE NSInv
  OBVIOUS
<1> DEFINE blk == [l \in Lists |-> 0]
<1>1. /\ links = [r \in Roots |-> EmptyRoot(r.list)] /\ m_Size = [l \in Lists |-> 0]
      /\ needToDeallocate = [l \in Lists |-> FALSE] /\ contents = [l \in Lists |-> <<>>]
      /\ nsCalls = 0 /\ pushed = "no"
  BY DEF NSInit
<1>2. /\ m_Size \in [Lists -> Nat] /\ needToDeallocate \in [Lists -> BOOLEAN] /\ nsCalls \in Nat
      /\ \A l \in Lists : m_Size[l] = 0 /\ needToDeallocate[l] = FALSE
      /\ blk \in [Lists -> Nat]
  BY <1>1
<1>3. contents \in [Lists -> Seq(ScopeNames)] /\ \A l \in Lists : contents[l] = <<>> /\ Len(contents[l]) = 0
  <2>1. <<>> \in Seq(ScopeNames) /\ Len(<<>>) = 0
    OBVIOUS
  <2> QED BY <1>1, <2>1
<1> HIDE DEF blk
<1>4. Books(m_Size, needToDeallocate, contents, blk, nsCalls)
  <2>1. Separate(m_Size, blk)
    BY <1>2 DEF Separate
  <2> QED BY <1>2, <1>3, <2>1 DEF Books
<1>5. Cells(m_Size, blk) = Roots
  <2>1. ASSUME NEW n PROVE n \in Cells(m_Size, blk) <=> n \in Roots
    <3>1. "scopes" \in Lists
      BY DEF Lists
    <3>2. \A l \in Lists : ~\E i \in 1..m_Size[l] : TRUE
      BY <1>2
    <3>3. IsCell(n, m_Size, blk) <=> \E l \in Lists : n = Root(l)
      BY <3>1, <3>2 DEF IsCell
    <3> QED BY <1>2, <3>3, KindsOfCells DEF Roots
  <2> QED BY <2>1
<1>6. \A l \in Lists : links[Root(l)] = EmptyRoot(l)
  <2>1. ASSUME NEW l \in Lists PROVE Root(l) \in Roots /\ Root(l).list = l
    BY DEF Roots, Root
  <2> QED BY <1>1, <2>1
<1>7. \A l \in Lists : /\ EmptyRoot(l) \in LinkRecs
                       /\ EmptyRoot(l).prev = Root(l) /\ EmptyRoot(l).next = Root(l)
  <2>1. ASSUME NEW l \in Lists PROVE Root(l) \in NodeIds
    BY DEF NodeIds, Roots
  <2> QED BY <2>1 DEF EmptyRoot, LinkRecs
<1>8. links \in [Roots -> LinkRecs]
  <2>1. \A r \in Roots : \E l \in Lists : r = Root(l)
    BY DEF Roots
  <2>2. \A r \in Roots : links[r] \in LinkRecs
    BY <1>6, <1>7, <2>1
  <2> QED BY <1>1, <2>2
<1>9. ASSUME NEW l \in Lists PROVE Ring(links, l, blk[l], contents[l])
  <2>1. Place(l, blk[l], 0, 0) = Root(l) /\ Place(l, blk[l], 0, 0 + 1) = Root(l)
    BY PlaceIs
  <2>2. Len(contents[l]) = 0 /\ \A i \in 0..0 : i = 0
    BY <1>3
  <2>3. links[Root(l)].next = Root(l) /\ links[Root(l)].prev = Root(l)
    BY <1>6, <1>7
  <2> QED BY <2>1, <2>2, <2>3 DEF Ring
<1>10. Shape(links, m_Size, needToDeallocate, contents, blk, nsCalls)
  BY <1>4, <1>5, <1>8, <1>9 DEF Shape
<1>11. m_Size["detached"] = 0
  BY <1>2 DEF Lists
<1> QED BY <1>1, <1>10, <1>11 DEF NSInv

\* A call that leaves the lists leaves the invariant.
LEMMA ShapeLasts ==
    ASSUME NEW mem, NEW size, NEW need, NEW cont, NEW blk, NEW calls, Shape(mem, size, need, cont, blk, calls)
    PROVE  Shape(mem, size, need, cont, blk, calls + 1)
<1>1. Books(size, need, cont, blk, calls + 1)
  BY DEF Shape, Books
<1> QED BY <1>1 DEF Shape

LEMMA NSStep == NSInv /\ [NSNext]_nsVars => NSInv'
<1> SUFFICES ASSUME NSInv, [NSNext]_nsVars PROVE NSInv'
  OBVIOUS
<1>1. PICK blk : Shape(links, m_Size, needToDeallocate, contents, blk, nsCalls)
  BY DEF NSInv
<1>2. pushed \in {"no", "open", "detached"} /\ (pushed # "detached" => m_Size["detached"] = 0)
  BY DEF NSInv
<1>3. /\ m_Size \in [Lists -> Nat] /\ needToDeallocate \in [Lists -> BOOLEAN]
      /\ contents \in [Lists -> Seq(ScopeNames)] /\ blk \in [Lists -> Nat] /\ nsCalls \in Nat
  BY <1>1 DEF Shape, Books
<1>4. "scopes" \in Lists /\ "detached" \in Lists /\ UserLists \subseteq Lists \ {"scopes", "detached"}
  BY NamedScopesAssumptions DEF Lists
<1>5. ASSUME NEW b, Shape(links', m_Size', needToDeallocate', contents', b, nsCalls'),
             pushed' \in {"no", "open", "detached"}, pushed' # "detached" => m_Size'["detached"] = 0
      PROVE  NSInv'
  BY <1>5 DEF NSInv
<1>6. ASSUME NEW name \in ScopeNames, push_scope(name) PROVE NSInv'
  <2>1. links' = Pushed(links, m_Size["scopes"], name)
    BY <1>6 DEF push_scope, Pushed
  <2>2. /\ m_Size' = [m_Size EXCEPT !["scopes"] = m_Size["scopes"] + 1]
        /\ contents' = [contents EXCEPT !["scopes"] = Append(contents["scopes"], name)]
        /\ needToDeallocate' = needToDeallocate /\ pushed' = pushed /\ nsCalls' = nsCalls + 1
    BY <1>6 DEF push_scope, NSCall
  <2>3. m_Size'["detached"] = m_Size["detached"]
    BY <1>3, <1>4, <2>2
  <2>4. Shape(links', m_Size', needToDeallocate', contents', blk, nsCalls')
    BY <1>1, <2>1, <2>2, PushShape
  <2> QED BY <1>2, <1>5, <2>2, <2>3, <2>4
<1>7. ASSUME pop_scope PROVE NSInv'
  <2>1. links' = Popped(links)
    BY <1>7 DEF pop_scope, Popped
  <2>2. /\ m_Size' = [m_Size EXCEPT !["scopes"] = m_Size["scopes"] - 1] /\ m_Size["scopes"] > 0
        /\ contents' = [contents EXCEPT !["scopes"] = SubSeq(contents["scopes"], 1, Len(contents["scopes"]) - 1)]
        /\ needToDeallocate' = needToDeallocate /\ pushed' = pushed /\ nsCalls' = nsCalls + 1
    BY <1>7 DEF pop_scope, NSCall
  <2>3. m_Size'["detached"] = m_Size["detached"]
    BY <1>3, <1>4, <2>2
  <2>4. Shape(links', m_Size', needToDeallocate', contents', blk, nsCalls')
    BY <1>1, <2>1, <2>2, PopShape
  <2> QED BY <1>2, <1>5, <2>2, <2>3, <2>4
<1>8. ASSUME get_value PROVE NSInv'
  <2>1. /\ links' = links /\ m_Size' = m_Size /\ needToDeallocate' = needToDeallocate /\ contents' = contents
        /\ nsCalls' = nsCalls + 1 /\ pushed = "no" /\ pushed' = "open"
    BY <1>8 DEF get_value, NSCall
  <2>2. Shape(links', m_Size', needToDeallocate', contents', blk, nsCalls')
    BY <1>1, <2>1, ShapeLasts
  <2> QED BY <1>2, <1>5, <2>1, <2>2
<1>9. ASSUME detach_from_thread PROVE NSInv'
  <2> DEFINE k == m_Size["scopes"]
             blk2 == [blk EXCEPT !["detached"] = nsCalls]
  <2>1. links' = CopiedTo(links, nsCalls, "detached", "scopes", k)
    BY <1>9 DEF detach_from_thread, CopyOf, CopiedTo
  <2>2. /\ m_Size' = [m_Size EXCEPT !["detached"] = k]
        /\ needToDeallocate' = [needToDeallocate EXCEPT !["detached"] = k > 0]
        /\ contents' = [contents EXCEPT !["detached"] = contents["scopes"]]
        /\ nsCalls' = nsCalls + 1 /\ pushed = "open" /\ pushed' = "detached"
    BY <1>9 DEF detach_from_thread, NSCall
  <2>3. "detached" \in Lists \ {"scopes"} /\ "scopes" \in Lists \ {"detached"} /\ m_Size["detached"] = 0
    BY <1>2, <1>4, <2>2
  <2>4. CopyMade(links', m_Size', needToDeallocate', contents', blk2, links, m_Size, needToDeallocate, contents, blk,
                  nsCalls, "detached", "scopes")
    BY <2>1, <2>2 DEF CopyMade
  <2> HIDE DEF blk2
  <2>5. Shape(links', m_Size', needToDeallocate', contents', blk2, nsCalls')
    BY <1>1, <2>2, <2>3, <2>4, CopyShape
  <2> QED BY <1>5, <2>2, <2>5
<1>10. ASSUME release_value PROVE NSInv'
  <2>1. links' = Cleared(links, "detached", needToDeallocate["detached"])
    BY <1>10 DEF release_value, Destroyed, Cleared, BlockNodes
  <2>2. /\ m_Size' = [m_Size EXCEPT !["detached"] = 0]
        /\ needToDeallocate' = [needToDeallocate EXCEPT !["detached"] = FALSE]
        /\ contents' = [contents EXCEPT !["detached"] = <<>>]
        /\ nsCalls' = nsCalls + 1 /\ pushed' = "no"
    BY <1>10 DEF release_value, NSCall
  <2>3. "detached" \in Lists \ {"scopes"} /\ nsCalls + 1 \in Nat /\ nsCalls <= nsCalls + 1
    BY <1>3, <1>4
  <2>4. Shape(links', m_Size', needToDeallocate', contents', blk, nsCalls')
    BY <1>1, <2>1, <2>2, <2>3, ClearShape
  <2>5. m_Size'["detached"] = 0
    BY <1>3, <1>4, <2>2
  <2> QED BY <1>5, <2>2, <2>4, <2>5
<1>11. ASSUME NEW ls \in UserLists, NEW source \in Lists, assign(ls, source) PROVE NSInv'
  <2> DEFINE mem == Cleared(links, ls, needToDeallocate[ls])
             size == [m_Size EXCEPT ![ls] = 0]
             need == [needToDeallocate EXCEPT ![ls] = FALSE]
             cont == [contents EXCEPT ![ls] = <<>>]
             k == size[source]
             blk2 == [blk EXCEPT ![ls] = nsCalls]
  <2>1. ls \in Lists \ {"scopes", "detached"} /\ source \in Lists \ {ls}
    BY <1>4, <1>11 DEF assign
  <2>2. Shape(mem, size, need, cont, blk, nsCalls)
    <3>1. /\ mem = Cleared(links, ls, needToDeallocate[ls]) /\ size = [m_Size EXCEPT ![ls] = 0]
          /\ need = [needToDeallocate EXCEPT ![ls] = FALSE] /\ cont = [contents EXCEPT ![ls] = <<>>]
      OBVIOUS
    <3>2. nsCalls \in Nat /\ nsCalls <= nsCalls /\ ls \in Lists \ {"scopes"}
      BY <1>3, <2>1
    <3> HIDE DEF mem, size, need, cont
    <3> QED BY ONLY <1>1, <3>1, <3>2, ClearShape
  <2>3. /\ k = m_Size[source] /\ cont[source] = contents[source] /\ size[ls] = 0
        /\ size \in [Lists -> Nat]
    BY <1>3, <2>1
  <2>4. links' = CopiedTo(mem, nsCalls, ls, source, m_Size[source])
    BY <1>11 DEF assign, Destroyed, Cleared, BlockNodes, CopyOf, CopiedTo
  <2>5. /\ m_Size' = [m_Size EXCEPT ![ls] = m_Size[source]]
        /\ needToDeallocate' = [needToDeallocate EXCEPT ![ls] = m_Size[source] > 0]
        /\ contents' = [contents EXCEPT ![ls] = contents[source]]
        /\ nsCalls' = nsCalls + 1 /\ pushed' = pushed
    BY <1>11 DEF assign, NSCall
  <2>6. /\ m_Size' = [size EXCEPT ![ls] = k]
        /\ needToDeallocate' = [need EXCEPT ![ls] = k > 0]
        /\ contents' = [cont EXCEPT ![ls] = cont[source]]
    <3>1. k = m_Size[source] /\ cont[source] = contents[source]
      BY <2>3
    <3> HIDE DEF k
    <3>2. m_Size' = [size EXCEPT ![ls] = k]
      BY <2>5, <3>1
    <3>3. needToDeallocate' = [need EXCEPT ![ls] = k > 0]
      BY <2>5, <3>1
    <3>4. contents' = [cont EXCEPT ![ls] = cont[source]]
      BY <2>5, <3>1
    <3> QED BY <3>2, <3>3, <3>4
  <2>7. m_Size'["detached"] = m_Size["detached"]
    BY <1>3, <1>4, <2>1, <2>5
  <2>8. links' = CopiedTo(mem, nsCalls, ls, source, k)
    BY <2>3, <2>4
  <2> HIDE DEF mem, size, need, cont, blk2
  <2>9. blk2 = [blk EXCEPT ![ls] = nsCalls] /\ k = size[source] /\ ls \in Lists \ {"scopes"}
    BY <2>1 DEF blk2
  <2> HIDE DEF k
  <2>10. CopyMade(links', m_Size', needToDeallocate', contents', blk2, mem, size, need, cont, blk, nsCalls, ls, source)
    BY <2>6, <2>8, <2>9 DEF CopyMade
  <2>11. Shape(links', m_Size', needToDeallocate', contents', blk2, nsCalls + 1)
    BY ONLY <2>1, <2>2, <2>3, <2>9, <2>10, CopyShape
  <2> QED BY <1>2, <1>5, <2>5, <2>7, <2>11
<1>12. ASSUME NEW a \in UserLists, NEW b \in UserLists, swap_lists(a, b) PROVE NSInv'
  <2> DEFINE blk2 == [blk EXCEPT ![a] = blk[b], ![b] = blk[a]]
  <2>1. links' = SwappedIn(links, m_Size, a, b)
    BY <1>12 DEF swap_lists, Swapped, SwappedIn
  <2>2. /\ m_Size' = [m_Size EXCEPT ![a] = m_Size[b], ![b] = m_Size[a]]
        /\ needToDeallocate' = [needToDeallocate EXCEPT ![a] = needToDeallocate[b], ![b] = needToDeallocate[a]]
        /\ contents' = [contents EXCEPT ![a] = contents[b], ![b] = contents[a]]
        /\ nsCalls' = nsCalls + 1 /\ pushed' = pushed
    BY <1>12 DEF swap_lists, NSCall
  <2>3. a \in Lists \ {"scopes"} /\ b \in Lists \ {"scopes", a} /\ "detached" \notin {a, b}
    BY <1>4, <1>12 DEF swap_lists
  <2>4. Shape(links', m_Size', needToDeallocate', contents', blk2, nsCalls')
    <3>1. SwapOf(links', m_Size', needToDeallocate', contents', blk2, links, m_Size, needToDeallocate, contents, blk, a, b)
      BY <2>1, <2>2 DEF SwapOf
    <3> HIDE DEF blk2
    <3>2. Shape(links', m_Size', needToDeallocate', contents', blk2, nsCalls + 1)
      BY ONLY <1>1, <2>3, <3>1, SwapShape
    <3> QED BY <2>2, <3>2
  <2>5. m_Size'["detached"] = m_Size["detached"]
    BY <1>3, <1>4, <2>2, <2>3
  <2> HIDE DEF blk2
  <2> QED BY <1>2, <1>5, <2>2, <2>4, <2>5
<1>13. ASSUME UNCHANGED nsVars PROVE NSInv'
  <2>1. /\ links' = links /\ m_Size' = m_Size /\ needToDeallocate' = needToDeallocate /\ contents' = contents
        /\ nsCalls' = nsCalls /\ pushed' = pushed
    BY <1>13 DEF nsVars
  <2> QED BY <1>1, <1>2, <1>5, <2>1
<1> QED BY <1>6, <1>7, <1>8, <1>9, <1>10, <1>11, <1>12, <1>13 DEF NSNext

\* The theorem: however scopes are entered and left and lists assigned, swapped,
\* detached and destroyed, every list of scopes reads the same forwards and
\* backwards, holds what it promises, and alone owns the block it will free.
THEOREM ScopeListsStayIntact == NSSpec => []ScopeListsAreIntact
<1>1. NSInv => ScopeListsAreIntact
  BY ShapeIsIntact
<1> QED BY <1>1, NSInitHolds, NSStep, PTL DEF NSSpec

-------------------------------------------------------------------------------
(* The attribute values view.  Its lists may have nodes in front of their  *)
(* buckets; then the bounds of the buckets are nodes of the list still.    *)

IsWalkable(h, D) == IsList(h, D) /\ \A b \in 0..Buckets - 1 : Walkable(h, b)

LEMMA HashedIsWalkable ==
    ASSUME NEW D, NEW h, IsHashed(h, D)
    PROVE  IsWalkable(h, D)
<1>1. ASSUME NEW b \in 0..Buckets - 1 PROVE Walkable(h, b)
  <2>1. HasRun(h, b)
    BY DEF IsHashed
  <2>2. DOMAIN h.nodes = 1..Len(h.nodes)
    BY HashedListIs
  <2> QED BY <2>1, <2>2 DEF HasRun, IsRun, Walkable
<1> QED BY <1>1 DEF IsHashed, IsList, IsWalkable

LEMMA OthersStayWalkable ==
    ASSUME NEW D, NEW h, IsList(h, D), NEW g, IsList(g, D), NEW n, NEW q \in 1..(Len(h.nodes) + 1),
           Inserted(h.nodes, q, n, g.nodes), NEW c \in 0..Buckets - 1, Walkable(h, c),
           g.first[c] = h.first[c], g.last[c] = h.last[c]
    PROVE  Walkable(g, c)
<1> DEFINE m == Len(h.nodes)
<1>1. m \in Nat /\ Len(h.nodes) = m /\ q \in 1..(m + 1) /\ DOMAIN h.nodes = 1..m
  BY ListIs
<1>2. Inserted(h.nodes, q, n, g.nodes)
  OBVIOUS
<1>3. Len(g.nodes) = m + 1 /\ DOMAIN g.nodes = 1..(m + 1)
  BY <1>1, <1>2, ListIs DEF Inserted
<1> HIDE DEF m
<1>4. CASE h.first[c] = Null /\ h.last[c] = Null
  BY <1>4 DEF Walkable
<1>5. ASSUME NEW i \in 1..m, NEW j \in 1..m, i <= j, h.nodes[i].at = h.first[c], h.nodes[j].at = h.last[c]
      PROVE  Walkable(g, c)
  <2> DEFINE to(k) == IF k < q THEN k ELSE k + 1
  <2>1. \A k \in 1..m : to(k) \in 1..(m + 1) /\ g.nodes[to(k)] = h.nodes[k]
    <3> TAKE k \in 1..m
    <3>1. CASE k < q
      BY <1>1, <1>2, <1>3, <3>1 DEF Inserted
    <3>2. CASE ~(k < q)
      <4>1. k + 1 \in 1..(m + 1) /\ k + 1 > q /\ k + 1 - 1 = k
        BY <1>1, <3>2
      <4> QED BY <1>2, <1>3, <3>2, <4>1 DEF Inserted
    <3> QED BY <3>1, <3>2
  <2>2. to(i) <= to(j)
    BY <1>1, <1>5
  <2> HIDE DEF to
  <2>3. g.nodes[to(i)].at = g.first[c] /\ g.nodes[to(j)].at = g.last[c]
    BY <1>5, <2>1
  <2>4. to(i) \in DOMAIN g.nodes /\ to(j) \in DOMAIN g.nodes
    BY <1>3, <2>1
  <2> QED BY <2>2, <2>3, <2>4 DEF Walkable
<1> QED BY <1>1, <1>4, <1>5 DEF Walkable

LEMMA LinkKeepsWalkable ==
    ASSUME NEW D, NEW h, IsWalkable(h, D), NEW n \in [at : Nat, key : Nat, data : D],
           \A i \in 1..Len(h.nodes) : h.nodes[i].at # n.at
    PROVE  /\ IsWalkable(LinkNode(h, n), D)
           /\ \E q \in 1..(Len(h.nodes) + 1) : Inserted(h.nodes, q, n, LinkNode(h, n).nodes)
<1> DEFINE m == Len(h.nodes)
           N == [at : Nat, key : Nat, data : D]
           b == get_bucket(n.key)
           p == find_in_bucket(h, n.key)
           g == LinkNode(h, n)
<1>1. /\ m \in Nat /\ h.nodes \in Seq(N) /\ h.first \in Bounds /\ h.last \in Bounds
      /\ n.at \in Nat /\ n.key \in Nat /\ n \in N /\ Len(h.nodes) = m
      /\ DOMAIN h.nodes = 1..m /\ h = [nodes |-> h.nodes, first |-> h.first, last |-> h.last]
  BY ListIs DEF IsWalkable
<1>2. IsList(h, D) /\ b \in 0..Buckets - 1 /\ \A c \in 0..Buckets - 1 : Walkable(h, c)
  BY <1>1, BucketsAreNumbered DEF IsWalkable
<1>0. \A q \in 1..(m + 1) : q \in 1..(Len(h.nodes) + 1)
  BY <1>1
<1> HIDE DEF N, b, m
\* What is left to show in each of the cases: the bucket itself.
<1>3. ASSUME NEW q \in 1..(m + 1), NEW first, NEW last,
             Insertion(D, h, n, b, q, first, last, g),
             IsList(g, D) /\ Inserted(h.nodes, q, n, g.nodes) /\ g.first[b] = first /\ g.last[b] = last
               => Walkable(g, b)
      PROVE  IsWalkable(g, D) /\ Inserted(h.nodes, q, n, g.nodes)
  <2> HIDE DEF g
  <2>1. q \in 1..(Len(h.nodes) + 1)
    BY <1>1, <1>3
  <2>2. Insertion(D, h, n, b, q, first, last, g)
    BY <1>3
  <2>3. /\ IsList(g, D) /\ Inserted(h.nodes, q, n, g.nodes)
        /\ g.first[b] = first /\ g.last[b] = last
        /\ \A c \in (0..Buckets - 1) \ {b} : g.first[c] = h.first[c] /\ g.last[c] = h.last[c]
    BY ONLY <2>2, InsertionKeepsList
  <2>4. ASSUME NEW c \in 0..Buckets - 1 PROVE Walkable(g, c)
    <3>1. CASE c = b
      BY <1>3, <2>3, <3>1
    <3>2. CASE c # b
      <4>1. g.first[c] = h.first[c] /\ g.last[c] = h.last[c]
        BY <2>3, <3>2
      <4> QED BY <1>2, <2>1, <2>3, <4>1, OthersStayWalkable
    <3> QED BY <3>1, <3>2
  <2> QED BY <2>3, <2>4 DEF IsWalkable
<1>4. ASSUME NEW q \in 1..(m + 1), IsList(g, D), Inserted(h.nodes, q, n, g.nodes)
      PROVE  /\ DOMAIN g.nodes = 1..(m + 1) /\ g.nodes[q] = n
             /\ \A j \in 1..(m + 1) : j < q => g.nodes[j] = h.nodes[j]
  <2> HIDE DEF g
  <2> QED BY <1>1, <1>4, ListIs DEF Inserted
<1>5. CASE h.first[b] = Null
  <2>1. g = [nodes |-> Append(h.nodes, n), first |-> [h.first EXCEPT ![b] = n.at],
             last |-> [h.last EXCEPT ![b] = n.at]]
    BY <1>5 DEF LinkNode, b
  <2>2. Append(h.nodes, n) = InsertAt(h.nodes, m + 1, n)
    BY <1>1, AppendInserts
  <2> HIDE DEF g
  <2>3. m + 1 \in 1..(m + 1) /\ n.at \in Nat \cup {Null}
    BY <1>1
  <2>4. Insertion(D, h, n, b, m + 1, n.at, n.at, g)
    BY <1>0, <1>2, <2>1, <2>2, <2>3 DEF Insertion
  <2>5. ASSUME IsList(g, D), Inserted(h.nodes, m + 1, n, g.nodes), g.first[b] = n.at, g.last[b] = n.at
        PROVE  Walkable(g, b)
    <3>1. m + 1 \in DOMAIN g.nodes /\ g.nodes[m + 1].at = n.at /\ m + 1 <= m + 1
      BY <1>1, <1>4, <2>3, <2>5
    <3> QED BY <2>5, <3>1 DEF Walkable
  <2>6. IsWalkable(g, D) /\ Inserted(h.nodes, m + 1, n, g.nodes)
    BY <1>3, <2>3, <2>4, <2>5
  <2>7. m + 1 \in 1..(Len(h.nodes) + 1)
    BY <1>1
  <2> QED BY <2>6, <2>7 DEF g
<1>6. CASE h.first[b] # Null
  <2>1. PICK f, l \in 1..m : Spans(h, b, f, l)
    BY <1>1, <1>2, <1>6 DEF Walkable, Spans
  <2>2. p \in f..l
    BY <1>1, <1>2, <2>1, SearchWalks DEF b
  <2>3. p \in 1..m /\ f <= p /\ p <= l /\ f \in 1..m /\ l \in 1..m
    BY <1>1, <2>2
  <2> DEFINE after == h.nodes[p].at = h.last[b] /\ n.key > h.nodes[p].key
  <2>4. h.first = [h.first EXCEPT ![b] = h.first[b]] /\ h.last = [h.last EXCEPT ![b] = h.last[b]]
        /\ h.first[b] \in Nat \cup {Null} /\ h.last[b] \in Nat \cup {Null}
    BY <1>1, <1>2 DEF Bounds
  <2>5. CASE after
    <3>1. g = [h EXCEPT !.nodes = InsertAt(@, p + 1, n), !.last[b] = n.at]
      BY <1>6, <2>5 DEF LinkNode, b
    <3> HIDE DEF p
    <3>2. g = [nodes |-> InsertAt(h.nodes, p + 1, n), first |-> h.first, last |-> [h.last EXCEPT ![b] = n.at]]
      BY <1>1, <3>1
    <3> HIDE DEF g
    <3>3. p + 1 \in 1..(m + 1) /\ n.at \in Nat \cup {Null} /\ f < p + 1 /\ f \in 1..(m + 1)
      BY <1>1, <2>3
    <3>4. Insertion(D, h, n, b, p + 1, h.first[b], n.at, g)
      BY <1>0, <1>2, <2>4, <3>2, <3>3 DEF Insertion
    <3>5. ASSUME IsList(g, D), Inserted(h.nodes, p + 1, n, g.nodes), g.first[b] = h.first[b], g.last[b] = n.at
          PROVE  Walkable(g, b)
      <4>1. DOMAIN g.nodes = 1..(m + 1) /\ g.nodes[p + 1] = n /\ g.nodes[f] = h.nodes[f]
        BY <1>4, <3>3, <3>5
      <4>2. h.nodes[f].at = h.first[b]
        BY <2>1 DEF Spans
      <4> QED BY <3>3, <3>5, <4>1, <4>2 DEF Walkable
    <3>6. IsWalkable(g, D) /\ Inserted(h.nodes, p + 1, n, g.nodes)
      BY <1>3, <3>3, <3>4, <3>5
    <3> QED BY <1>0, <3>3, <3>6 DEF g
  <2>6. CASE ~after
    <3>1. g = [h EXCEPT !.nodes = InsertAt(@, p, n)]
      BY <1>6, <2>6 DEF LinkNode, b
    <3> HIDE DEF p
    <3>2. g = [nodes |-> InsertAt(h.nodes, p, n), first |-> h.first, last |-> h.last]
      BY <1>1, <3>1
    <3> HIDE DEF g
    <3>3. p \in 1..(m + 1) /\ p \in 1..(Len(h.nodes) + 1)
      BY <1>1, <2>3
    <3>4. Insertion(D, h, n, b, p, h.first[b], h.last[b], g)
      BY <1>2, <2>4, <3>2, <3>3 DEF Insertion
    <3>5. ASSUME IsList(g, D), Inserted(h.nodes, p, n, g.nodes), g.first[b] = h.first[b], g.last[b] = h.last[b]
          PROVE  Walkable(g, b)
      BY <1>2, <3>3, <3>5, OthersStayWalkable
    <3>6. IsWalkable(g, D) /\ Inserted(h.nodes, p, n, g.nodes)
      BY <1>3, <3>3, <3>4, <3>5
    <3> QED BY <3>3, <3>6 DEF g
  <2> QED BY <2>5, <2>6
<1> QED BY <1>5, <1>6

LEMMA FoundInWalkable ==
    ASSUME NEW D, NEW h, IsWalkable(h, D), NEW key \in Nat
    PROVE  \A i \in find(h, key) : i \in 1..Len(h.nodes) /\ h.nodes[i].key = key
<1> DEFINE b == get_bucket(key)
           p == find_in_bucket(h, key)
<1>1. IsList(h, D) /\ b \in 0..Buckets - 1 /\ Walkable(h, b) /\ DOMAIN h.nodes = 1..Len(h.nodes)
      /\ Len(h.nodes) \in Nat
  BY BucketsAreNumbered, ListIs DEF IsWalkable
<1>2. CASE h.first[b] = Null
  BY <1>2 DEF find
<1>3. CASE h.first[b] # Null
  <2>1. PICK f, l \in 1..Len(h.nodes) : Spans(h, b, f, l)
    BY <1>1, <1>3 DEF Walkable, Spans
  <2>2. p \in f..l
    BY <1>1, <2>1, SearchWalks
  <2>3. p \in 1..Len(h.nodes)
    BY <1>1, <2>1, <2>2
  <2>4. find(h, key) = {i \in {p} : h.nodes[i].key = key}
    BY <1>3 DEF find
  <2> HIDE DEF p
  <2> QED BY <2>3, <2>4
<1> QED BY <1>2, <1>3

\* The nodes s are still there, in the same order, among the nodes r.
Keeps(s, r) ==
    \A i \in 1..Len(s) : \E j \in 1..Len(r) : j >= i /\ r[j].key = s[i].key /\ r[j].data = s[i].data

LEMMA InsertedKeeps ==
    ASSUME NEW s, NEW m \in Nat, Len(s) = m, NEW n, NEW r, NEW q \in 1..(m + 1), Inserted(s, q, n, r)
    PROVE  Keeps(s, r)
<1> SUFFICES ASSUME NEW i \in 1..m
             PROVE  \E j \in 1..Len(r) : j >= i /\ r[j].key = s[i].key /\ r[j].data = s[i].data
  BY DEF Keeps
<1>1. Len(r) = m + 1 /\ \A j \in 1..(m + 1) : /\ j < q => r[j] = s[j]
                                              /\ j > q => r[j] = s[j - 1]
  BY DEF Inserted
<1>2. CASE i < q
  <2>1. i \in 1..(m + 1) /\ i >= i
    OBVIOUS
  <2> QED BY <1>1, <1>2, <2>1
<1>3. CASE ~(i < q)
  <2>1. i + 1 \in 1..(m + 1) /\ i + 1 >= i /\ i + 1 > q /\ i + 1 - 1 = i
    BY <1>3
  <2>2. r[i + 1] = s[i + 1 - 1] /\ i + 1 \in 1..Len(r)
    BY <1>1, <2>1
  <2>3. r[i + 1] = s[i]
    BY <2>1, <2>2
  <2> QED BY <2>1, <2>2, <2>3
<1> QED BY <1>2, <1>3

LEMMA KeepsOn ==
    ASSUME NEW s, NEW r, NEW t, Len(s) \in Nat, Len(r) \in Nat, Len(t) \in Nat, Keeps(s, r), Keeps(r, t)
    PROVE  Keeps(s, t)
<1> SUFFICES ASSUME NEW i \in 1..Len(s)
             PROVE  \E j \in 1..Len(t) : j >= i /\ t[j].key = s[i].key /\ t[j].data = s[i].data
  BY DEF Keeps
<1>1. PICK k \in 1..Len(r) : k >= i /\ r[k].key = s[i].key /\ r[k].data = s[i].data
  BY DEF Keeps
<1>2. PICK j \in 1..Len(t) : j >= k /\ t[j].key = r[k].key /\ t[j].data = r[k].data
  BY DEF Keeps
<1> QED BY <1>1, <1>2

\* The view, or a set, as far as it is filled.
Sound(v, D) ==
    /\ IsWalkable(v.list, D) /\ Len(v.list.nodes) = v.end
    /\ \A i \in 1..v.end : v.list.nodes[i].at \in 1..v.end
    /\ v.inFront \in BOOLEAN

LEMMA SoundIs ==
    ASSUME NEW v, NEW D, Sound(v, D)
    PROVE  v.end \in Nat /\ Len(v.list.nodes) = v.end /\ DOMAIN v.list.nodes = 1..v.end
<1>1. IsList(v.list, D)
  BY DEF Sound, IsWalkable
<1> QED BY <1>1, ListIs DEF Sound

\* A name and its data are put into the list g, which were not in the list h.
Adds(h, key, data, g) ==
    /\ Keys(g) = Keys(h) \cup {key}
    /\ \A i \in 1..Len(g.nodes) :
          \/ \E j \in 1..Len(h.nodes) : g.nodes[i].key = h.nodes[j].key /\ g.nodes[i].data = h.nodes[j].data
          \/ g.nodes[i].key = key /\ g.nodes[i].data = data

LEMMA InsertIsSound ==
    ASSUME NEW D, NEW v, Sound(v, D), NEW key \in Nat, NEW data \in D, NEW w, w = Insert_node(v, key, data)
    PROVE  /\ Sound(w, D) /\ Keeps(v.list.nodes, w.list.nodes)
           /\ Adds(v.list, key, data, w.list)
           /\ ~w.inFront <=> ~v.inFront /\ ~GoesInFront(v.list, key)
<1> DEFINE m == v.end
           n == Node(m + 1, key, data)
<1>1. w.list = LinkNode(v.list, n) /\ w.end = m + 1 /\ w.inFront = (v.inFront \/ GoesInFront(v.list, key))
  BY DEF Insert_node
<1>2. IsWalkable(v.list, D) /\ m \in Nat /\ Len(v.list.nodes) = m /\ DOMAIN v.list.nodes = 1..m
  BY SoundIs DEF Sound
<1>3. \A i \in 1..m : v.list.nodes[i].at \in 1..m
  BY DEF Sound
<1> HIDE DEF m
<1>4. n \in [at : Nat, key : Nat, data : D] /\ n.at = m + 1 /\ n.key = key /\ n.data = data
  <2>1. n = [at |-> m + 1, key |-> key, data |-> data] /\ m + 1 \in Nat
    BY <1>2 DEF Node
  <2> HIDE DEF n
  <2> QED BY <2>1
<1> HIDE DEF n
<1>5. \A i \in 1..Len(v.list.nodes) : v.list.nodes[i].at # n.at
  BY <1>2, <1>3, <1>4
<1>6. IsWalkable(w.list, D) /\ \E q \in 1..(Len(v.list.nodes) + 1) : Inserted(v.list.nodes, q, n, w.list.nodes)
  BY <1>1, <1>2, <1>4, <1>5, LinkKeepsWalkable
<1>7. PICK q \in 1..(m + 1) : Inserted(v.list.nodes, q, n, w.list.nodes)
  BY <1>2, <1>6
<1> DEFINE s == v.list.nodes
           r == w.list.nodes
<1>8. Len(s) = m /\ m \in Nat /\ q \in 1..(m + 1) /\ Inserted(s, q, n, r) /\ DOMAIN s = 1..m
  BY <1>2, <1>7
<1>9. DOMAIN r = 1..Len(r)
  BY <1>6, ListIs DEF IsWalkable
<1>10. \A i \in 1..m : s[i].at \in 1..m
  BY <1>3
<1> HIDE DEF s, r
<1>11. /\ Len(r) = m + 1 /\ r[q] = n
       /\ \A j \in 1..(m + 1) : j < q => j \in 1..m /\ r[j] = s[j]
       /\ \A j \in 1..(m + 1) : j > q => j - 1 \in 1..m /\ r[j] = s[j - 1]
  BY ONLY <1>8, InsertedIs
<1>12. \A i \in 1..(m + 1) : i = q \/ \E j \in 1..m : r[i] = s[j]
  <2> TAKE i \in 1..(m + 1)
  <2>1. i < q => i \in 1..m /\ r[i] = s[i]
    BY <1>8, <1>11
  <2>2. i > q => i - 1 \in 1..m /\ r[i] = s[i - 1]
    BY <1>8, <1>11
  <2>3. i < q \/ i = q \/ i > q
    BY <1>8
  <2> QED BY <2>1, <2>2, <2>3
<1>13. \A j \in 1..m : \E i \in 1..(m + 1) : r[i] = s[j]
  <2> TAKE j \in 1..m
  <2>1. CASE j < q
    <3>1. j \in 1..(m + 1)
      BY <1>8
    <3>2. r[j] = s[j]
      BY <1>8, <1>11, <2>1, <3>1
    <3> QED BY <3>1, <3>2
  <2>2. CASE ~(j < q)
    <3>1. j + 1 \in 1..(m + 1) /\ j + 1 > q /\ j + 1 - 1 = j
      BY <1>8, <2>2
    <3>2. r[j + 1] = s[j + 1 - 1]
      BY <1>11, <3>1
    <3>3. r[j + 1] = s[j]
      BY <3>1, <3>2
    <3> QED BY <3>1, <3>3
  <2> QED BY <2>1, <2>2
<1>14. \A i \in 1..(m + 1) : r[i].at \in 1..(m + 1)
  <2>1. \A a \in 1..m : a \in 1..(m + 1)
    BY <1>8
  <2>2. m + 1 \in 1..(m + 1)
    BY <1>8
  <2> QED BY <1>4, <1>10, <1>11, <1>12, <2>1, <2>2
<1>15. Keeps(s, r)
  BY ONLY <1>8, InsertedKeeps
<1>16. v.inFront \in BOOLEAN /\ GoesInFront(v.list, key) \in BOOLEAN
  BY DEF Sound, GoesInFront
<1>17. w.inFront \in BOOLEAN /\ (~w.inFront <=> ~v.inFront /\ ~GoesInFront(v.list, key))
  BY <1>1, <1>16, Zenon
<1>18. Sound(w, D)
  BY <1>1, <1>6, <1>11, <1>14, <1>17 DEF Sound, r
<1>19. Keys(v.list) = {s[i].key : i \in 1..m} /\ Keys(w.list) = {r[i].key : i \in 1..(m + 1)}
  BY <1>8, <1>9, <1>11 DEF Keys, s, r
<1>20. Keys(w.list) = Keys(v.list) \cup {key}
  <2>1. Keys(w.list) \subseteq Keys(v.list) \cup {key}
    BY <1>4, <1>11, <1>12, <1>19
  <2>2. Keys(v.list) \subseteq Keys(w.list)
    BY <1>13, <1>19
  <2>3. key \in Keys(w.list)
    BY <1>4, <1>11, <1>19, <1>8
  <2> QED BY <2>1, <2>2, <2>3
<1>21. \A i \in 1..Len(r) : (\E j \in 1..Len(s) : r[i].key = s[j].key /\ r[i].data = s[j].data)
                           \/ (r[i].key = key /\ r[i].data = data)
  BY <1>4, <1>8, <1>11, <1>12
<1>22. Adds(v.list, key, data, w.list)
  BY <1>20, <1>21 DEF Adds, s, r
<1> QED BY <1>15, <1>17, <1>18, <1>22 DEF s, r

\* A name that is not found is put into a hashed list.
LEMMA InsertKeepsHashed ==
    ASSUME NEW D, NEW v, Sound(v, D), IsHashed(v.list, D), NEW key \in Nat, NEW data \in D,
           find(v.list, key) = {}, ~GoesInFront(v.list, key), NEW w, w = Insert_node(v, key, data)
    PROVE  IsHashed(w.list, D) /\ key \notin Keys(v.list)
<1> DEFINE n == Node(v.end + 1, key, data)
<1>1. w.list = LinkNode(v.list, n)
  BY DEF Insert_node
<1>2. n \in [at : Nat, key : Nat, data : D] /\ n.at = v.end + 1 /\ n.key = key
  <2>1. n = [at |-> v.end + 1, key |-> key, data |-> data] /\ v.end + 1 \in Nat
    BY SoundIs DEF Node
  <2> HIDE DEF n
  <2> QED BY <2>1
<1> HIDE DEF n
<1>3. \A i \in 1..Len(v.list.nodes) : v.list.nodes[i].key # key
  BY FindIsRight
<1>4. \A i \in 1..Len(v.list.nodes) : v.list.nodes[i].at # n.at
  BY <1>2, SoundIs DEF Sound
<1>5. IsHashed(w.list, D)
  BY <1>1, <1>2, <1>3, <1>4, LinkKeepsHashed
<1> QED BY <1>3, <1>5, SoundIs DEF Keys

\* One step of InsertMissing, and all of them.
Missing(w, n) == IF find(w.list, n.key) # {} THEN w ELSE Insert_node(w, n.key, n.data)
Fills(f, v, nodes, k) == f = [i \in 0..k |-> IF i = 0 THEN v ELSE Missing(f[i - 1], nodes[i])]

LEMMA FillsIs ==
    ASSUME NEW f, NEW v, NEW nodes, NEW k \in Nat, Fills(f, v, nodes, k)
    PROVE  f[0] = v /\ \A i \in 1..k : f[i] = Missing(f[i - 1], nodes[i])
<1>1. \A i \in 0..k : f[i] = IF i = 0 THEN v ELSE Missing(f[i - 1], nodes[i])
  BY DEF Fills
<1>2. 0 \in 0..k /\ \A i \in 1..k : i \in 0..k /\ i # 0
  OBVIOUS
<1> QED BY <1>1, <1>2

LEMMA FillsGoesOn ==
    ASSUME NEW v, NEW nodes, NEW k \in Nat
    PROVE  \E f : Fills(f, v, nodes, k)
<1> DEFINE Stuck == {j \in 0..k : ~ \E f : Fills(f, v, nodes, j)}
<1>1. Stuck = {}
  <2> SUFFICES ASSUME Stuck # {} PROVE FALSE
    OBVIOUS
  <2>1. Stuck \subseteq Nat
    OBVIOUS
  <2> HIDE DEF Stuck
  <2>2. PICK x \in Stuck : \A y \in Stuck : x <= y
    BY <2>1, LeastElement
  <2>3. x \in 0..k /\ ~ \E f : Fills(f, v, nodes, x)
    BY <2>2 DEF Stuck
  <2>4. CASE x = 0
    <3> DEFINE f == [i \in 0..0 |-> v]
    <3>1. f = [i \in 0..0 |-> IF i = 0 THEN v ELSE Missing(f[i - 1], nodes[i])]
      <4>1. \A i \in 0..0 : i = 0
        OBVIOUS
      <4> QED BY <4>1
    <3>2. Fills(f, v, nodes, 0)
      BY <3>1 DEF Fills
    <3> QED BY <2>3, <2>4, <3>2
  <2>5. CASE x # 0
    <3>1. x - 1 \in 0..k /\ x \in Nat /\ x - 1 \in Nat /\ ~(x <= x - 1)
      BY <2>3, <2>5
    <3>2. x - 1 \notin Stuck
      BY <2>2, <3>1
    <3>3. PICK f : Fills(f, v, nodes, x - 1)
      BY <3>1, <3>2 DEF Stuck
    <3> DEFINE g == [i \in 0..x |-> IF i = 0 THEN v ELSE Missing(f[i - 1], nodes[i])]
    <3>4. \A i \in 0..(x - 1) : f[i] = IF i = 0 THEN v ELSE Missing(f[i - 1], nodes[i])
      BY <3>3 DEF Fills
    <3>5. \A i \in 0..x : g[i] = IF i = 0 THEN v ELSE Missing(f[i - 1], nodes[i])
      OBVIOUS
    <3>6. \A i \in 0..x : i # 0 => i - 1 \in 0..(x - 1) /\ i - 1 \in 0..x
      BY <3>1
    <3>7. \A i \in 0..(x - 1) : i \in 0..x
      BY <3>1
    <3>8. \A i \in 0..(x - 1) : g[i] = f[i]
      BY <3>4, <3>5, <3>7
    <3>9. \A i \in 0..x : i # 0 => g[i - 1] = f[i - 1]
      BY <3>6, <3>8
    <3>10. g = [i \in 0..x |-> IF i = 0 THEN v ELSE Missing(g[i - 1], nodes[i])]
      BY <3>9
    <3>11. Fills(g, v, nodes, x)
      BY <3>10 DEF Fills
    <3> QED BY <2>3, <3>11
  <2> QED BY <2>4, <2>5
<1>2. k \in 0..k
  OBVIOUS
<1> QED BY <1>1, <1>2

LEMMA InsertMissingGoes ==
    ASSUME NEW v, NEW nodes, NEW m \in Nat, Len(nodes) = m
    PROVE  \E f : /\ InsertMissing(v, nodes) = f[m] /\ f[0] = v
                  /\ \A i \in 1..m : f[i] = Missing(f[i - 1], nodes[i])
<1> DEFINE w == CHOOSE f : Fills(f, v, nodes, m)
<1>1. InsertMissing(v, nodes) = w[m]
  BY DEF InsertMissing, Missing, Fills
<1>2. Fills(w, v, nodes, m)
  BY FillsGoesOn
<1> HIDE DEF w
<1>3. w[0] = v /\ \A i \in 1..m : w[i] = Missing(w[i - 1], nodes[i])
  BY <1>2, FillsIs
<1> QED BY <1>1, <1>3

\* The list g has the names of the list h and those of the first i nodes; a
\* name that is new has the data of one of the nodes.
Merges(h, nodes, i, g) ==
    /\ Keys(g) = Keys(h) \cup {nodes[j].key : j \in 1..i}
    /\ \A k \in 1..Len(g.nodes) :
          \/ \E j \in 1..Len(h.nodes) : g.nodes[k].key = h.nodes[j].key /\ g.nodes[k].data = h.nodes[j].data
          \/ /\ g.nodes[k].key \notin Keys(h)
             /\ \E j \in 1..i : g.nodes[k].key = nodes[j].key /\ g.nodes[k].data = nodes[j].data

\* What inserts of i nodes make of v.
Makes(v, nodes, i, w, D) ==
    /\ Sound(w, D) /\ Keeps(v.list.nodes, w.list.nodes)
    /\ ~w.inFront /\ (~v.inFront => IsHashed(v.list, D)) =>
          ~v.inFront /\ IsHashed(w.list, D) /\ Merges(v.list, nodes, i, w.list)

LEMMA MakesOneMore ==
    ASSUME NEW D, NEW v, Sound(v, D), NEW nodes \in Seq([at : Nat, key : Nat, data : D]),
           NEW i \in 1..Len(nodes), NEW u, Makes(v, nodes, i - 1, u, D), NEW w, w = Missing(u, nodes[i])
    PROVE  Makes(v, nodes, i, w, D)
<1> DEFINE n == nodes[i]
<1>1. n \in [at : Nat, key : Nat, data : D] /\ n.key \in Nat /\ n.data \in D
  <2> DEFINE N == [at : Nat, key : Nat, data : D]
  <2>1. nodes \in Seq(N)
    OBVIOUS
  <2> HIDE DEF N
  <2>2. n \in N
    BY <2>1
  <2> QED BY <2>2 DEF N
<1>2. Sound(u, D) /\ Keeps(v.list.nodes, u.list.nodes)
  BY DEF Makes
<1>3. i \in Nat /\ i - 1 \in Nat /\ 1..i = 1..(i - 1) \cup {i} /\ 1..(i - 1) \subseteq 1..i /\ i \in 1..i
  OBVIOUS
<1>4. ASSUME ~u.inFront, ~v.inFront => IsHashed(v.list, D)
      PROVE  ~v.inFront /\ IsHashed(u.list, D) /\ Merges(v.list, nodes, i - 1, u.list)
  BY <1>4 DEF Makes
<1>5. CASE find(u.list, n.key) # {}
  <2>1. w = u
    BY <1>5 DEF Missing
  <2>2. ASSUME ~u.inFront, ~v.inFront => IsHashed(v.list, D)
        PROVE  Merges(v.list, nodes, i, u.list)
    <3>1. Merges(v.list, nodes, i - 1, u.list) /\ IsHashed(u.list, D)
      BY <1>4, <2>2
    <3>2. n.key \in Keys(u.list)
      <4>1. PICK k \in find(u.list, n.key) : TRUE
        BY <1>5
      <4>2. k \in 1..Len(u.list.nodes) /\ u.list.nodes[k].key = n.key
        BY <1>1, <3>1, <4>1, FindIsRight
      <4>3. DOMAIN u.list.nodes = 1..Len(u.list.nodes)
        BY <3>1, HashedListIs
      <4> QED BY <4>2, <4>3 DEF Keys
    <3>3. Keys(u.list) = Keys(v.list) \cup {nodes[j].key : j \in 1..i}
      BY <1>3, <3>1, <3>2 DEF Merges
    <3> QED BY <1>3, <3>1, <3>3 DEF Merges
  <2> QED BY <1>2, <1>4, <2>1, <2>2 DEF Makes
<1>6. CASE find(u.list, n.key) = {}
  <2>1. w = Insert_node(u, n.key, n.data)
    BY <1>6 DEF Missing
  <2>2. /\ Sound(w, D) /\ Keeps(u.list.nodes, w.list.nodes)
        /\ Adds(u.list, n.key, n.data, w.list)
        /\ ~w.inFront <=> ~u.inFront /\ ~GoesInFront(u.list, n.key)
    BY ZenonT(60), <1>1, <1>2, <2>1, InsertIsSound
  <2>3. Keeps(v.list.nodes, w.list.nodes)
    <3>1. Len(v.list.nodes) \in Nat /\ Len(u.list.nodes) \in Nat /\ Len(w.list.nodes) \in Nat
      BY <1>2, <2>2, SoundIs
    <3> QED BY <1>2, <2>2, <3>1, KeepsOn
  <2>4. ASSUME ~w.inFront, ~v.inFront => IsHashed(v.list, D)
        PROVE  ~v.inFront /\ IsHashed(w.list, D) /\ Merges(v.list, nodes, i, w.list)
    <3>1. ~v.inFront /\ IsHashed(u.list, D) /\ Merges(v.list, nodes, i - 1, u.list)
      BY <1>4, <2>2, <2>4
    <3>2. IsHashed(w.list, D) /\ n.key \notin Keys(u.list)
      BY <1>1, <1>2, <1>6, <2>1, <2>2, <2>4, <3>1, InsertKeepsHashed
    <3>3. Keys(u.list) = Keys(v.list) \cup {nodes[j].key : j \in 1..(i - 1)}
      BY <3>1 DEF Merges
    <3>4. Keys(w.list) = Keys(u.list) \cup {n.key}
      BY <2>2 DEF Adds
    <3>5. Keys(w.list) = Keys(v.list) \cup {nodes[j].key : j \in 1..i}
      BY <1>3, <3>3, <3>4
    <3> DEFINE s == v.list.nodes
               Old(key, data) == \E j \in 1..Len(s) : key = s[j].key /\ data = s[j].data
               New(key, data, k) == key \notin Keys(v.list) /\ \E j \in 1..k : key = nodes[j].key /\ data = nodes[j].data
    <3>6. \A k \in 1..Len(u.list.nodes) : \/ Old(u.list.nodes[k].key, u.list.nodes[k].data)
                                          \/ New(u.list.nodes[k].key, u.list.nodes[k].data, i - 1)
      BY <3>1 DEF Merges
    <3>7. \A key, data : New(key, data, i - 1) => New(key, data, i)
      BY <1>3
    <3>8. New(n.key, n.data, i)
      BY <1>3, <3>2, <3>3
    <3>9. ASSUME NEW k \in 1..Len(w.list.nodes)
          PROVE  Old(w.list.nodes[k].key, w.list.nodes[k].data) \/ New(w.list.nodes[k].key, w.list.nodes[k].data, i)
      <4> HIDE DEF Old, New, n
      <4>1. \/ \E j \in 1..Len(u.list.nodes) : w.list.nodes[k].key = u.list.nodes[j].key
                                              /\ w.list.nodes[k].data = u.list.nodes[j].data
            \/ w.list.nodes[k].key = n.key /\ w.list.nodes[k].data = n.data
        BY <2>2 DEF Adds
      <4> QED BY <3>6, <3>7, <3>8, <4>1
    <3>10. Merges(v.list, nodes, i, w.list)
      BY <3>5, <3>9 DEF Merges
    <3> QED BY <3>1, <3>2, <3>10
  <2> QED BY <2>2, <2>3, <2>4 DEF Makes
<1> QED BY <1>5, <1>6

LEMMA InsertMissingMakes ==
    ASSUME NEW D, NEW v, Sound(v, D), NEW nodes \in Seq([at : Nat, key : Nat, data : D])
    PROVE  Makes(v, nodes, Len(nodes), InsertMissing(v, nodes), D)
<1>1. PICK m : m = Len(nodes)
  OBVIOUS
<1>2. m \in Nat
  BY <1>1
<1>3. PICK f : /\ InsertMissing(v, nodes) = f[m] /\ f[0] = v
               /\ \A i \in 1..m : f[i] = Missing(f[i - 1], nodes[i])
  BY <1>1, <1>2, InsertMissingGoes
<1>4. Makes(v, nodes, 0, v, D)
  <2>1. Len(v.list.nodes) \in Nat /\ 1..0 = {}
    BY SoundIs
  <2>2. Keeps(v.list.nodes, v.list.nodes)
    BY <2>1 DEF Keeps
  <2>3. Merges(v.list, nodes, 0, v.list)
    BY <2>1 DEF Merges
  <2> QED BY <2>2, <2>3 DEF Makes
<1> DEFINE Off == {i \in 0..m : ~Makes(v, nodes, i, f[i], D)}
<1>5. Off = {}
  <2> SUFFICES ASSUME Off # {} PROVE FALSE
    OBVIOUS
  <2>1. Off \subseteq Nat
    OBVIOUS
  <2> HIDE DEF Off
  <2>2. PICK x \in Off : \A y \in Off : x <= y
    BY <2>1, LeastElement
  <2>3. x \in 0..m /\ ~Makes(v, nodes, x, f[x], D)
    BY <2>2 DEF Off
  <2>4. x \in 1..m /\ x - 1 \in 0..m /\ ~(x <= x - 1)
    BY <1>2, <1>3, <1>4, <2>3
  <2>5. Makes(v, nodes, x - 1, f[x - 1], D)
    BY <2>2, <2>4 DEF Off
  <2>6. f[x] = Missing(f[x - 1], nodes[x]) /\ x \in 1..Len(nodes)
    BY <1>1, <1>3, <2>4
  <2> QED BY <2>3, <2>5, <2>6, MakesOneMore
<1>6. m \in 0..m
  BY <1>2
<1> QED BY <1>1, <1>3, <1>5, <1>6

\* The copy of a list, as ListOf makes it.
LEMMA CopyIsWalkable ==
    ASSUME NEW D, NEW h, IsList(h, D)
    PROVE  /\ IsWalkable(ListOf(Copied(h)), D)
           /\ Len(ListOf(Copied(h)).nodes) = Len(h.nodes)
           /\ \A i \in 1..Len(h.nodes) :
                 /\ ListOf(Copied(h)).nodes[i].at = i
                 /\ ListOf(Copied(h)).nodes[i].key = h.nodes[i].key
                 /\ ListOf(Copied(h)).nodes[i].data = h.nodes[i].data
<1> DEFINE m == Len(h.nodes)
           N == [at : Nat, key : Nat, data : D]
           s == Copied(h)
           in(b) == {i \in DOMAIN s : get_bucket(s[i].key) = b}
           first == [b \in 0..Buckets - 1 |-> IF in(b) = {} THEN Null ELSE s[Min(in(b))].at]
           last == [b \in 0..Buckets - 1 |-> IF in(b) = {} THEN Null ELSE s[Max(in(b))].at]
           g == [nodes |-> s, first |-> first, last |-> last]
<1>1. m \in Nat /\ Len(h.nodes) = m
  BY ListIs
<1>2. \A i \in 1..m : i \in Nat /\ h.nodes[i].key \in Nat /\ h.nodes[i].data \in D
  <2>1. \A i \in 1..Len(h.nodes) : h.nodes[i].key \in Nat /\ h.nodes[i].data \in D
    BY ListIs, Zenon
  <2> HIDE DEF m
  <2>2. \A i \in 1..m : i \in Nat
    BY <1>1
  <2> QED BY <2>1, <2>2 DEF m
<1>3. s = [i \in 1..m |-> [at |-> i, key |-> h.nodes[i].key, data |-> h.nodes[i].data]]
  BY DEF Copied, Node
<1>4. ListOf(s) = g
  BY DEF ListOf
<1> HIDE DEF s, m
<1>5. s \in Seq(N) /\ Len(s) = m /\ DOMAIN s = 1..m
  <2>1. s \in [1..m -> N]
    BY <1>2, <1>3
  <2> HIDE DEF N
  <2>2. s \in Seq(N) /\ Len(s) = m
    BY <1>1, <2>1, FunctionIsSeq
  <2> QED BY <1>1, <2>2
<1>6. \A i \in 1..m : s[i].at = i /\ s[i].key = h.nodes[i].key /\ s[i].data = h.nodes[i].data
  BY <1>3
<1>7. ASSUME NEW b \in 0..Buckets - 1
      PROVE  /\ first[b] \in Nat \cup {Null} /\ last[b] \in Nat \cup {Null}
             /\ \/ first[b] = Null /\ last[b] = Null
                \/ \E i, j \in 1..m : i <= j /\ s[i].at = first[b] /\ s[j].at = last[b]
  <2>1. CASE in(b) = {}
    BY <2>1
  <2>2. CASE in(b) # {}
    <3> DEFINE I == in(b)
    <3>1. first[b] = s[Min(I)].at /\ last[b] = s[Max(I)].at
      BY <2>2
    <3>2. I \subseteq 1..m /\ I # {} /\ I \subseteq Nat /\ I \subseteq 0..m
      BY <1>1, <1>5, <2>2
    <3> HIDE DEF I, first, last
    <3>3. Min(I) \in I /\ \A y \in I : Min(I) <= y
      <4>1. \E x \in I : \A y \in I : x <= y
        BY <3>2, LeastElement
      <4> QED BY <4>1 DEF Min
    <3>4. Max(I) \in I
      <4>1. \E x \in I : \A y \in I : y <= x
        BY <1>1, <3>2, GreatestElement
      <4>2. \E x \in I : \A y \in I : x >= y
        BY <3>2, <4>1
      <4> QED BY <4>2 DEF Max
    <3>5. Min(I) \in 1..m /\ Max(I) \in 1..m /\ Min(I) <= Max(I)
      BY <3>2, <3>3, <3>4
    <3> QED BY <1>6, <3>1, <3>5
  <2> QED BY <2>1, <2>2
<1>8. first \in Bounds /\ last \in Bounds
  <2>1. first = [b \in 0..Buckets - 1 |-> first[b]] /\ last = [b \in 0..Buckets - 1 |-> last[b]]
    OBVIOUS
  <2> HIDE DEF first, last
  <2> QED BY <1>7, <2>1 DEF Bounds
<1> HIDE DEF first, last, in
<1>9. g \in HashedLists(D) /\ g.nodes = s /\ g.first = first /\ g.last = last
  BY <1>5, <1>8 DEF HashedLists
<1> HIDE DEF g
<1>10. IsList(g, D)
  BY <1>5, <1>6, <1>9 DEF IsList
<1>11. ASSUME NEW b \in 0..Buckets - 1 PROVE Walkable(g, b)
  <2>1. DOMAIN g.nodes = 1..m /\ g.nodes = s /\ g.first = first /\ g.last = last
    BY <1>5, <1>9
  <2>2. CASE first[b] = Null /\ last[b] = Null
    BY <2>1, <2>2 DEF Walkable
  <2>3. CASE \E i, j \in 1..m : i <= j /\ s[i].at = first[b] /\ s[j].at = last[b]
    <3>1. PICK i, j \in 1..m : i <= j /\ s[i].at = first[b] /\ s[j].at = last[b]
      BY <2>3
    <3> QED BY <2>1, <3>1 DEF Walkable
  <2> QED BY <1>7, <2>2, <2>3
<1>12. IsWalkable(g, D)
  BY <1>10, <1>11 DEF IsWalkable
<1>13. g = ListOf(s)
  BY <1>4
<1> QED BY <1>1, <1>5, <1>6, <1>9, <1>12, <1>13 DEF s

\* What an insertion sequence leaves of an empty container.
LEMMA FilledIs ==
    ASSUME NEW names \in Seq(Nat), NEW s
    PROVE  /\ IsWalkable(Filled(names, s).list, {s}) /\ Filled(names, s).inFront \in BOOLEAN
           /\ ~Filled(names, s).inFront => IsHashed(Filled(names, s).list, {s})
<1> DEFINE N == [at : Nat, key : Nat, data : {s}]
           nodes == [i \in DOMAIN names |-> Node(i, names[i], s)]
<1>1. PICK m : m = Len(names)
  OBVIOUS
<1>2. m \in Nat /\ DOMAIN names = 1..m /\ \A i \in 1..m : names[i] \in Nat
  BY <1>1
<1>3. nodes \in Seq(N)
  <2>1. ASSUME NEW i \in 1..m PROVE Node(i, names[i], s) \in N
    BY <1>2 DEF Node
  <2> HIDE DEF N
  <2>2. nodes \in [1..m -> N]
    BY <1>2, <2>1
  <2> HIDE DEF nodes
  <2> QED BY <1>2, <2>2, FunctionIsSeq
<1>4. IsHashed(Nothing.list, {s}) /\ Nothing.end = 0 /\ Nothing.inFront = FALSE /\ Nothing.list = EmptyList
  BY EmptyIsHashed DEF Nothing
<1>5. Sound(Nothing, {s})
  <2>1. IsWalkable(Nothing.list, {s})
    BY <1>4, HashedIsWalkable
  <2>2. Len(Nothing.list.nodes) = 0 /\ 1..0 = {}
    BY <1>4 DEF EmptyList
  <2> QED BY <1>4, <2>1, <2>2 DEF Sound
<1>6. Filled(names, s) = InsertMissing(Nothing, nodes)
  BY DEF Filled
<1> HIDE DEF nodes, N
<1>7. Makes(Nothing, nodes, Len(nodes), InsertMissing(Nothing, nodes), {s})
  <2>1. nodes \in Seq([at : Nat, key : Nat, data : {s}])
    BY <1>3 DEF N
  <2> QED BY <1>5, <2>1, InsertMissingMakes
<1> QED BY <1>4, <1>6, <1>7 DEF Makes, Sound

\* Each value of the list is the one of the set that is preferred.
Preferred(h, A) ==
    \A i \in 1..Len(h.nodes) :
        /\ h.nodes[i].key \in Keys(A[h.nodes[i].data])
        /\ \A s \in 1..(h.nodes[i].data - 1) : h.nodes[i].key \notin Keys(A[s])

\* freeze_nodes_from of a set, after those that are preferred to it.
Joins(v, A, s, w) ==
    /\ Sound(w, Preference) /\ Keeps(v.list.nodes, w.list.nodes)
    /\ ~w.inFront => /\ ~v.inFront /\ IsHashed(w.list, Preference) /\ Preferred(w.list, A)
                     /\ Keys(w.list) = Keys(v.list) \cup Keys(A[s])

LEMMA SetIsSeq ==
    ASSUME NEW s \in Preference, NEW h, IsWalkable(h, {s})
    PROVE  /\ h.nodes \in Seq([at : Nat, key : Nat, data : Preference])
           /\ Len(h.nodes) \in Nat /\ Keys(h) = {h.nodes[j].key : j \in 1..Len(h.nodes)} /\ Keys(h) \subseteq Nat
           /\ \A j \in 1..Len(h.nodes) : h.nodes[j].data = s /\ h.nodes[j].key \in Nat
<1> DEFINE N == [at : Nat, key : Nat, data : Preference]
<1>1. IsList(h, {s})
  BY DEF IsWalkable
<1>2. /\ h.nodes \in Seq([at : Nat, key : Nat, data : {s}])
      /\ Len(h.nodes) \in Nat /\ DOMAIN h.nodes = 1..Len(h.nodes)
      /\ \A j \in 1..Len(h.nodes) : /\ h.nodes[j] \in [at : Nat, key : Nat, data : {s}]
                                    /\ h.nodes[j].data \in {s} /\ h.nodes[j].key \in Nat
  BY <1>1, ListIs
<1>3. \A j \in 1..Len(h.nodes) : h.nodes[j] \in N
  BY <1>2
<1>4. h.nodes = [j \in 1..Len(h.nodes) |-> h.nodes[j]]
  BY <1>2
<1> HIDE DEF N
<1>5. h.nodes \in [1..Len(h.nodes) -> N]
  BY <1>3, <1>4
<1>6. h.nodes \in Seq(N)
  BY <1>2, <1>5, FunctionIsSeq
<1>7. Keys(h) = {h.nodes[j].key : j \in 1..Len(h.nodes)}
  BY <1>2 DEF Keys
<1> QED BY <1>2, <1>6, <1>7 DEF N

LEMMA FreezeOne ==
    ASSUME NEW v, Sound(v, Preference), NEW A, NEW s \in Preference, IsWalkable(A[s], {s}),
           ~v.inFront => /\ IsHashed(v.list, Preference) /\ Preferred(v.list, A)
                         /\ \A r \in 1..(s - 1) : Keys(A[r]) \subseteq Keys(v.list)
    PROVE  Joins(v, A, s, freeze_nodes_from(v, A[s]))
<1> DEFINE nodes == A[s].nodes
           w == InsertMissing(v, nodes)
<1>1. /\ nodes \in Seq([at : Nat, key : Nat, data : Preference]) /\ Len(nodes) \in Nat
      /\ Keys(A[s]) = {nodes[j].key : j \in 1..Len(nodes)} /\ \A j \in 1..Len(nodes) : nodes[j].data = s
  BY ZenonT(60), SetIsSeq
<1>2. freeze_nodes_from(v, A[s]) = w
  BY DEF freeze_nodes_from
<1> HIDE DEF nodes
<1>3. Makes(v, nodes, Len(nodes), w, Preference)
  BY <1>1, InsertMissingMakes
<1> HIDE DEF w
<1>4. ASSUME ~w.inFront
      PROVE  /\ ~v.inFront /\ IsHashed(w.list, Preference) /\ Preferred(w.list, A)
             /\ Keys(w.list) = Keys(v.list) \cup Keys(A[s])
  <2>1. ~v.inFront /\ IsHashed(w.list, Preference) /\ Merges(v.list, nodes, Len(nodes), w.list)
    BY <1>3, <1>4 DEF Makes
  <2>2. Keys(w.list) = Keys(v.list) \cup Keys(A[s])
    BY <1>1, <2>1 DEF Merges
  <2>3. ASSUME NEW i \in 1..Len(w.list.nodes)
        PROVE  /\ w.list.nodes[i].key \in Keys(A[w.list.nodes[i].data])
               /\ \A r \in 1..(w.list.nodes[i].data - 1) : w.list.nodes[i].key \notin Keys(A[r])
    <3>1. CASE \E j \in 1..Len(v.list.nodes) : /\ w.list.nodes[i].key = v.list.nodes[j].key
                                               /\ w.list.nodes[i].data = v.list.nodes[j].data
      BY <2>1, <3>1 DEF Preferred
    <3>2. CASE /\ w.list.nodes[i].key \notin Keys(v.list)
               /\ \E j \in 1..Len(nodes) : /\ w.list.nodes[i].key = nodes[j].key
                                           /\ w.list.nodes[i].data = nodes[j].data
      <4>1. w.list.nodes[i].data = s /\ w.list.nodes[i].key \in Keys(A[s])
        BY <1>1, <3>2
      <4> QED BY <2>1, <3>2, <4>1
    <3> QED BY <2>1, <3>1, <3>2 DEF Merges
  <2> QED BY <2>1, <2>2, <2>3 DEF Preferred
<1> QED BY <1>2, <1>3, <1>4 DEF Makes, Joins

\* A hashed list has a node for each of its names.
LEMMA SizeIsKeys ==
    ASSUME NEW D, NEW h, IsHashed(h, D)
    PROVE  IsFiniteSet(Keys(h)) /\ Cardinality(Keys(h)) = Len(h.nodes)
<1> DEFINE m == Len(h.nodes)
           K == Keys(h)
           f == [i \in 1..m |-> h.nodes[i].key]
<1>1. m \in Nat /\ K = {h.nodes[i].key : i \in 1..m}
  BY HashedListIs DEF Keys
<1>2. \A i, j \in 1..m : h.nodes[i].key = h.nodes[j].key => i = j
  BY KeysDiffer
<1>3. IsFiniteSet(1..m) /\ Cardinality(1..m) = m
  BY <1>1, FS_Interval
<1> HIDE DEF m, K
<1>4. f \in Bijection(1..m, K)
  BY <1>1, <1>2 DEF Bijection, Injection, Surjection, IsInjective
<1>5. ExistsBijection(1..m, K)
  BY <1>4 DEF ExistsBijection
<1> QED BY <1>3, <1>5, FS_Bijection DEF m, K

LEMMA SizeIsBounded ==
    ASSUME NEW A, \A s \in Preference : IsHashed(A[s], {s}), NEW h, IsHashed(h, Preference),
           Keys(h) \subseteq UNION {Keys(A[s]) : s \in Preference}
    PROVE  Len(h.nodes) <= AllSizes(A)
<1> DEFINE K(s) == Keys(A[s])
           n(s) == Len(A[s].nodes)
<1>1. 1 \in Preference /\ 2 \in Preference /\ 3 \in Preference /\ \A s \in Preference : s = 1 \/ s = 2 \/ s = 3
  BY DEF Preference
<1>2. \A s \in Preference : IsFiniteSet(K(s)) /\ Cardinality(K(s)) = n(s) /\ n(s) \in Nat
  BY SizeIsKeys, HashedListIs
<1> DEFINE K1 == K(1)
           K2 == K(2)
           K3 == K(3)
           H == Keys(h)
<1>3. /\ IsFiniteSet(K1) /\ IsFiniteSet(K2) /\ IsFiniteSet(K3)
      /\ Cardinality(K1) = n(1) /\ Cardinality(K2) = n(2) /\ Cardinality(K3) = n(3)
      /\ n(1) \in Nat /\ n(2) \in Nat /\ n(3) \in Nat
  BY <1>1, <1>2
<1>4. H \subseteq K1 \cup K2 \cup K3
  BY <1>1
<1>5. Cardinality(H) = Len(h.nodes)
  BY SizeIsKeys
<1>6. AllSizes(A) = n(1) + n(2) + n(3)
  BY DEF AllSizes
<1> HIDE DEF K1, K2, K3, H, n
<1>7. IsFiniteSet(K1 \cup K2) /\ Cardinality(K1 \cup K2) <= n(1) + n(2)
  <2>1. IsFiniteSet(K1 \cap K2)
    BY <1>3, FS_Intersection
  <2>2. Cardinality(K1 \cap K2) \in Nat
    BY <2>1, FS_CardinalityType
  <2>3. IsFiniteSet(K1 \cup K2) /\ Cardinality(K1 \cup K2) = n(1) + n(2) - Cardinality(K1 \cap K2)
    BY <1>3, FS_Union
  <2> QED BY <1>3, <2>2, <2>3
<1> DEFINE B == K1 \cup K2
<1>8. IsFiniteSet(B) /\ Cardinality(B) <= n(1) + n(2) /\ Cardinality(B) \in Nat
  BY <1>7, FS_CardinalityType
<1>9. H \subseteq B \cup K3
  BY <1>4
<1> HIDE DEF B
<1>10. IsFiniteSet(B \cup K3) /\ Cardinality(B \cup K3) <= n(1) + n(2) + n(3)
  <2>1. IsFiniteSet(B \cap K3)
    BY <1>3, FS_Intersection
  <2>2. Cardinality(B \cap K3) \in Nat
    BY <2>1, FS_CardinalityType
  <2>3. IsFiniteSet(B \cup K3) /\ Cardinality(B \cup K3) = Cardinality(B) + n(3) - Cardinality(B \cap K3)
    BY <1>3, <1>8, FS_Union
  <2> QED BY <1>3, <1>8, <2>2, <2>3
<1>11. Cardinality(H) <= Cardinality(B \cup K3) /\ Cardinality(H) \in Nat /\ Cardinality(B \cup K3) \in Nat
  BY <1>9, <1>10, FS_Subset, FS_CardinalityType
<1>12. Cardinality(H) <= n(1) + n(2) + n(3)
  BY <1>3, <1>10, <1>11
<1> QED BY <1>5, <1>6, <1>12

\* The sets, the view and its storage.  With nodes in front of their buckets all
\* that is left is that the lists can be walked.
ViewHolds(A, fz, v, eos) ==
    /\ \A s \in Preference : IsWalkable(A[s], {s})
    /\ Sound(v, Preference) /\ fz \in BOOLEAN /\ eos \in Nat
    /\ ~v.inFront => /\ \A s \in Preference : IsHashed(A[s], {s})
                     /\ IsHashed(v.list, Preference) /\ Preferred(v.list, A)
                     /\ v.end <= eos
                     /\ fz => Keys(v.list) = UNION {Keys(A[s]) : s \in Preference}
                     /\ ~fz => eos = AllSizes(A)

ViewInv == ViewHolds(adopted, frozen, ViewSoFar, m_pEOS)

LEMMA ListedArePreferred ==
    ASSUME NEW A, NEW h, IsHashed(h, Preference), Preferred(h, A)
    PROVE  Keys(h) \subseteq UNION {Keys(A[s]) : s \in Preference}
<1>1. ASSUME NEW i \in 1..Len(h.nodes) PROVE h.nodes[i].key \in UNION {Keys(A[s]) : s \in Preference}
  <2>1. h.nodes[i].data \in Preference
    BY HashedListIs
  <2> QED BY <2>1 DEF Preferred
<1>2. DOMAIN h.nodes = 1..Len(h.nodes)
  BY HashedListIs
<1> QED BY <1>1, <1>2 DEF Keys

LEMMA SizesAreNat ==
    ASSUME NEW A, \A s \in Preference : IsWalkable(A[s], {s})
    PROVE  AllSizes(A) \in Nat
<1>1. \A s \in Preference : Len(A[s].nodes) \in Nat
  BY SetIsSeq
<1>2. 1 \in Preference /\ 2 \in Preference /\ 3 \in Preference
  BY DEF Preference
<1>3. Len(A[1].nodes) \in Nat /\ Len(A[2].nodes) \in Nat /\ Len(A[3].nodes) \in Nat
  BY <1>1, <1>2
<1>4. PICK a, b, c \in Nat : a = Len(A[1].nodes) /\ b = Len(A[2].nodes) /\ c = Len(A[3].nodes)
  BY <1>3
<1>5. AllSizes(A) = a + b + c
  BY <1>4 DEF AllSizes
<1> QED BY <1>5

LEMMA ViewStarts == ViewInit => ViewInv
<1> SUFFICES ASSUME NEW names \in [Preference -> Insertions], ViewOf(names)
             PROVE  ViewInv
  BY DEF ViewInit
<1>1. \A s \in Preference : names[s] \in Seq(Nat)
  BY ViewAssumptions
<1>2. adopted = [s \in Preference |-> Filled(names[s], s).list]
  BY DEF ViewOf
<1>3. \A s \in Preference : adopted[s] = Filled(names[s], s).list
  BY <1>2
<1>4. \A s \in Preference : IsWalkable(adopted[s], {s})
  BY <1>1, <1>3, FilledIs
<1>5. viewInFront = (\E s \in Preference : Filled(names[s], s).inFront)
  BY DEF ViewOf
<1>6. viewInFront \in BOOLEAN
  BY <1>5
<1>7. ~viewInFront => \A s \in Preference : IsHashed(adopted[s], {s})
  <2>1. ~viewInFront => \A s \in Preference : ~Filled(names[s], s).inFront
    BY <1>5
  <2> QED BY <1>1, <1>3, <2>1, FilledIs
<1>8. frozen = FALSE /\ view = EmptyList /\ m_pEnd = 0 /\ m_pEOS = AllSizes(adopted)
  BY DEF ViewOf
<1>9. m_pEOS \in Nat
  BY <1>4, <1>8, SizesAreNat
<1>10. IsHashed(view, Preference) /\ Len(view.nodes) = 0 /\ 1..0 = {}
  BY <1>8, EmptyIsHashed DEF EmptyList
<1>11. IsWalkable(view, Preference)
  BY <1>10, HashedIsWalkable
<1>12. ViewSoFar.list = view /\ ViewSoFar.end = m_pEnd /\ ViewSoFar.inFront = viewInFront
  BY DEF ViewSoFar
<1> HIDE DEF ViewSoFar
<1>13. Sound(ViewSoFar, Preference)
  BY <1>6, <1>8, <1>10, <1>11, <1>12 DEF Sound
<1>14. Preferred(view, adopted)
  BY <1>10 DEF Preferred
<1>15. IsHashed(ViewSoFar.list, Preference) /\ Preferred(ViewSoFar.list, adopted)
  BY <1>10, <1>12, <1>14
<1>16. ViewSoFar.end <= m_pEOS
  BY <1>8, <1>9, <1>12
<1>17. ~ViewSoFar.inFront => \A s \in Preference : IsHashed(adopted[s], {s})
  BY <1>7, <1>12, Zenon
<1>18. frozen \in BOOLEAN /\ ~frozen
  BY <1>8
<1> QED BY <1>4, <1>8, <1>9, <1>13, <1>15, <1>16, <1>17, <1>18 DEF ViewInv, ViewHolds

\* What the first half of the property says of a state.
LEMMA ViewIsTheUnion == ViewInv => OrderedViewIsTheUnion
<1> SUFFICES ASSUME ViewInv, ~viewInFront
             PROVE  /\ m_pEnd <= m_pEOS /\ Len(view.nodes) = m_pEnd
                    /\ frozen => Keys(view) = UNION {Keys(adopted[s]) : s \in Preference}
                    /\ \A i \in DOMAIN view.nodes :
                          LET n == view.nodes[i]
                          IN  /\ find(view, n.key) = {i}
                              /\ n.key \in Keys(adopted[n.data])
                              /\ \A s \in 1..n.data - 1 : n.key \notin Keys(adopted[s])
  BY DEF OrderedViewIsTheUnion
<1>1. ViewSoFar.list = view /\ ViewSoFar.end = m_pEnd /\ ViewSoFar.inFront = viewInFront
  BY DEF ViewSoFar
<1> HIDE DEF ViewSoFar
<1>2. /\ Sound(ViewSoFar, Preference) /\ IsHashed(view, Preference) /\ Preferred(view, adopted)
      /\ m_pEnd <= m_pEOS /\ (frozen => Keys(view) = UNION {Keys(adopted[s]) : s \in Preference})
  BY <1>1 DEF ViewInv, ViewHolds
<1>3. Len(view.nodes) = m_pEnd
  BY <1>1, <1>2 DEF Sound
<1>4. ASSUME NEW i \in 1..Len(view.nodes) PROVE find(view, view.nodes[i].key) = {i}
  <2>1. view.nodes[i].key \in Nat
    BY <1>2, HashedListIs
  <2>2. find(view, view.nodes[i].key) = {j \in 1..Len(view.nodes) : view.nodes[j].key = view.nodes[i].key}
    BY <1>2, <2>1, FindIsRight
  <2>3. \A j \in 1..Len(view.nodes) : view.nodes[j].key = view.nodes[i].key => j = i
    BY <1>2, KeysDiffer
  <2> QED BY <2>2, <2>3
<1>5. DOMAIN view.nodes = 1..Len(view.nodes)
  BY <1>2, HashedListIs
<1> QED BY <1>2, <1>3, <1>4, <1>5 DEF Preferred

\* The part of the invariant that each step has to restore, for what it makes
\* of the view.
LEMMA FindKeepsIt ==
    ASSUME ViewInv, NEW key \in UNION {Keys(adopted[s]) : s \in Preference}, find_value(key)
    PROVE  ViewInv' /\ Keeps(view.nodes, view'.nodes)
<1> DEFINE holders == {s \in Preference : find(adopted[s], key) # {}}
           preferred == CHOOSE s \in holders : \A r \in holders : s <= r
           data == adopted[preferred].nodes[CHOOSE i \in find(adopted[preferred], key) : TRUE].data
           v == ViewSoFar
           w == Insert_node(v, key, data)
<1>1. /\ find(view, key) = {} /\ ~frozen /\ holders # {}
      /\ Becomes(w) /\ adopted' = adopted /\ frozen' = frozen /\ m_pEOS' = m_pEOS
  BY DEF find_value
<1>2. /\ \A s \in Preference : IsWalkable(adopted[s], {s})
      /\ Sound(v, Preference) /\ frozen \in BOOLEAN /\ m_pEOS \in Nat
  BY DEF ViewInv, ViewHolds
<1>3. ~v.inFront => /\ \A s \in Preference : IsHashed(adopted[s], {s})
                    /\ IsHashed(v.list, Preference) /\ Preferred(v.list, adopted)
                    /\ (~frozen => m_pEOS = AllSizes(adopted))
  BY DEF ViewInv, ViewHolds
<1>4. key \in Nat
  <2>1. PICK s \in Preference : key \in Keys(adopted[s])
    OBVIOUS
  <2>2. Keys(adopted[s]) \subseteq Nat
    BY <1>2, SetIsSeq
  <2> QED BY <2>1, <2>2
<1>5. preferred \in holders /\ \A r \in holders : preferred <= r
  <2>1. holders \subseteq Nat
    BY DEF Preference
  <2> HIDE DEF holders
  <2>2. \E s \in holders : \A r \in holders : s <= r
    BY <1>1, <2>1, LeastElement
  <2> QED BY <2>2
<1>6. preferred \in Preference /\ find(adopted[preferred], key) # {}
  BY <1>5
<1>7. \A r \in 1..(preferred - 1) : find(adopted[r], key) = {}
  <2>1. preferred \in 1..3
    BY <1>6 DEF Preference
  <2> HIDE DEF preferred, holders
  <2>2. ASSUME NEW r \in 1..(preferred - 1) PROVE r \in Preference /\ ~(preferred <= r)
    BY <2>1 DEF Preference
  <2>3. ASSUME NEW r \in Preference, find(adopted[r], key) # {} PROVE preferred <= r
    BY <1>5, <2>3 DEF holders
  <2> QED BY <2>2, <2>3
<1>8. data = preferred /\ key \in Keys(adopted[preferred])
  <2>1. PICK i : i \in find(adopted[preferred], key) /\ data = adopted[preferred].nodes[i].data
    BY <1>6
  <2> HIDE DEF data, preferred
  <2>2. i \in 1..Len(adopted[preferred].nodes) /\ adopted[preferred].nodes[i].key = key
    <3>1. IsWalkable(adopted[preferred], {preferred})
      BY <1>2, <1>6
    <3> QED BY <1>4, <2>1, <3>1, FoundInWalkable
  <2>3. adopted[preferred].nodes[i].data = preferred
    BY <1>2, <1>6, <2>2, SetIsSeq
  <2>4. Keys(adopted[preferred]) = {adopted[preferred].nodes[j].key : j \in 1..Len(adopted[preferred].nodes)}
    BY <1>2, <1>6, SetIsSeq
  <2> QED BY <2>1, <2>2, <2>3, <2>4
<1>9. v.list = view /\ view' = w.list /\ m_pEnd' = w.end /\ viewInFront' = w.inFront
  BY <1>1 DEF ViewSoFar, Becomes
<1> HIDE DEF holders, preferred, data, v
<1>10. data \in Preference
  BY <1>6, <1>8
<1>11. PICK x : x = w
  OBVIOUS
<1>12. /\ Sound(x, Preference) /\ Keeps(v.list.nodes, x.list.nodes)
       /\ Adds(v.list, key, data, x.list)
       /\ ~x.inFront <=> ~v.inFront /\ ~GoesInFront(v.list, key)
  BY <1>2, <1>4, <1>10, <1>11, InsertIsSound
<1>13. x = Insert_node(v, key, data)
  BY <1>11
<1>14. view' = x.list /\ m_pEnd' = x.end /\ viewInFront' = x.inFront
  BY <1>9, <1>11
<1> HIDE DEF w
<1>15. ASSUME ~x.inFront
       PROVE  /\ \A s \in Preference : IsHashed(adopted[s], {s})
              /\ IsHashed(x.list, Preference) /\ Preferred(x.list, adopted)
              /\ x.end <= m_pEOS /\ m_pEOS = AllSizes(adopted)
  <2>1. ~v.inFront /\ ~GoesInFront(v.list, key)
    BY <1>12, <1>15
  <2>2. /\ \A s \in Preference : IsHashed(adopted[s], {s})
        /\ IsHashed(v.list, Preference) /\ Preferred(v.list, adopted) /\ m_pEOS = AllSizes(adopted)
    BY <1>1, <1>3, <2>1
  <2>3. find(v.list, key) = {}
    BY <1>1, <1>9
  <2>4. IsHashed(x.list, Preference)
    BY <1>2, <1>4, <1>10, <1>13, <2>1, <2>2, <2>3, InsertKeepsHashed
  <2>5. \A r \in 1..(preferred - 1) : key \notin Keys(adopted[r])
    <3> TAKE r \in 1..(preferred - 1)
    <3>1. r \in Preference
      BY <1>6 DEF Preference
    <3>2. IsHashed(adopted[r], {r}) /\ find(adopted[r], key) = {}
      BY <1>7, <2>2, <3>1
    <3>3. \A i \in 1..Len(adopted[r].nodes) : adopted[r].nodes[i].key # key
      BY <1>4, <3>2, FindIsRight
    <3> QED BY <3>2, <3>3, HashedListIs DEF Keys
  <2>6. ASSUME NEW i \in 1..Len(x.list.nodes)
        PROVE  /\ x.list.nodes[i].key \in Keys(adopted[x.list.nodes[i].data])
               /\ \A r \in 1..(x.list.nodes[i].data - 1) : x.list.nodes[i].key \notin Keys(adopted[r])
    <3>1. CASE \E j \in 1..Len(v.list.nodes) : /\ x.list.nodes[i].key = v.list.nodes[j].key
                                               /\ x.list.nodes[i].data = v.list.nodes[j].data
      BY <2>2, <3>1 DEF Preferred
    <3>2. CASE x.list.nodes[i].key = key /\ x.list.nodes[i].data = data
      BY <1>8, <2>5, <3>2
    <3> QED BY <1>12, <3>1, <3>2 DEF Adds
  <2>7. Preferred(x.list, adopted)
    BY <2>6 DEF Preferred
  <2>8. x.end <= m_pEOS
    <3>1. Keys(x.list) \subseteq UNION {Keys(adopted[s]) : s \in Preference}
      BY <2>4, <2>7, ListedArePreferred
    <3>2. Len(x.list.nodes) <= AllSizes(adopted)
      BY <2>2, <2>4, <3>1, SizeIsBounded
    <3> QED BY <1>12, <2>2, <3>2 DEF Sound
  <2> QED BY <2>2, <2>4, <2>7, <2>8
<1>16. ViewSoFar'.list = x.list /\ ViewSoFar'.end = x.end /\ ViewSoFar'.inFront = x.inFront
  BY <1>14 DEF ViewSoFar
<1>17. Sound(ViewSoFar, Preference)'
  BY <1>12, <1>16 DEF Sound
<1>18. ViewHolds(adopted, frozen, ViewSoFar, m_pEOS)'
  <2> DEFINE y == ViewSoFar'
  <2>1. Sound(y, Preference) /\ y.list = x.list /\ y.end = x.end /\ y.inFront = x.inFront
    BY <1>16, <1>17
  <2> HIDE DEF y
  <2>2. ViewHolds(adopted, frozen, y, m_pEOS)
    BY <1>1, <1>2, <1>15, <2>1 DEF ViewHolds
  <2> QED BY <1>1, <2>2 DEF y
<1> QED BY <1>9, <1>12, <1>14, <1>18 DEF ViewInv

LEMMA FreezeKeepsIt ==
    ASSUME ViewInv, freeze
    PROVE  ViewInv' /\ Keeps(view.nodes, view'.nodes)
<1>1. PICK v, w1, w2, w3 :
         /\ v = ViewSoFar /\ w1 = freeze_nodes_from(v, adopted[1])
         /\ w2 = freeze_nodes_from(w1, adopted[2]) /\ w3 = freeze_nodes_from(w2, adopted[3])
  OBVIOUS
<1>2. /\ ~frozen /\ frozen' = TRUE /\ Becomes(w3) /\ adopted' = adopted /\ m_pEOS' = m_pEOS
  BY <1>1 DEF freeze
<1>3. /\ \A s \in Preference : IsWalkable(adopted[s], {s})
      /\ Sound(v, Preference) /\ m_pEOS \in Nat
  BY <1>1 DEF ViewInv, ViewHolds
<1>4. ~v.inFront => /\ \A s \in Preference : IsHashed(adopted[s], {s})
                    /\ IsHashed(v.list, Preference) /\ Preferred(v.list, adopted)
                    /\ m_pEOS = AllSizes(adopted)
  BY <1>1, <1>2 DEF ViewInv, ViewHolds
<1>5. v.list = view /\ view' = w3.list /\ m_pEnd' = w3.end /\ viewInFront' = w3.inFront
  BY <1>1, <1>2 DEF ViewSoFar, Becomes
<1>6. 1 \in Preference /\ 2 \in Preference /\ 3 \in Preference /\ \A s \in Preference : s = 1 \/ s = 2 \/ s = 3
  BY DEF Preference
<1>7. Joins(v, adopted, 1, w1)
  <2>1. \A r \in 1..(1 - 1) : Keys(adopted[r]) \subseteq Keys(v.list)
    OBVIOUS
  <2> QED BY <1>1, <1>3, <1>4, <1>6, <2>1, FreezeOne
<1>8. Joins(w1, adopted, 2, w2)
  <2>1. Sound(w1, Preference)
    BY <1>7 DEF Joins
  <2>2. ASSUME ~w1.inFront
        PROVE  /\ IsHashed(w1.list, Preference) /\ Preferred(w1.list, adopted)
               /\ \A r \in 1..(2 - 1) : Keys(adopted[r]) \subseteq Keys(w1.list)
    <3>1. \A r \in 1..(2 - 1) : r = 1
      OBVIOUS
    <3> QED BY <1>7, <2>2, <3>1 DEF Joins
  <2> QED BY <1>1, <1>3, <1>6, <2>1, <2>2, FreezeOne
<1>9. Joins(w2, adopted, 3, w3)
  <2>1. Sound(w2, Preference)
    BY <1>8 DEF Joins
  <2>2. ASSUME ~w2.inFront
        PROVE  /\ IsHashed(w2.list, Preference) /\ Preferred(w2.list, adopted)
               /\ \A r \in 1..(3 - 1) : Keys(adopted[r]) \subseteq Keys(w2.list)
    <3>1. \A r \in 1..(3 - 1) : r = 1 \/ r = 2
      OBVIOUS
    <3> QED BY <1>7, <1>8, <2>2, <3>1 DEF Joins
  <2> QED BY <1>1, <1>3, <1>6, <2>1, <2>2, FreezeOne
<1>10. Sound(w3, Preference) /\ Keeps(v.list.nodes, w3.list.nodes)
  <2>1. /\ Len(v.list.nodes) \in Nat /\ Len(w1.list.nodes) \in Nat
        /\ Len(w2.list.nodes) \in Nat /\ Len(w3.list.nodes) \in Nat
    BY <1>3, <1>7, <1>8, <1>9, SoundIs DEF Joins
  <2>2. Keeps(v.list.nodes, w1.list.nodes) /\ Keeps(w1.list.nodes, w2.list.nodes)
        /\ Keeps(w2.list.nodes, w3.list.nodes)
    BY <1>7, <1>8, <1>9 DEF Joins
  <2>3. Keeps(v.list.nodes, w2.list.nodes)
    BY <2>1, <2>2, KeepsOn
  <2>4. Keeps(v.list.nodes, w3.list.nodes)
    BY <2>1, <2>2, <2>3, KeepsOn
  <2> QED BY <1>9, <2>4 DEF Joins
<1>11. ASSUME ~w3.inFront
       PROVE  /\ \A s \in Preference : IsHashed(adopted[s], {s})
              /\ IsHashed(w3.list, Preference) /\ Preferred(w3.list, adopted)
              /\ Keys(w3.list) = UNION {Keys(adopted[s]) : s \in Preference}
              /\ w3.end <= m_pEOS
  <2>1. ~w2.inFront /\ ~w1.inFront /\ ~v.inFront
    BY <1>7, <1>8, <1>9, <1>11 DEF Joins
  <2>2. /\ \A s \in Preference : IsHashed(adopted[s], {s})
        /\ IsHashed(v.list, Preference) /\ Preferred(v.list, adopted) /\ m_pEOS = AllSizes(adopted)
    BY <1>4, <2>1
  <2>3. IsHashed(w3.list, Preference) /\ Preferred(w3.list, adopted)
    BY <1>9, <1>11 DEF Joins
  <2>4. Keys(w3.list) = Keys(v.list) \cup Keys(adopted[1]) \cup Keys(adopted[2]) \cup Keys(adopted[3])
    <3>1. Keys(w1.list) = Keys(v.list) \cup Keys(adopted[1])
      BY <1>7, <2>1 DEF Joins
    <3>2. Keys(w2.list) = Keys(w1.list) \cup Keys(adopted[2])
      BY <1>8, <2>1 DEF Joins
    <3>3. Keys(w3.list) = Keys(w2.list) \cup Keys(adopted[3])
      BY <1>9, <1>11 DEF Joins
    <3> QED BY <3>1, <3>2, <3>3
  <2>5. Keys(v.list) \subseteq UNION {Keys(adopted[s]) : s \in Preference}
    BY <2>2, ListedArePreferred
  <2>6. UNION {Keys(adopted[s]) : s \in Preference} = Keys(adopted[1]) \cup Keys(adopted[2]) \cup Keys(adopted[3])
    BY <1>6
  <2>7. Keys(w3.list) = UNION {Keys(adopted[s]) : s \in Preference}
    BY <2>4, <2>5, <2>6
  <2>8. Len(w3.list.nodes) <= AllSizes(adopted)
    BY <2>2, <2>3, <2>7, SizeIsBounded
  <2> QED BY <1>10, <2>2, <2>3, <2>7, <2>8 DEF Sound
<1>12. ViewInv'
  <2>1. PICK y : y = ViewSoFar'
    OBVIOUS
  <2>2. y.list = w3.list /\ y.end = w3.end /\ y.inFront = w3.inFront
    BY <1>5, <2>1 DEF ViewSoFar
  <2>3. Sound(y, Preference)
    BY <1>10, <2>2 DEF Sound
  <2>4. ViewHolds(adopted, TRUE, y, m_pEOS)
    BY <1>3, <1>11, <2>2, <2>3 DEF ViewHolds
  <2> QED BY <1>2, <2>1, <2>4 DEF ViewInv
<1> QED BY <1>5, <1>10, <1>12

LEMMA CopyKeepsIt ==
    ASSUME ViewInv, copy_view
    PROVE  ViewInv' /\ Keeps(view.nodes, view'.nodes)
<1>1. PICK v, g, h : v = ViewSoFar /\ h = view /\ g = ListOf(Copied(h))
  OBVIOUS
<1>2. /\ \A s \in Preference : IsWalkable(adopted[s], {s})
      /\ Sound(v, Preference) /\ m_pEOS \in Nat /\ frozen = TRUE
  BY <1>1 DEF ViewInv, ViewHolds, copy_view
<1>3. ~v.inFront => /\ \A s \in Preference : IsHashed(adopted[s], {s})
                    /\ IsHashed(v.list, Preference) /\ Preferred(v.list, adopted)
                    /\ Keys(v.list) = UNION {Keys(adopted[s]) : s \in Preference}
  BY <1>1, <1>2 DEF ViewInv, ViewHolds
<1>4. v.list = h /\ v.end = m_pEnd /\ v.inFront = viewInFront
  BY <1>1 DEF ViewSoFar
<1>5. IsList(h, Preference) /\ DOMAIN h.nodes = 1..Len(h.nodes) /\ Len(h.nodes) = m_pEnd /\ m_pEnd \in Nat
  BY <1>2, <1>4, SoundIs DEF Sound, IsWalkable
<1>6. /\ view' = g /\ m_pEnd' = Len(h.nodes) /\ m_pEOS' = m_pEnd
      /\ adopted' = adopted /\ frozen' = frozen /\ viewInFront' = viewInFront
  BY <1>1, <1>5 DEF copy_view, Copied
<1>7. /\ IsWalkable(g, Preference) /\ Len(g.nodes) = Len(h.nodes)
      /\ \A i \in 1..Len(h.nodes) : g.nodes[i].at = i /\ g.nodes[i].key = h.nodes[i].key
                                    /\ g.nodes[i].data = h.nodes[i].data
  BY <1>1, <1>5, CopyIsWalkable
<1>8. Keeps(h.nodes, g.nodes)
  <2>1. \A i \in 1..Len(h.nodes) : i \in 1..Len(g.nodes) /\ i >= i
    BY <1>5, <1>7
  <2> QED BY <1>7, <2>1 DEF Keeps
<1>9. Keys(g) = Keys(h)
  <2>1. DOMAIN g.nodes = 1..Len(h.nodes)
    BY <1>7, ListIs DEF IsWalkable
  <2> QED BY <1>5, <1>7, <2>1 DEF Keys
<1>10. PICK y : y = ViewSoFar'
  OBVIOUS
<1>11. y.list = g /\ y.end = Len(h.nodes) /\ y.inFront = v.inFront
  BY <1>4, <1>6, <1>10 DEF ViewSoFar
<1>12. Sound(y, Preference)
  <2>1. v.inFront \in BOOLEAN
    BY <1>2 DEF Sound
  <2> QED BY <1>7, <1>11, <2>1 DEF Sound
<1>13. ASSUME ~y.inFront
       PROVE  /\ \A s \in Preference : IsHashed(adopted[s], {s})
              /\ IsHashed(g, Preference) /\ Preferred(g, adopted)
              /\ Keys(g) = UNION {Keys(adopted[s]) : s \in Preference}
  <2>1. /\ \A s \in Preference : IsHashed(adopted[s], {s})
        /\ IsHashed(h, Preference) /\ Preferred(h, adopted)
        /\ Keys(h) = UNION {Keys(adopted[s]) : s \in Preference}
    BY <1>3, <1>4, <1>11, <1>13
  <2>2. IsHashed(g, Preference)
    BY <1>1, <2>1, CopyIsHashed
  <2>3. Preferred(g, adopted)
    BY <1>7, <2>1 DEF Preferred
  <2> QED BY <1>9, <2>1, <2>2, <2>3
<1>14. ViewHolds(adopted, TRUE, y, m_pEnd)
  <2>1. ASSUME ~y.inFront
        PROVE  /\ \A s \in Preference : IsHashed(adopted[s], {s})
               /\ IsHashed(y.list, Preference) /\ Preferred(y.list, adopted)
               /\ Keys(y.list) = UNION {Keys(adopted[s]) : s \in Preference}
    BY <1>11, <1>13, <2>1
  <2>2. y.end <= m_pEnd
    BY <1>5, <1>11
  <2> QED BY <1>2, <1>5, <1>12, <2>1, <2>2 DEF ViewHolds
<1>15. ViewInv'
  BY <1>2, <1>6, <1>10, <1>14 DEF ViewInv
<1> QED BY <1>1, <1>6, <1>8, <1>15

LEMMA ViewStep ==
    ASSUME ViewInv, [ViewNext]_viewVars
    PROVE  ViewInv' /\ Keeps(view.nodes, view'.nodes)
<1>1. CASE ViewNext
  <2>1. CASE \E key \in UNION {Keys(adopted[s]) : s \in Preference} : find_value(key)
    BY <2>1, FindKeepsIt
  <2>2. CASE freeze
    BY <2>2, FreezeKeepsIt
  <2>3. CASE copy_view
    BY <2>3, CopyKeepsIt
  <2> QED BY <1>1, <2>1, <2>2, <2>3 DEF ViewNext
<1>2. CASE UNCHANGED viewVars
  <2>1. /\ adopted' = adopted /\ frozen' = frozen /\ m_pEOS' = m_pEOS
        /\ view' = view /\ m_pEnd' = m_pEnd /\ viewInFront' = viewInFront
    BY <1>2 DEF viewVars
  <2>2. ViewSoFar' = ViewSoFar
    BY <2>1 DEF ViewSoFar
  <2>3. ViewInv'
    BY <2>1, <2>2 DEF ViewInv
  <2>4. Keeps(view.nodes, view.nodes)
    <3>1. Sound(ViewSoFar, Preference) /\ ViewSoFar.list = view
      BY DEF ViewInv, ViewHolds, ViewSoFar
    <3>2. Len(view.nodes) \in Nat
      BY <3>1, SoundIs
    <3>3. \A i \in 1..Len(view.nodes) : i >= i
      BY <3>2
    <3> QED BY <3>3 DEF Keeps
  <2> QED BY <2>1, <2>3, <2>4
<1> QED BY <1>1, <1>2

\* Every lookup, every freeze and every copy leaves the view the union of the
\* three sets or a part of it, with the preferred values, in order and inside
\* its storage; what was acquired stays.
THEOREM ViewsGrowIntoTheUnion == ViewSpec => ViewGrowsIntoTheUnion
<1>1. ASSUME ViewInv, [ViewNext]_viewVars
      PROVE  OrderedViewIsTheUnion' /\ ValuesAreAcquiredOnce
  <2>1. ViewInv' /\ Keeps(view.nodes, view'.nodes)
    BY <1>1, ViewStep
  <2>2. OrderedViewIsTheUnion'
    BY <2>1, ViewIsTheUnion, PTL
  <2>3. DOMAIN view.nodes = 1..Len(view.nodes)
    <3>1. Sound(ViewSoFar, Preference) /\ ViewSoFar.list = view
      BY <1>1 DEF ViewInv, ViewHolds, ViewSoFar
    <3> QED BY <3>1, SoundIs
  <2>4. DOMAIN view'.nodes = 1..Len(view'.nodes)
    <3>1. PICK y : y = ViewSoFar' /\ Sound(y, Preference) /\ y.list = view'
      BY <2>1 DEF ViewInv, ViewHolds, ViewSoFar
    <3> QED BY <3>1, SoundIs
  <2>5. ValuesAreAcquiredOnce
    BY <2>1, <2>3, <2>4 DEF Keeps, ValuesAreAcquiredOnce
  <2> QED BY <2>2, <2>5
<1>2. ViewInit => ViewInv
  BY ViewStarts
<1>3. ViewInv /\ [ViewNext]_viewVars => ViewInv'
  BY ViewStep
<1> QED BY <1>1, <1>2, <1>3, PTL DEF ViewSpec, ViewGrowsIntoTheUnion

-------------------------------------------------------------------------------
(* Filters, for any names, relations and nesting.  Below what the stack    *)
(* holds for the last term lie the left operands of the operations that    *)
(* are open, in their order: c[i] is how many of the first i constructs    *)
(* are operations, and so where in the stack the left operand of construct *)
(* i lies.  `Standing' says so of any constructs and stack, with k filters *)
(* above the left operands, and is followed through every way in which the *)
(* actions change the two.                                                 *)

Constructs(S) == [op : {"expression", "not"} \cup Operations, left : S]
One(construct) == IF construct.op \in Operations THEN 1 ELSE 0
Counts(c, cs) ==
    /\ c \in [0..Len(cs) -> Nat] /\ c[0] = 0
    /\ \A i \in 1..Len(cs) : c[i] = c[i - 1] + One(cs[i])
    /\ \A i, j \in 0..Len(cs) : i <= j => c[i] <= c[j]
LeftsLie(c, cs, stack) ==
    \A i \in 1..Len(cs) : cs[i].op \in Operations => c[i] \in 1..Len(stack) /\ stack[c[i]] = cs[i].left
Standing(cs, stack, k) == \E c : Counts(c, cs) /\ LeftsLie(c, cs, stack) /\ Len(stack) = c[Len(cs)] + k

\* A stack without its top.
LEMMA PoppedStack ==
    ASSUME NEW S, NEW s \in Seq(S), s # <<>>
    PROVE  /\ PoppedOne(s) \in Seq(S) /\ Len(PoppedOne(s)) = Len(s) - 1 /\ Len(s) \in Nat \ {0}
           /\ \A i \in 1..Len(s) - 1 : PoppedOne(s)[i] = s[i]
           /\ TopOf(s) \in S
<1>1. Len(s) \in Nat \ {0} /\ \A i \in 1..Len(s) : s[i] \in S
  OBVIOUS
<1>2. Len(s) - 1 \in Int /\ 1 \in Int /\ \A i \in 1..Len(s) - 1 : i \in 1..Len(s) /\ 1 + i - 1 = i
  BY <1>1
<1>3. PoppedOne(s) \in Seq(S)
  BY <1>1, <1>2, SubSeqProperties DEF PoppedOne
<1>4. /\ Len(SubSeq(s, 1, Len(s) - 1)) = IF 1 <= Len(s) - 1 THEN Len(s) - 1 - 1 + 1 ELSE 0
      /\ \A i \in 1..Len(s) - 1 - 1 + 1 : SubSeq(s, 1, Len(s) - 1)[i] = s[1 + i - 1]
  BY <1>1, <1>2, SubSeqProperties
<1>5. Len(PoppedOne(s)) = Len(s) - 1 /\ \A i \in 1..Len(s) - 1 : PoppedOne(s)[i] = s[i]
  <2> DEFINE n == Len(s)  t == SubSeq(s, 1, Len(s) - 1)
  <2> HIDE DEF n, t
  <2>1. /\ n \in Nat \ {0} /\ Len(t) = IF 1 <= n - 1 THEN n - 1 - 1 + 1 ELSE 0
        /\ \A i \in 1..n - 1 - 1 + 1 : t[i] = s[1 + i - 1]
        /\ \A i \in 1..n - 1 : 1 + i - 1 = i
    BY <1>1, <1>2, <1>4 DEF n, t
  <2>2. n - 1 - 1 + 1 = n - 1
    BY <2>1
  <2>3. Len(t) = n - 1
    BY <2>1
  <2>4. \A i \in 1..n - 1 : t[i] = s[i]
    BY <2>1, <2>2
  <2> QED BY <2>3, <2>4 DEF PoppedOne, n, t
<1> QED BY <1>1, <1>3, <1>5 DEF TopOf

LEMMA PushedStack ==
    ASSUME NEW S, NEW s \in Seq(S), NEW f \in S
    PROVE  /\ PushedOn(s, f) \in Seq(S) /\ Len(PushedOn(s, f)) = Len(s) + 1 /\ PushedOn(s, f) # <<>>
           /\ \A i \in 1..Len(s) : PushedOn(s, f)[i] = s[i]
           /\ TopOf(PushedOn(s, f)) = f
BY DEF PushedOn, TopOf

\* Nothing is on the stack when the text begins.
LEMMA StandingAtFirst ==
    ASSUME NEW x
    PROVE  Standing(<<Construct("expression", x)>>, <<>>, 0)
<1> DEFINE cs == <<Construct("expression", x)>>
           c == [i \in 0..1 |-> 0]
<1>1. Len(cs) = 1 /\ cs[1].op = "expression" /\ Len(<<>>) = 0
  BY DEF Construct
<1>2. "expression" \notin Operations
  BY DEF Operations
<1> HIDE DEF cs
<1>3. Counts(c, cs) /\ LeftsLie(c, cs, <<>>) /\ c[Len(cs)] = 0
  BY <1>1, <1>2 DEF Counts, LeftsLie, One
<1> HIDE DEF c
<1>4. Standing(cs, <<>>, 0)
  BY <1>1, <1>3 DEF Standing
<1> QED BY <1>4 DEF cs

\* A parenthesis or a negation leaves the stack alone.
LEMMA StandingWhenEntered ==
    ASSUME NEW S, NEW cs \in Seq(Constructs(S)), NEW stack \in Seq(S), NEW k \in Nat,
           Standing(cs, stack, k),
           NEW new \in Constructs(S), new.op \notin Operations
    PROVE  Standing(Append(cs, new), stack, k)
<1>1. PICK c : Counts(c, cs) /\ LeftsLie(c, cs, stack) /\ Len(stack) = c[Len(cs)] + k
  BY DEF Standing
<1> DEFINE n == Len(cs)
           ds == Append(cs, new)
           d == [i \in 0..n + 1 |-> IF i = n + 1 THEN c[n] ELSE c[i]]
<1>2. n \in Nat /\ Len(ds) = n + 1 /\ ds[n + 1] = new /\ \A i \in 1..n : ds[i] = cs[i]
  OBVIOUS
<1>3. /\ d \in [0..n + 1 -> Nat] /\ d[0] = 0 /\ d[n + 1] = c[n]
      /\ \A i \in 0..n : d[i] = c[i]
  BY <1>1, <1>2 DEF Counts
<1>a. \A i \in 1..n + 1 : i = n + 1 \/ i \in 1..n
  BY <1>2
<1>b. \A i \in 0..n + 1 : i = n + 1 \/ i \in 0..n
  BY <1>2
<1>c. \A i \in 1..n : i \in 0..n /\ i - 1 \in 0..n
  BY <1>2
<1> HIDE DEF d, ds, n
<1>4. \A i \in 1..n + 1 : d[i] = d[i - 1] + One(ds[i])
  <2> SUFFICES ASSUME NEW i \in 1..n + 1 PROVE d[i] = d[i - 1] + One(ds[i])
    OBVIOUS
  <2>1. CASE i = n + 1
    <3>1. d[i] = c[n] /\ d[i - 1] = c[n] /\ One(ds[i]) = 0 /\ c[n] \in Nat
      BY <1>1, <1>2, <1>3, <2>1 DEF One, Counts, n
    <3> QED BY <3>1
  <2>2. CASE i \in 1..n
    BY <1>1, <1>2, <1>3, <1>c, <2>2 DEF Counts, n
  <2> QED BY <1>a, <2>1, <2>2
<1>5. \A i, j \in 0..n + 1 : i <= j => d[i] <= d[j]
  <2> SUFFICES ASSUME NEW i \in 0..n + 1, NEW j \in 0..n + 1, i <= j PROVE d[i] <= d[j]
    OBVIOUS
  <2>1. n \in 0..n /\ c[n] <= c[n]
    BY <1>1, <1>2 DEF Counts, n
  <2>2. \A u, v \in 0..n : u <= v => c[u] <= c[v]
    BY <1>1 DEF Counts, n
  <2>3. CASE j = n + 1
    BY <1>2, <1>3, <1>b, <2>1, <2>2, <2>3
  <2>4. CASE j \in 0..n
    <3>1. i \in 0..n
      BY <1>2, <2>4
    <3> QED BY <1>3, <2>2, <2>4, <3>1
  <2> QED BY <1>b, <2>3, <2>4
<1>6. Counts(d, ds)
  BY <1>2, <1>3, <1>4, <1>5 DEF Counts
<1>7. LeftsLie(d, ds, stack)
  BY <1>1, <1>2, <1>3, <1>a, <1>c DEF LeftsLie, n
<1>8. Len(stack) = d[Len(ds)] + k
  BY <1>1, <1>2, <1>3 DEF n
<1> QED BY <1>6, <1>7, <1>8 DEF Standing, ds

\* A construct that is no operation is left.
LEMMA StandingWhenLeft ==
    ASSUME NEW S, NEW cs \in Seq(Constructs(S)), NEW stack \in Seq(S), NEW k \in Nat,
           Standing(cs, stack, k), cs # <<>>, TopOf(cs).op \notin Operations
    PROVE  Standing(PoppedOne(cs), stack, k)
<1>1. PICK c : Counts(c, cs) /\ LeftsLie(c, cs, stack) /\ Len(stack) = c[Len(cs)] + k
  BY DEF Standing
<1> DEFINE n == Len(cs) - 1
           ds == PoppedOne(cs)
           d == [i \in 0..n |-> c[i]]
<1>2. n \in Nat /\ Len(cs) = n + 1 /\ Len(ds) = n /\ \A i \in 1..n : ds[i] = cs[i]
  BY PoppedStack
<1>3. cs[n + 1].op \notin Operations
  BY <1>2 DEF TopOf
<1>4. \A i \in 0..n : d[i] = c[i] /\ i \in 0..n + 1 /\ (i # 0 => i - 1 \in 0..n /\ i \in 1..n + 1)
  BY <1>2
<1>5. d \in [0..n -> Nat] /\ \A i \in 1..n : i \in 0..n /\ i # 0
  BY <1>1, <1>2, <1>4 DEF Counts
<1> HIDE DEF d, ds, n
<1>6. c[n + 1] = c[n] /\ 0 \in 0..n /\ n \in 0..n
  <2>1. n + 1 \in 1..Len(cs) /\ n \in 0..n /\ 0 \in 0..n /\ (n + 1) - 1 = n
    BY <1>2
  <2>2. c[n + 1] = c[(n + 1) - 1] + One(cs[n + 1]) /\ c[n] \in Nat
    BY <1>1, <1>2, <1>4, <2>1 DEF Counts
  <2> QED BY <1>3, <2>1, <2>2 DEF One
<1>7. Counts(d, ds)
  <2>1. d[0] = 0
    BY <1>1, <1>4, <1>6 DEF Counts
  <2>2. \A i \in 1..n : d[i] = d[i - 1] + One(ds[i])
    BY <1>1, <1>2, <1>4, <1>5 DEF Counts
  <2>3. \A i, j \in 0..n : i <= j => d[i] <= d[j]
    BY <1>1, <1>2, <1>4 DEF Counts
  <2> QED BY <1>2, <1>5, <2>1, <2>2, <2>3 DEF Counts
<1>8. LeftsLie(d, ds, stack)
  BY <1>1, <1>2, <1>4, <1>5 DEF LeftsLie
<1>9. Len(stack) = d[Len(ds)] + k
  BY <1>1, <1>2, <1>4, <1>6
<1> QED BY <1>7, <1>8, <1>9 DEF Standing, ds

\* The sign of an operation: the filter on top becomes its left operand.
LEMMA StandingAfterSign ==
    ASSUME NEW S, NEW cs \in Seq(Constructs(S)), NEW stack \in Seq(S),
           Standing(cs, stack, 1), cs # <<>>, TopOf(cs).op \notin Operations,
           NEW new, new.op \in Operations, new.left = TopOf(stack)
    PROVE  Standing([cs EXCEPT ![Len(cs)] = new], stack, 0)
<1>1. PICK c : Counts(c, cs) /\ LeftsLie(c, cs, stack) /\ Len(stack) = c[Len(cs)] + 1
  BY DEF Standing
<1> DEFINE n == Len(cs)
           ds == [cs EXCEPT ![n] = new]
           d == [c EXCEPT ![n] = c[n] + 1]
<1>2. n \in Nat \ {0} /\ Len(ds) = n /\ ds[n] = new /\ \A i \in 1..n : i # n => ds[i] = cs[i]
  OBVIOUS
<1>3. /\ d \in [0..n -> Nat] /\ d[n] = c[n] + 1 /\ c[n] \in Nat /\ c[n - 1] \in Nat
      /\ \A i \in 0..n : i # n => d[i] = c[i]
  BY <1>1, <1>2 DEF Counts
<1>4. cs[n].op \notin Operations
  BY DEF TopOf
<1>5. \A i \in 1..n : i \in 0..n /\ i - 1 \in 0..n /\ i - 1 # n
  BY <1>2
<1>6. Len(stack) \in Nat /\ n \in 1..n /\ n \in 0..n /\ 0 \in 0..n /\ 0 # n
  BY <1>2
<1> HIDE DEF d, ds, n
<1>7. c[n] = c[n - 1]
  BY <1>1, <1>3, <1>4, <1>6 DEF Counts, One, n
<1>8. \A i \in 1..n : d[i] = d[i - 1] + One(ds[i])
  <2> SUFFICES ASSUME NEW i \in 1..n PROVE d[i] = d[i - 1] + One(ds[i])
    OBVIOUS
  <2>1. CASE i = n
    <3>1. One(ds[i]) = 1 /\ d[i] = c[n] + 1 /\ d[i - 1] = c[n - 1]
      BY <1>2, <1>3, <1>5, <2>1 DEF One
    <3> QED BY <1>7, <3>1
  <2>2. CASE i # n
    BY <1>1, <1>2, <1>3, <1>5, <2>2 DEF Counts, n
  <2> QED BY <2>1, <2>2
<1>9. \A i, j \in 0..n : i <= j => d[i] <= d[j]
  <2> SUFFICES ASSUME NEW i \in 0..n, NEW j \in 0..n, i <= j PROVE d[i] <= d[j]
    OBVIOUS
  <2>1. c[i] <= c[j] /\ c[i] \in Nat /\ c[j] \in Nat
    BY <1>1 DEF Counts, n
  <2>2. i = n => j = n
    BY <1>2
  <2> QED BY <1>3, <2>1, <2>2
<1>10. Counts(d, ds)
  BY <1>1, <1>2, <1>3, <1>6, <1>8, <1>9 DEF Counts
<1>11. LeftsLie(d, ds, stack)
  <2> SUFFICES ASSUME NEW i \in 1..n, ds[i].op \in Operations
               PROVE  d[i] \in 1..Len(stack) /\ stack[d[i]] = ds[i].left
    BY <1>2 DEF LeftsLie
  <2>1. CASE i = n
    <3>1. d[i] = Len(stack) /\ Len(stack) \in 1..Len(stack)
      BY <1>1, <1>3, <1>6, <2>1 DEF n
    <3>2. ds[i].left = stack[Len(stack)]
      BY <1>2, <2>1 DEF TopOf
    <3> QED BY <3>1, <3>2
  <2>2. CASE i # n
    BY <1>1, <1>2, <1>3, <1>5, <2>2 DEF LeftsLie, n
  <2> QED BY <2>1, <2>2
<1>12. Len(stack) = d[Len(ds)] + 0
  BY <1>1, <1>2, <1>3 DEF n
<1> QED BY <1>10, <1>11, <1>12 DEF Standing, ds, n

\* A filter is put on top of what lies there, or takes the place of the top.
LEMMA StandingWhenPushed ==
    ASSUME NEW S, NEW cs \in Seq(Constructs(S)), NEW stack \in Seq(S), NEW f \in S,
           Standing(cs, stack, 0)
    PROVE  Standing(cs, PushedOn(stack, f), 1)
<1>1. PICK c : Counts(c, cs) /\ LeftsLie(c, cs, stack) /\ Len(stack) = c[Len(cs)] + 0
  BY DEF Standing
<1> DEFINE more == PushedOn(stack, f)
<1>2. Len(stack) \in Nat /\ Len(more) = Len(stack) + 1 /\ \A i \in 1..Len(stack) : more[i] = stack[i]
  <2>1. Len(stack) \in Nat
    OBVIOUS
  <2> QED BY <2>1, PushedStack
<1> HIDE DEF more
<1>3. LeftsLie(c, cs, more)
  BY <1>1, <1>2 DEF LeftsLie
<1>4. Len(cs) \in Nat /\ Len(cs) \in 0..Len(cs)
  OBVIOUS
<1>5. c[Len(cs)] \in Nat
  BY <1>1, <1>4 DEF Counts
<1>6. Len(more) = c[Len(cs)] + 1
  BY <1>1, <1>2, <1>5
<1> QED BY <1>1, <1>3, <1>6 DEF Standing, more

LEMMA StandingWhenReplaced ==
    ASSUME NEW S, NEW cs \in Seq(Constructs(S)), NEW stack \in Seq(S), NEW f \in S,
           Standing(cs, stack, 1)
    PROVE  stack # <<>> /\ Standing(cs, PushedOn(PoppedOne(stack), f), 1)
<1>1. PICK c : Counts(c, cs) /\ LeftsLie(c, cs, stack) /\ Len(stack) = c[Len(cs)] + 1
  BY DEF Standing
<1>2. Len(cs) \in Nat /\ Len(cs) \in 0..Len(cs)
  OBVIOUS
<1>3. c[Len(cs)] \in Nat /\ Len(stack) \in Nat
  BY <1>1, <1>2 DEF Counts
<1>4. stack # <<>>
  BY <1>1, <1>3
<1> DEFINE rest == PoppedOne(stack)
<1>5. rest \in Seq(S) /\ Len(rest) = Len(stack) - 1 /\ \A i \in 1..Len(stack) - 1 : rest[i] = stack[i]
  BY <1>4, PoppedStack
<1> HIDE DEF rest
<1>6. LeftsLie(c, cs, rest)
  <2>1. \A i \in 1..Len(cs) : c[i] <= c[Len(cs)] /\ c[i] \in Nat
    <3>1. \A i \in 1..Len(cs) : i \in 0..Len(cs) /\ i <= Len(cs)
      BY <1>2
    <3> QED BY <1>1, <1>2, <3>1 DEF Counts
  <2>2. c[Len(cs)] = Len(stack) - 1 /\ Len(rest) = c[Len(cs)]
    BY <1>1, <1>3, <1>5
  <2> QED BY <1>1, <1>3, <1>5, <2>1, <2>2 DEF LeftsLie
<1>7. Len(rest) = c[Len(cs)] + 0
  BY <1>1, <1>3, <1>5
<1>8. Standing(cs, rest, 0)
  BY <1>1, <1>6, <1>7 DEF Standing
<1> QED BY <1>4, <1>5, <1>8, StandingWhenPushed DEF rest

\* The operation whose right operand is complete finds both, the left one where
\* the construct says, and what it makes of them stands for the expression so far.
LEMMA StandingAfterOperation ==
    ASSUME NEW S, NEW cs \in Seq(Constructs(S)), NEW stack \in Seq(S), NEW f \in S,
           Standing(cs, stack, 1), cs # <<>>, TopOf(cs).op \in Operations,
           NEW new \in Constructs(S), new.op \notin Operations
    PROVE  /\ Len(stack) >= 2 /\ PoppedOne(stack) # <<>> /\ stack # <<>>
           /\ TopOf(PoppedOne(stack)) = TopOf(cs).left
           /\ Standing([cs EXCEPT ![Len(cs)] = new], PushedOn(PoppedOne(PoppedOne(stack)), f), 1)
<1>1. PICK c : Counts(c, cs) /\ LeftsLie(c, cs, stack) /\ Len(stack) = c[Len(cs)] + 1
  BY DEF Standing
<1> DEFINE n == Len(cs)
           ds == [cs EXCEPT ![n] = new]
           d == [c EXCEPT ![n] = c[n] - 1]
           one == PoppedOne(stack)
           two == PoppedOne(one)
<1>2. /\ n \in Nat \ {0} /\ Len(ds) = n /\ ds[n] = new /\ ds \in Seq(Constructs(S))
      /\ \A i \in 1..n : i # n => ds[i] = cs[i]
  OBVIOUS
<1>3. n \in 1..n /\ n \in 0..n /\ 0 \in 0..n /\ 0 # n /\ n - 1 \in 0..n /\ n - 1 # n
  <2> HIDE DEF n, ds
  <2> QED BY <1>2
<1>4. cs[n].op \in Operations
  BY DEF TopOf
<1>5. c[n] \in Nat /\ c[n - 1] \in Nat /\ c[n] = c[n - 1] + 1
  BY <1>1, <1>3, <1>4 DEF Counts, One
<1>6. Len(stack) >= 2 /\ stack # <<>> /\ Len(stack) \in Nat
  BY <1>1, <1>5
<1>7. one \in Seq(S) /\ Len(one) = Len(stack) - 1 /\ \A i \in 1..Len(stack) - 1 : one[i] = stack[i]
  BY <1>6, PoppedStack
<1>8. one # <<>>
  BY <1>6, <1>7
<1>9. two \in Seq(S) /\ Len(two) = Len(one) - 1 /\ \A i \in 1..Len(one) - 1 : two[i] = one[i]
  <2> HIDE DEF one
  <2> QED BY <1>7, <1>8, PoppedStack
<1>10. TopOf(one) = TopOf(cs).left
  <2>1. Len(one) = c[n] /\ c[n] \in 1..Len(stack) - 1
    BY <1>1, <1>5, <1>7
  <2>2. stack[c[n]] = cs[n].left
    BY <1>1, <1>3, <1>4 DEF LeftsLie
  <2> QED BY <1>7, <2>1, <2>2 DEF TopOf
<1>11. /\ d \in [0..n -> Nat] /\ d[n] = c[n - 1]
       /\ \A i \in 0..n : i # n => d[i] = c[i]
  BY <1>1, <1>3, <1>5 DEF Counts
<1>12. \A i \in 1..n : i \in 0..n /\ i - 1 \in 0..n /\ i - 1 # n /\ (i # n => i <= n - 1)
  BY <1>2
<1> HIDE DEF d, ds, n, one, two
<1>13. \A i \in 1..n : d[i] = d[i - 1] + One(ds[i])
  <2> SUFFICES ASSUME NEW i \in 1..n PROVE d[i] = d[i - 1] + One(ds[i])
    OBVIOUS
  <2>1. CASE i = n
    <3>1. One(ds[i]) = 0 /\ d[i] = c[n - 1] /\ d[i - 1] = c[n - 1]
      BY <1>2, <1>3, <1>11, <1>12, <2>1 DEF One
    <3> QED BY <1>5, <3>1
  <2>2. CASE i # n
    BY <1>1, <1>2, <1>11, <1>12, <2>2 DEF Counts, n
  <2> QED BY <2>1, <2>2
<1>14. \A i, j \in 0..n : i <= j => d[i] <= d[j]
  <2> SUFFICES ASSUME NEW i \in 0..n, NEW j \in 0..n, i <= j PROVE d[i] <= d[j]
    OBVIOUS
  <2>1. /\ c[i] <= c[j] /\ c[i] \in Nat /\ c[j] \in Nat
        /\ i <= n - 1 => c[i] <= c[n - 1]
    BY <1>1, <1>3 DEF Counts, n
  <2>2. (i = n => j = n) /\ (i # n => i <= n - 1)
    BY <1>2
  <2> QED BY <1>5, <1>11, <2>1, <2>2
<1>15. Counts(d, ds)
  BY <1>2, <1>3, <1>1, <1>11, <1>13, <1>14 DEF Counts
<1>16. LeftsLie(d, ds, two)
  <2> SUFFICES ASSUME NEW i \in 1..n, ds[i].op \in Operations
               PROVE  d[i] \in 1..Len(two) /\ two[d[i]] = ds[i].left
    BY <1>2 DEF LeftsLie
  <2>1. i # n
    BY <1>2
  <2>2. d[i] = c[i] /\ ds[i] = cs[i]
    BY <1>2, <1>11, <1>12, <2>1
  <2>3. c[i] \in 1..Len(stack) /\ stack[c[i]] = cs[i].left
    BY <1>1, <2>2 DEF LeftsLie, n
  <2>4. c[i] <= c[n - 1]
    BY <1>1, <1>3, <1>12, <2>1 DEF Counts, n
  <2>5. c[n - 1] = Len(stack) - 2
    BY <1>1, <1>5, <1>6 DEF n
  <2>6. c[i] \in 1..Len(two) /\ c[i] \in 1..Len(one) - 1 /\ c[i] \in 1..Len(stack) - 1
    BY <1>6, <1>7, <1>9, <2>3, <2>4, <2>5
  <2> QED BY <1>7, <1>9, <2>2, <2>3, <2>6
<1>17. Len(two) = d[Len(ds)] + 0
  BY SMTT(40), <1>1, <1>2, <1>5, <1>6, <1>7, <1>9, <1>11, <1>3 DEF n
<1>18. Standing(ds, two, 0)
  BY <1>15, <1>16, <1>17 DEF Standing
<1>19. Standing(ds, PushedOn(two, f), 1)
  BY <1>2, <1>9, <1>18, StandingWhenPushed
<1> QED BY <1>6, <1>8, <1>10, <1>19 DEF ds, one, two, n

\* Where no construct is open, k filters are all there is.
LEMMA StandingInTheEnd ==
    ASSUME NEW stack, NEW k \in Nat, Standing(<<>>, stack, k)
    PROVE  Len(stack) = k
BY DEF Standing, Counts

\* Every place of the grammar: before a term the left operands alone lie on the
\* stack, behind a name too, which is not turned into a filter yet, and behind a
\* term its filter lies above them.  It may still be a name, but not the right
\* operand of an operation.
Named == {"relation", "custom operand", "compare", "custom"}
Placed ==
    /\ expects \in Named \cup {"term", "parenthesis", "rest", "word", "nothing"}
    /\ expects \in {"term", "parenthesis"} => Standing(constructs, WithHasAttr, 0)
    /\ expects \in Named => /\ m_AttributeName \in FilterNames /\ meaning = <<"exists", m_AttributeName>>
                            /\ Standing(constructs, m_Subexpressions, 0)
    /\ expects \in {"compare", "custom"} => m_Operand # NoText
    /\ expects \in {"custom operand", "custom"} => m_CustomRelation # NoText
    /\ expects = "custom" => m_CustomRelation \notin Operations
    /\ expects \in {"rest", "word"} =>
                           /\ Standing(constructs, WithHasAttr, 1) /\ TopOf(WithHasAttr) = meaning
                           /\ Innermost.op \in Operations => m_AttributeName = NoText
    /\ expects = "nothing" => /\ m_AttributeName = NoText /\ Len(m_Subexpressions) = 1
                              /\ m_Filter = NoFilter => m_Subexpressions[1] = meaning
                              /\ m_Filter # NoFilter => m_Filter = meaning
    /\ expects # "nothing" => m_Filter = NoFilter /\ constructs # <<>>
Fits(S) ==
    /\ NoFilter \in S /\ meaning \in S
    /\ m_Subexpressions \in Seq(S) /\ WithHasAttr \in Seq(S)
    /\ constructs \in Seq(Constructs(S))
    /\ constructs # <<>> => constructs[1].op # "not"
FilterInv ==
    /\ unambiguous \in BOOLEAN
    /\ unambiguous => thrown = "nothing" /\ (\E S : Fits(S)) /\ Placed

\* A bigger set of filters does not change what fits.
LEMMA FiltersGrow ==
    ASSUME NEW S, NEW T, S \subseteq T
    PROVE  Seq(S) \subseteq Seq(T) /\ Seq(Constructs(S)) \subseteq Seq(Constructs(T))
<1>1. Seq(S) \subseteq Seq(T)
  BY SeqMonotonic
<1>2. Constructs(S) \subseteq Constructs(T)
  BY DEF Constructs
<1> QED BY <1>1, <1>2, SeqMonotonic

LEMMA FilterInvInit == FiltersInit => FilterInv
<1> SUFFICES ASSUME FiltersInit PROVE FilterInv
  OBVIOUS
<1> DEFINE first == Construct("expression", NoFilter)
           S == {NoFilter}
<1>1. /\ WithHasAttr = <<>> /\ first \in Constructs(S) /\ constructs = <<first>>
      /\ first.op = "expression" /\ NoFilter \in S
  BY DEF FiltersInit, WithHasAttr, Constructs, Construct
<1>2. Standing(<<first>>, <<>>, 0)
  BY StandingAtFirst
<1> HIDE DEF first
<1>3. Fits(S)
  <2> HIDE DEF S
  <2>1. <<first>> \in Seq(Constructs(S)) /\ <<first>> # <<>> /\ <<first>>[1] = first
    BY <1>1
  <2>2. <<>> \in Seq(S)
    OBVIOUS
  <2> QED BY <1>1, <2>1, <2>2 DEF FiltersInit, Fits
<1>4. Placed
  BY <1>1, <1>2 DEF FiltersInit, Placed, Named
<1> QED BY <1>3, <1>4 DEF FiltersInit, FilterInv

\* Every action keeps the invariant: where the text is not unambiguous, nothing is
\* claimed, and no action makes it so again.
LEMMA EnterKeeps ==
    ASSUME FilterInv, unambiguous, NEW op \in {"expression", "not"}, enter(op)
    PROVE  thrown' = "nothing" /\ (\E S : Fits(S)') /\ Placed'
<1>1. PICK S : Fits(S)
  BY DEF FilterInv
<1> DEFINE new == Construct(op, NoFilter)
<1>2. /\ expects \in {"term", "parenthesis"} /\ expects' = "term" /\ thrown' = thrown /\ thrown = "nothing"
      /\ constructs' = Append(constructs, new) /\ WithHasAttr' = WithHasAttr
      /\ UNCHANGED <<meaning, m_AttributeName, m_Subexpressions, m_Filter>>
  BY DEF enter, Called, WithHasAttr
<1>3. new \in Constructs(S) /\ new.op \notin Operations
  BY <1>1 DEF Constructs, Construct, Fits, Operations
<1> HIDE DEF new
<1>5. Standing(constructs, WithHasAttr, 0) /\ m_Filter = NoFilter /\ constructs # <<>>
  BY <1>2 DEF FilterInv, Placed
<1>4. Fits(S)'
  <2>1. constructs' \in Seq(Constructs(S)) /\ constructs'[1] = constructs[1]
    BY <1>1, <1>2, <1>3, <1>5 DEF Fits
  <2> QED BY <1>1, <1>2, <1>5, <2>1 DEF Fits
<1>6. Standing(constructs', WithHasAttr', 0)
  BY <1>1, <1>2, <1>3, <1>5, StandingWhenEntered DEF Fits
<1>7. constructs' # <<>>
  BY <1>1, <1>2, <1>3 DEF Fits
<1>8. Placed'
  BY <1>2, <1>5, <1>6, <1>7 DEF Placed, Named
<1> QED BY <1>2, <1>4, <1>8

LEMMA SignKeeps ==
    ASSUME FilterInv, unambiguous, NEW op \in Operations, operation_sign(op)
    PROVE  thrown' = "nothing" /\ (\E S : Fits(S)') /\ Placed'
<1>1. PICK S : Fits(S)
  BY DEF FilterInv
<1> DEFINE new == Construct(op, meaning)
<1>2. /\ expects \in {"rest", "word"} /\ expects' \in {"term", "parenthesis"} /\ thrown' = thrown /\ thrown = "nothing"
      /\ constructs' = [constructs EXCEPT ![Len(constructs)] = new] /\ WithHasAttr' = WithHasAttr
      /\ Innermost.op = "expression"
      /\ UNCHANGED <<meaning, m_AttributeName, m_Subexpressions, m_Filter>>
  BY DEF operation_sign, Called, WithHasAttr
<1>3. new \in Constructs(S) /\ new.op \in Operations /\ new.left = meaning /\ "expression" \notin Operations
  BY <1>1 DEF Constructs, Construct, Fits, Operations
<1> HIDE DEF new
<1>4. /\ Standing(constructs, WithHasAttr, 1) /\ TopOf(WithHasAttr) = meaning
      /\ m_Filter = NoFilter /\ constructs # <<>>
  BY <1>2 DEF FilterInv, Placed
<1>5. constructs' \in Seq(Constructs(S)) /\ constructs' # <<>>
  BY <1>1, <1>2, <1>3, <1>4 DEF Fits
<1>6. Fits(S)'
  <2>1. constructs'[1].op # "not"
    <3>1. constructs'[1] = new \/ constructs'[1] = constructs[1]
      BY <1>1, <1>2, <1>4 DEF Fits
    <3> QED BY <1>1, <1>3, <1>4, <3>1 DEF Fits, Operations
  <2> QED BY <1>1, <1>2, <1>5, <2>1 DEF Fits
<1>7. Standing(constructs', WithHasAttr', 0)
  <2>1. TopOf(constructs).op \notin Operations
    BY <1>2, <1>3 DEF TopOf, Innermost
  <2> QED BY <1>1, <1>2, <1>3, <1>4, <2>1, StandingAfterSign DEF Fits
<1>8. Placed'
  BY <1>2, <1>4, <1>5, <1>7 DEF Placed, Named
<1> QED BY <1>2, <1>6, <1>8

LEMMA AttributeKeeps ==
    ASSUME FilterInv, unambiguous, NEW name \in FilterNames, NEW next \in {"relation", "rest"},
           on_attribute(name, next), unambiguous'
    PROVE  thrown' = "nothing" /\ (\E S : Fits(S)') /\ Placed'
<1>1. PICK S : Fits(S)
  BY DEF FilterInv
<1> DEFINE f == <<"exists", name>>
           T == S \cup {f}
<1>2. /\ expects = "term" /\ expects' = next /\ thrown' = thrown /\ thrown = "nothing"
      /\ m_Subexpressions' = WithHasAttr /\ meaning' = f /\ m_AttributeName' = name
      /\ ~(next = "rest" /\ Innermost.op \in Operations) /\ Innermost' = Innermost
      /\ UNCHANGED <<constructs, m_Filter>>
  BY DEF on_attribute, Called, Innermost, FilterInv
<1>3. name # NoText
  BY FilterNamesAssumption
<1>4. WithHasAttr' = PushedOn(WithHasAttr, f)
  BY <1>2, <1>3 DEF WithHasAttr
<1>5. f \in T /\ S \subseteq T
  OBVIOUS
<1> HIDE DEF f, T
<1>6. /\ WithHasAttr \in Seq(T) /\ constructs \in Seq(Constructs(T)) /\ NoFilter \in T
      /\ constructs # <<>> => constructs[1].op # "not"
  BY <1>1, <1>5, FiltersGrow DEF Fits
<1>7. WithHasAttr' \in Seq(T) /\ TopOf(WithHasAttr') = f
  BY <1>4, <1>5, <1>6, PushedStack
<1>8. Fits(T)'
  BY <1>2, <1>5, <1>6, <1>7 DEF Fits
<1>9. Standing(constructs, WithHasAttr, 0) /\ m_Filter = NoFilter /\ constructs # <<>>
  BY <1>2 DEF FilterInv, Placed
<1>10. Standing(constructs', WithHasAttr', 1)
  BY <1>2, <1>4, <1>5, <1>6, <1>9, StandingWhenPushed
<1>11. CASE next = "relation"
  BY <1>2, <1>8, <1>9, <1>11 DEF Placed, Named, f
<1>12. CASE next = "rest"
  BY <1>2, <1>7, <1>8, <1>9, <1>10, <1>12 DEF Placed, Named
<1> QED BY <1>11, <1>12

LEMMA OperandKeeps ==
    ASSUME FilterInv, unambiguous, unambiguous',
           \/ \E place \in {"term", "relation"} :
                 on_operand(place, "compare") \/ \E word \in Operations \cup {"relation"} : set_custom_relation(place, word)
           \/ on_operand("custom operand", "custom") \/ on_operand("lone operand", "custom")
    PROVE  thrown' = "nothing" /\ (\E S : Fits(S)') /\ Placed'
<1>1. PICK S : Fits(S)
  BY DEF FilterInv
<1>0. expects # "lone operand"
  BY DEF FilterInv, Placed, Named
<1>2. /\ expects \in Named \ {"compare", "custom"} /\ thrown = "nothing"
      /\ \/ on_operand("relation", "compare")
         \/ \E word \in Operations \cup {"relation"} : set_custom_relation("relation", word)
         \/ on_operand("custom operand", "custom")
  BY <1>0 DEF on_operand, set_custom_relation, NoNameWritten, Called, Named
<1>3. m_AttributeName \in FilterNames /\ m_AttributeName # NoText /\ m_Filter = NoFilter /\ constructs # <<>>
  BY <1>2, FilterNamesAssumption DEF FilterInv, Placed, Named
<1>4. /\ thrown' = "nothing" /\ WithHasAttr' = WithHasAttr
      /\ UNCHANGED <<meaning, constructs, m_AttributeName, m_Subexpressions, m_Filter>>
  BY <1>2, <1>3 DEF on_operand, OperationSwallowed, set_custom_relation, Called, WithHasAttr, grammarVars
<1>5. Fits(S)'
  BY <1>1, <1>4 DEF Fits
<1>6. /\ meaning = <<"exists", m_AttributeName>> /\ Standing(constructs, m_Subexpressions, 0)
      /\ expects = "custom operand" => m_CustomRelation # NoText
  BY <1>2 DEF FilterInv, Placed, Named
<1>7. /\ expects' \in Named
      /\ expects' \in {"compare", "custom"} => m_Operand' # NoText
      /\ expects' \in {"custom operand", "custom"} => m_CustomRelation' # NoText
      /\ expects' = "custom" => m_CustomRelation' \notin Operations
  <2>1. CASE on_operand("relation", "compare")
    BY <1>3, <2>1 DEF on_operand, Called, Named, NoText
  <2>2. CASE \E word \in Operations \cup {"relation"} : set_custom_relation("relation", word)
    BY <2>2 DEF set_custom_relation, Called, Named, NoText, Operations
  <2>3. CASE on_operand("custom operand", "custom")
    <3>1. m_CustomRelation \notin Operations
      BY <2>3 DEF on_operand, OperationSwallowed
    <3> QED BY <1>3, <1>6, <2>3, <3>1 DEF on_operand, Called, Named, NoText
  <2> QED BY <1>2, <2>1, <2>2, <2>3
<1>8. Placed'
  BY <1>3, <1>4, <1>6, <1>7 DEF Placed, Named
<1> QED BY <1>4, <1>5, <1>8

\* The word behind a bare name is the one of an operation after all.
LEMMA NoOperandKeeps ==
    ASSUME FilterInv, unambiguous, unambiguous', no_operand
    PROVE  thrown' = "nothing" /\ (\E S : Fits(S)') /\ Placed'
<1>1. PICK S : Fits(S)
  BY DEF FilterInv
<1>2. /\ expects = "custom operand" /\ expects' = "word" /\ thrown' = thrown /\ thrown = "nothing"
      /\ Innermost.op \notin Operations /\ Innermost' = Innermost /\ WithHasAttr' = WithHasAttr
      /\ UNCHANGED <<constructs, meaning, m_AttributeName, m_Subexpressions, m_Filter>>
  BY DEF no_operand, Called, Innermost, WithHasAttr
<1>f. PICK f, T : f = <<"exists", m_AttributeName>> /\ T = S \cup {f}
  OBVIOUS
<1>3. /\ m_AttributeName # NoText /\ meaning = f /\ Standing(constructs, m_Subexpressions, 0)
      /\ m_Filter = NoFilter /\ constructs # <<>>
  BY <1>2, <1>f, FilterNamesAssumption DEF FilterInv, Placed, Named
<1>4. f \in T /\ S \subseteq T
  BY <1>f
<1>5. m_Subexpressions \in Seq(T) /\ constructs \in Seq(Constructs(T))
  BY <1>1, <1>4, FiltersGrow DEF Fits
<1>6. WithHasAttr = PushedOn(m_Subexpressions, f)
  BY <1>3, <1>f DEF WithHasAttr
<1>7. TopOf(WithHasAttr) = meaning
  BY <1>3, <1>4, <1>5, <1>6, PushedStack
<1>8. Standing(constructs, WithHasAttr, 1)
  BY <1>3, <1>4, <1>5, <1>6, StandingWhenPushed
<1>9. Fits(S)'
  BY <1>1, <1>2 DEF Fits
<1>10. Placed'
  BY <1>2, <1>3, <1>7, <1>8 DEF Placed, Named
<1> QED BY <1>2, <1>9, <1>10

LEMMA RelationKeeps ==
    ASSUME FilterInv, unambiguous, on_comparison_relation \/ on_custom_relation
    PROVE  thrown' = "nothing" /\ (\E S : Fits(S)') /\ Placed'
<1>1. PICK S : Fits(S)
  BY DEF FilterInv
<1>2. PICK kind \in {"compare", "custom"} :
          kind = expects /\ (kind = "compare" => on_comparison_relation) /\ (kind = "custom" => on_custom_relation)
  BY DEF on_comparison_relation, on_custom_relation, Called
<1>f. PICK f, T : f = <<kind, m_AttributeName>> /\ T = S \cup {f}
  OBVIOUS
<1>3. /\ m_AttributeName # NoText /\ m_Operand # NoText /\ (kind = "custom" => m_CustomRelation \notin Operations \cup {NoText})
      /\ meaning = <<"exists", m_AttributeName>> /\ Standing(constructs, m_Subexpressions, 0)
      /\ m_Filter = NoFilter /\ constructs # <<>>
  BY <1>2, FilterNamesAssumption DEF FilterInv, Placed, Named
<1>4. /\ thrown' = "nothing" /\ expects' = "rest" /\ m_AttributeName' = NoText
      /\ m_Subexpressions' = PushedOn(m_Subexpressions, f) /\ meaning' = <<kind, meaning[2]>>
      /\ UNCHANGED <<constructs, m_Filter>>
  BY <1>2, <1>3, <1>f DEF on_comparison_relation, on_custom_relation, Called, grammarVars
<1>5. meaning' = f /\ WithHasAttr' = m_Subexpressions'
  BY <1>3, <1>4, <1>f DEF WithHasAttr
<1>6. f \in T /\ S \subseteq T
  BY <1>f
<1>7. /\ m_Subexpressions \in Seq(T) /\ constructs \in Seq(Constructs(T)) /\ NoFilter \in T
      /\ constructs # <<>> => constructs[1].op # "not"
  BY <1>1, <1>6, FiltersGrow DEF Fits
<1>8. m_Subexpressions' \in Seq(T) /\ TopOf(m_Subexpressions') = f
  BY <1>4, <1>6, <1>7, PushedStack
<1>9. Fits(T)'
  BY <1>4, <1>5, <1>6, <1>7, <1>8 DEF Fits
<1>10. Standing(constructs', WithHasAttr', 1)
  BY <1>3, <1>4, <1>5, <1>6, <1>7, StandingWhenPushed
<1>11. Placed'
  BY <1>3, <1>4, <1>5, <1>8, <1>10 DEF Placed, Named
<1> QED BY <1>4, <1>9, <1>11

LEMMA NegationKeeps ==
    ASSUME FilterInv, unambiguous, NEW place \in {"rest", "word"}, on_negation(place)
    PROVE  thrown' = "nothing" /\ (\E S : Fits(S)') /\ Placed'
<1>1. PICK S : Fits(S)
  BY DEF FilterInv
<1>f. PICK f, T : f = <<"not", meaning>> /\ T = S \cup {f}
  OBVIOUS
<1>2. /\ expects = place /\ expects' = place /\ Innermost.op = "not"
      /\ constructs' = PoppedOne(constructs) /\ m_Filter' = m_Filter /\ thrown = "nothing"
  BY DEF on_negation, Called
<1>3. /\ Standing(constructs, WithHasAttr, 1) /\ TopOf(WithHasAttr) = meaning
      /\ m_Filter = NoFilter /\ constructs # <<>>
  BY <1>2 DEF FilterInv, Placed
<1>4. f \in T /\ S \subseteq T
  BY <1>f
<1>5. WithHasAttr \in Seq(T) /\ constructs \in Seq(Constructs(T)) /\ NoFilter \in T
  BY <1>1, <1>4, FiltersGrow DEF Fits
<1>6. WithHasAttr # <<>> /\ Standing(constructs, PushedOn(PoppedOne(WithHasAttr), f), 1)
  BY <1>3, <1>4, <1>5, StandingWhenReplaced
<1>7. /\ thrown' = "nothing" /\ m_Subexpressions' = PushedOn(PoppedOne(WithHasAttr), f)
      /\ m_AttributeName' = NoText /\ meaning' = f
  BY <1>2, <1>3, <1>6, <1>f DEF on_negation
<1>8. WithHasAttr' = m_Subexpressions'
  BY <1>7 DEF WithHasAttr
<1>9. m_Subexpressions' \in Seq(T) /\ TopOf(m_Subexpressions') = f
  <2>1. PoppedOne(WithHasAttr) \in Seq(T)
    BY <1>5, <1>6, PoppedStack
  <2> QED BY <1>4, <1>7, <2>1, PushedStack
<1>10. constructs' \in Seq(Constructs(T)) /\ constructs' # <<>> /\ constructs'[1].op # "not"
  <2>1. constructs[1].op # "not" /\ constructs[Len(constructs)].op = "not"
    BY <1>1, <1>2, <1>3 DEF Fits, Innermost
  <2>2. Len(constructs) - 1 \in Nat \ {0}
    BY <1>3, <1>5, <2>1
  <2>3. 1 \in 1..Len(constructs) - 1
    BY <2>2
  <2>4. /\ constructs' \in Seq(Constructs(T)) /\ Len(constructs') = Len(constructs) - 1
        /\ \A i \in 1..Len(constructs) - 1 : constructs'[i] = constructs[i]
    BY <1>2, <1>3, <1>5, PoppedStack
  <2> QED BY <2>1, <2>2, <2>3, <2>4
<1>11. Fits(T)'
  BY <1>4, <1>5, <1>7, <1>8, <1>9, <1>10 DEF Fits
<1>12. Standing(constructs', WithHasAttr', 1)
  <2>1. TopOf(constructs).op \notin Operations
    BY <1>2 DEF TopOf, Innermost, Operations
  <2>2. m_Subexpressions' \in Seq(T) /\ Standing(constructs, m_Subexpressions', 1)
    BY <1>6, <1>7, <1>9
  <2>3. Standing(PoppedOne(constructs), m_Subexpressions', 1)
    BY <1>3, <1>5, <2>1, <2>2, StandingWhenLeft
  <2> QED BY <1>2, <1>8, <2>3
<1>13. Placed'
  BY <1>2, <1>3, <1>7, <1>8, <1>9, <1>10, <1>12 DEF Placed, Named
<1> QED BY <1>7, <1>11, <1>13

LEMMA OperationKeeps ==
    ASSUME FilterInv, unambiguous, NEW place \in {"rest", "word"}, NEW op \in Operations, on_operation(place, op)
    PROVE  thrown' = "nothing" /\ (\E S : Fits(S)') /\ Placed'
<1>1. PICK S : Fits(S)
  BY DEF FilterInv
<1>f. PICK f, T : f = <<op, Innermost.left, meaning>> /\ T = S \cup {f}
  OBVIOUS
<1> DEFINE new == Construct("expression", NoFilter)
<1>2. /\ expects = place /\ expects' = place /\ Innermost.op = op
      /\ constructs' = [constructs EXCEPT ![Len(constructs)] = new] /\ m_Filter' = m_Filter /\ thrown = "nothing"
  BY DEF on_operation, Called
<1>3. /\ Standing(constructs, WithHasAttr, 1) /\ TopOf(WithHasAttr) = meaning
      /\ m_AttributeName = NoText /\ m_Filter = NoFilter /\ constructs # <<>>
  BY <1>2 DEF FilterInv, Placed
<1>4. f \in T /\ S \subseteq T /\ WithHasAttr = m_Subexpressions
  BY <1>3, <1>f DEF WithHasAttr
<1>5. /\ m_Subexpressions \in Seq(T) /\ constructs \in Seq(Constructs(T)) /\ NoFilter \in T
      /\ constructs[1].op # "not"
  BY <1>1, <1>3, <1>4, FiltersGrow DEF Fits
<1>6. new \in Constructs(T) /\ new.op = "expression" /\ "expression" \notin Operations
  BY <1>5 DEF Constructs, Construct, Operations
<1> HIDE DEF new
<1> DEFINE one == PoppedOne(m_Subexpressions)
           two == PoppedOne(one)
<1>7. /\ Len(m_Subexpressions) >= 2 /\ one # <<>> /\ m_Subexpressions # <<>>
      /\ TopOf(one) = Innermost.left
      /\ Standing([constructs EXCEPT ![Len(constructs)] = new], PushedOn(two, f), 1)
  <2>1. TopOf(constructs) = Innermost /\ TopOf(constructs).op \in Operations
    BY <1>2 DEF TopOf, Innermost
  <2> QED BY <1>3, <1>4, <1>5, <1>6, <2>1, StandingAfterOperation
<1>8. one \in Seq(T) /\ two \in Seq(T)
  <2>1. one \in Seq(T)
    BY <1>5, <1>7, PoppedStack
  <2> HIDE DEF one
  <2> QED BY <1>7, <2>1, PoppedStack
<1>9. /\ thrown' = "nothing" /\ m_Subexpressions' = PushedOn(two, f)
      /\ m_AttributeName' = NoText /\ meaning' = f
  <2>1. ~(Len(m_Subexpressions) < 2)
    BY <1>5, <1>7
  <2>2. TopOf(m_Subexpressions) = meaning
    BY <1>3, <1>4
  <2> QED BY <1>2, <1>3, <1>7, <1>f, <2>1, <2>2 DEF on_operation
<1> HIDE DEF one, two
<1>10. WithHasAttr' = m_Subexpressions'
  BY <1>9 DEF WithHasAttr
<1>11. m_Subexpressions' \in Seq(T) /\ TopOf(m_Subexpressions') = f
  BY <1>4, <1>8, <1>9, PushedStack
<1>12. constructs' \in Seq(Constructs(T)) /\ constructs' # <<>> /\ constructs'[1].op # "not"
  <2>1. constructs' \in Seq(Constructs(T)) /\ constructs' # <<>>
    BY <1>2, <1>3, <1>5, <1>6
  <2>2. constructs'[1] = new \/ constructs'[1] = constructs[1]
    BY <1>2, <1>3, <1>5
  <2> QED BY <1>5, <1>6, <2>1, <2>2
<1>13. Fits(T)'
  BY <1>4, <1>5, <1>9, <1>10, <1>11, <1>12 DEF Fits
<1>14. Standing(constructs', WithHasAttr', 1)
  BY <1>2, <1>7, <1>9, <1>10
<1>15. Placed'
  BY <1>2, <1>3, <1>9, <1>10, <1>11, <1>12, <1>14 DEF Placed, Named
<1> QED BY <1>9, <1>13, <1>15

LEMMA FinishedKeeps ==
    ASSUME FilterInv, unambiguous, on_expression_finished
    PROVE  thrown' = "nothing" /\ (\E S : Fits(S)') /\ Placed'
<1>1. PICK S : Fits(S)
  BY DEF FilterInv
<1>2. /\ expects = "rest" /\ expects' = (IF Len(constructs) = 1 THEN "nothing" ELSE "rest")
      /\ Innermost.op = "expression" /\ constructs' = PoppedOne(constructs)
      /\ m_Subexpressions' = WithHasAttr /\ m_AttributeName' = NoText
      /\ thrown' = "nothing" /\ UNCHANGED <<meaning, m_Filter>>
  BY DEF on_expression_finished, Called
<1>3. /\ Standing(constructs, WithHasAttr, 1) /\ TopOf(WithHasAttr) = meaning
      /\ m_Filter = NoFilter /\ constructs # <<>>
  BY <1>2 DEF FilterInv, Placed
<1>4. /\ WithHasAttr \in Seq(S) /\ constructs \in Seq(Constructs(S)) /\ NoFilter \in S /\ meaning \in S
      /\ constructs[1].op # "not"
  BY <1>1, <1>3 DEF Fits
<1>5. WithHasAttr' = WithHasAttr
  BY <1>2 DEF WithHasAttr
<1>6. /\ constructs' \in Seq(Constructs(S)) /\ Len(constructs') = Len(constructs) - 1 /\ Len(constructs) \in Nat \ {0}
      /\ \A i \in 1..Len(constructs) - 1 : constructs'[i] = constructs[i]
  BY <1>2, <1>3, <1>4, PoppedStack
<1>7. constructs' # <<>> => constructs'[1] = constructs[1]
  <2>1. ASSUME constructs' # <<>> PROVE 1 \in 1..Len(constructs) - 1
    BY <1>6, <2>1
  <2> QED BY <1>6, <2>1
<1>8. Fits(S)'
  BY <1>2, <1>4, <1>5, <1>6, <1>7 DEF Fits
<1>9. Standing(constructs', WithHasAttr', 1)
  <2>1. TopOf(constructs).op \notin Operations
    BY <1>2 DEF TopOf, Innermost, Operations
  <2> QED BY <1>2, <1>3, <1>4, <1>5, <2>1, StandingWhenLeft
<1>10. CASE Len(constructs) = 1
  <2>1. constructs' = <<>>
    BY <1>6, <1>10
  <2>2. Len(m_Subexpressions') = 1
    BY <1>2, <1>5, <1>9, <2>1, StandingInTheEnd
  <2>3. m_Subexpressions'[1] = meaning
    BY <1>2, <1>3, <2>2 DEF TopOf
  <2>4. Placed'
    BY <1>2, <1>3, <1>10, <2>2, <2>3 DEF Placed, Named
  <2> QED BY <1>2, <1>8, <2>4
<1>11. CASE Len(constructs) # 1
  <2>1. constructs' # <<>>
    BY <1>6, <1>11
  <2>2. Placed'
    BY <1>2, <1>3, <1>5, <1>9, <1>11, <2>1 DEF Placed, Named
  <2> QED BY <1>2, <1>8, <2>2
<1> QED BY <1>10, <1>11

LEMMA FlushKeeps ==
    ASSUME FilterInv, unambiguous, flush
    PROVE  thrown' = "nothing" /\ (\E S : Fits(S)') /\ Placed'
<1>1. PICK S : Fits(S)
  BY DEF FilterInv
<1>2. /\ expects = "nothing" /\ expects' = expects /\ thrown' = "nothing" /\ m_Subexpressions # <<>>
      /\ m_Filter = NoFilter /\ m_Filter' = TopOf(m_Subexpressions)
      /\ m_Subexpressions' = PushedOn(PoppedOne(m_Subexpressions), NoFilter)
      /\ UNCHANGED <<constructs, meaning, m_AttributeName>>
  BY DEF flush, grammarVars
<1>3. m_AttributeName = NoText /\ Len(m_Subexpressions) = 1 /\ m_Subexpressions[1] = meaning
  BY <1>2 DEF FilterInv, Placed
<1>4. m_Subexpressions \in Seq(S) /\ NoFilter \in S
  BY <1>1 DEF Fits
<1>5. PoppedOne(m_Subexpressions) \in Seq(S) /\ Len(PoppedOne(m_Subexpressions)) = 0
  BY <1>2, <1>3, <1>4, PoppedStack
<1>6. /\ m_Subexpressions' \in Seq(S) /\ Len(m_Subexpressions') = 1
      /\ TopOf(m_Subexpressions') = NoFilter
  <2> DEFINE rest == PoppedOne(m_Subexpressions)
  <2> HIDE DEF rest
  <2>1. rest \in Seq(S) /\ Len(rest) = 0 /\ m_Subexpressions' = PushedOn(rest, NoFilter)
    BY <1>2, <1>5 DEF rest
  <2>2. PushedOn(rest, NoFilter) \in Seq(S) /\ Len(PushedOn(rest, NoFilter)) = Len(rest) + 1
    BY <1>4, <2>1, PushedStack
  <2>3. TopOf(PushedOn(rest, NoFilter)) = NoFilter
    BY <1>4, <2>1, PushedStack
  <2> QED BY <2>1, <2>2, <2>3
<1>7. m_Filter' = meaning /\ m_Subexpressions'[1] = NoFilter
  BY <1>2, <1>3, <1>6 DEF TopOf
<1>8. WithHasAttr' = m_Subexpressions'
  BY <1>2, <1>3 DEF WithHasAttr
<1>9. Fits(S)'
  BY <1>1, <1>2, <1>6, <1>8 DEF Fits
<1>10. Placed'
  BY <1>2, <1>3, <1>6, <1>7 DEF Placed, Named
<1> QED BY <1>2, <1>9, <1>10

LEMMA FilterInvStep == FilterInv /\ [FiltersNext]_filterVars => FilterInv'
<1> SUFFICES ASSUME FilterInv, [FiltersNext]_filterVars PROVE FilterInv'
  OBVIOUS
<1>1. unambiguous' \in BOOLEAN /\ (unambiguous' => unambiguous)
  <2>1. unambiguous \in BOOLEAN
    BY DEF FilterInv
  <2>2. CASE \/ \E op \in {"expression", "not"} : enter(op)
             \/ \E op \in Operations : operation_sign(op)
             \/ \E place \in {"rest", "word"} : on_negation(place) \/ \E op \in Operations : on_operation(place, op)
             \/ on_comparison_relation \/ on_custom_relation
             \/ on_expression_finished \/ flush \/ UNCHANGED filterVars
    <3>1. unambiguous' = unambiguous
      BY <2>2 DEF filterVars, grammarVars, enter, operation_sign, on_operation, on_comparison_relation,
                  on_custom_relation, on_negation, on_expression_finished, flush
    <3> QED BY <2>1, <3>1
  <2>3. CASE \E name \in FilterNames, next \in {"relation", "rest"} : on_attribute(name, next)
    <3>1. PICK bare \in BOOLEAN : unambiguous' = (unambiguous /\ ~bare)
      BY <2>3 DEF on_attribute
    <3>2. (unambiguous /\ ~bare) \in BOOLEAN /\ ((unambiguous /\ ~bare) => unambiguous)
      OBVIOUS
    <3> QED BY <3>1, <3>2
  <2>4. CASE \/ \E place \in {"term", "relation"} :
                   on_operand(place, "compare") \/ \E word \in Operations \cup {"relation"} : set_custom_relation(place, word)
             \/ on_operand("custom operand", "custom") \/ on_operand("lone operand", "custom")
    <3>1. NoNameWritten \/ UNCHANGED grammarVars \/ OperationSwallowed
      BY <2>4 DEF on_operand, set_custom_relation
    <3>2. CASE NoNameWritten
      BY <3>2 DEF NoNameWritten
    <3>3. CASE UNCHANGED grammarVars
      <4>1. unambiguous' = unambiguous
        BY <3>3 DEF grammarVars
      <4> QED BY <2>1, <4>1
    <3>4. CASE OperationSwallowed
      <4>1. PICK other \in BOOLEAN : unambiguous' = (unambiguous /\ other)
        BY <3>4 DEF OperationSwallowed
      <4>2. (unambiguous /\ other) \in BOOLEAN /\ ((unambiguous /\ other) => unambiguous)
        OBVIOUS
      <4> QED BY <4>1, <4>2
    <3> QED BY <3>1, <3>2, <3>3, <3>4
  <2>5. CASE no_operand
    <3>1. PICK alone \in BOOLEAN : unambiguous' = (unambiguous /\ alone)
      BY <2>5 DEF no_operand
    <3>2. (unambiguous /\ alone) \in BOOLEAN /\ ((unambiguous /\ alone) => unambiguous)
      OBVIOUS
    <3> QED BY <3>1, <3>2
  <2> QED BY <2>2, <2>3, <2>4, <2>5 DEF FiltersNext
<1> SUFFICES ASSUME unambiguous, unambiguous' PROVE thrown' = "nothing" /\ (\E S : Fits(S)') /\ Placed'
  BY <1>1 DEF FilterInv
<1>2. CASE \E op \in {"expression", "not"} : enter(op)
  BY <1>2, EnterKeeps
<1>3. CASE \E op \in Operations : operation_sign(op)
  BY <1>3, SignKeeps
<1>4. CASE \E place \in {"rest", "word"}, op \in Operations : on_operation(place, op)
  BY <1>4, OperationKeeps
<1>5. CASE \E name \in FilterNames, next \in {"relation", "rest"} : on_attribute(name, next)
  BY <1>5, AttributeKeeps
<1>6. CASE \/ \E place \in {"term", "relation"} :
                 on_operand(place, "compare") \/ \E word \in Operations \cup {"relation"} : set_custom_relation(place, word)
           \/ on_operand("custom operand", "custom") \/ on_operand("lone operand", "custom")
  BY <1>6, OperandKeeps
<1>12. CASE no_operand
  BY <1>12, NoOperandKeeps
<1>7. CASE on_comparison_relation \/ on_custom_relation
  BY <1>7, RelationKeeps
<1>8. CASE \E place \in {"rest", "word"} : on_negation(place)
  BY <1>8, NegationKeeps
<1>9. CASE on_expression_finished
  BY <1>9, FinishedKeeps
<1>10. CASE flush
  BY <1>10, FlushKeeps
<1>11. CASE UNCHANGED filterVars
  <2>1. PICK S : Fits(S)
    BY DEF FilterInv
  <2>2. UNCHANGED <<expects, constructs, meaning, m_AttributeName, m_Operand, m_CustomRelation, m_Subexpressions,
                    m_Filter, thrown>> /\ WithHasAttr' = WithHasAttr /\ Innermost' = Innermost
    BY <1>11 DEF filterVars, grammarVars, WithHasAttr, Innermost
  <2>3. Fits(S)'
    BY <2>1, <2>2 DEF Fits
  <2>4. Placed'
    BY <2>2 DEF FilterInv, Placed
  <2> QED BY <2>2, <2>3, <2>4 DEF FilterInv
<1> QED BY <1>2, <1>3, <1>4, <1>5, <1>6, <1>7, <1>8, <1>9, <1>10, <1>11, <1>12 DEF FiltersNext

\* The filter of a text is the one it means, for any names, any number of
\* relations and any nesting, if every operand follows a name, no bare name stands
\* to the right of an operation, and what follows a bare name is a sign, or a word
\* in front of a parenthesis.
THEOREM FiltersAreAsWritten == FiltersSpec => []FilterIsWhatWasWritten
<1>1. FilterInv => FilterIsWhatWasWritten
  BY DEF FilterInv, Placed, FilterIsWhatWasWritten
<1> QED BY <1>1, FilterInvInit, FilterInvStep, PTL DEF FiltersSpec
===============================================================================
