---------------------------- MODULE Queues_proofs ----------------------------
(***************************************************************************)
(* Theorems about the queues of MCQueues.  Most of them are about          *)
(* threadsafe_queue, for any number of pushing threads and of elements,    *)
(* and for both implementations: what is in the list and what is allocated *)
(* agree at every step, and the list is an atomic queue.  The last ones    *)
(* carry the theorems of the two FIFO queues over to the composition.      *)
(*                                                                         *)
(* The argument for threadsafe_queue.  Every node that was ever linked is  *)
(* in one chain: the first dummy, the nodes popped so far, and the nodes   *)
(* linked now.  The chain only grows, at its end, so a pointer that a      *)
(* thread read earlier is known by its position in it: with "dcas" the     *)
(* counter of m_Tail is that position, which is why an equal pointer and   *)
(* counter mean that nothing happened in between.                          *)
(***************************************************************************)
EXTENDS MCQueues, SequenceLemmas

Pointers == [node : Nodes \cup {NullNode}, counter : Nat]

\* A push under way whose node is not linked yet.
Unlinked(p) == place[p] \notin {"idle", "swing"}

PlaceNames == {"idle", "load_tail", "load_next", "link", "help", "swing", "lock_tail", "load_head",
               "load_head_next", "compare", "take", "help_pop", "reset", "gone", "lock_head", "pop"}

Types ==
    /\ implementation \in {"generic", "dcas"}
    /\ head \in Pointers /\ tail \in Pointers
    /\ next \in [Nodes -> Pointers]
    /\ place \in [QueueThreads -> PlaceNames]
    /\ my \in [QueueThreads -> [head : Pointers, tail : Pointers, next : Pointers]]
    /\ pushes \in [Pushers -> 0..MaxPushes]
    /\ popped \in Seq(Elements)
    /\ ending \in BOOLEAN

PusherPlaces ==
    IF implementation = "dcas" THEN {"idle", "load_tail", "load_next", "link", "help", "swing"}
    ELSE {"idle", "lock_tail", "link", "swing"}
PopperPlaces ==
    IF implementation = "dcas"
    THEN {"idle", "load_head", "load_head_next", "compare", "take", "help_pop", "reset", "gone"}
    ELSE {"idle", "lock_head", "pop", "reset", "gone"}

\* Where the threads stand, and who holds which mutex.  The destructor runs
\* alone.
Places ==
    /\ \A p \in Pushers : place[p] \in PusherPlaces
    /\ \A p \in Pushers : place[p] # "idle" => pushes[p] > 0
    /\ place[Popper] \in PopperPlaces
    /\ ending => \A p \in Pushers : place[p] = "idle"
    /\ place[Popper] \in {"reset", "gone"} => ending
    /\ headLock = IF place[Popper] = "pop" THEN Popper ELSE NullNode
    /\ tailLock \in Pushers \cup {NullNode}
    /\ \A p \in Pushers : implementation = "generic" =>
            (place[p] \in {"link", "swing"} <=> tailLock = p)
    /\ implementation = "dcas" => tailLock = NullNode

\* The nodes ever linked, in order, without repetition.  A node that is not
\* linked yet, or never was allocated, is not among them.
IsChain(chain) ==
    /\ chain \in Seq(Nodes) /\ Len(chain) > 0 /\ chain[1] = Dummy
    /\ \A i, j \in 1..Len(chain) : chain[i] = chain[j] => i = j
    /\ \A i \in 1..Len(chain) : \A p \in Pushers : \A k \in 1..MaxPushes :
            chain[i] = <<p, k>> => k < pushes[p] \/ (k = pushes[p] /\ ~Unlinked(p))
    /\ \A i \in 1..(Len(chain) - 1) : next[chain[i]].node = chain[i + 1]
    /\ \A n \in Nodes : (\A i \in 1..(Len(chain) - 1) : chain[i] # n) => next[n] = NoPointer

\* The position of m_Head.
HeadAt == Len(popped) + 1

\* Behind the first dummy come the elements popped, up to the node m_Head
\* points to; what is allocated is the rest, and the nodes not linked yet.
Ends(chain) ==
    /\ HeadAt <= Len(chain)
    /\ \A i \in 1..Len(popped) : popped[i] = chain[i + 1]
    /\ allocated = (IF place[Popper] = "gone" THEN {} ELSE {chain[i] : i \in HeadAt..Len(chain)})
                     \cup {MyNode(p) : p \in {q \in Pushers : Unlinked(q)}}
    /\ head.node = IF place[Popper] = "gone" THEN NullNode ELSE chain[HeadAt]
    /\ place[Popper] = "reset" => HeadAt = Len(chain)

\* With two locks, m_Tail is the last node except while a pusher is about to
\* move it there.
GenericTail(chain) ==
    implementation = "generic" /\ place[Popper] # "gone" =>
        /\ (\A p \in Pushers : place[p] # "swing") => tail.node = chain[Len(chain)]
        /\ \A p \in Pushers : place[p] = "swing" => chain[Len(chain)] = MyNode(p)

\* The position of a pointer that was read from m_Tail.
Position(pointer) == pointer.counter + 1
ReadFromTail(chain, pointer) ==
    /\ Position(pointer) <= Position(tail)
    /\ pointer.node = chain[Position(pointer)]

\* With compare-and-swap, m_Tail lags by at most one node and never behind
\* m_Head, and the counters are positions.
DcasTail(chain) ==
    implementation = "dcas" /\ place[Popper] # "gone" =>
        /\ Position(tail) \in {Len(chain) - 1, Len(chain)}
        /\ HeadAt <= Position(tail)
        /\ tail.node = chain[Position(tail)]

\* What the threads of "dcas" have read.
DcasPusher(chain, p) ==
    /\ place[p] \in {"load_next", "link", "help", "swing"} => ReadFromTail(chain, my[p].tail)
    /\ place[p] = "link" => my[p].next = NoPointer
    /\ place[p] \in {"help", "swing"} =>
        /\ Position(my[p].tail) < Len(chain)
        /\ (IF place[p] = "help" THEN my[p].next.node ELSE MyNode(p)) = chain[Position(my[p].tail) + 1]
DcasPopper(chain) ==
    /\ place[Popper] \in {"load_head_next", "compare", "take", "help_pop"} =>
        my[Popper].head.node = chain[HeadAt]
    /\ place[Popper] \in {"compare", "take", "help_pop"} /\ my[Popper].next.node # NullNode =>
        HeadAt < Len(chain) /\ my[Popper].next.node = chain[HeadAt + 1]
    /\ place[Popper] = "compare" /\ ending => my[Popper].next = next[my[Popper].head.node]
    /\ place[Popper] = "take" => HeadAt < Position(tail)
    /\ place[Popper] = "help_pop" =>
        /\ my[Popper].next.node # NullNode
        /\ my[Popper].tail.node = chain[HeadAt] /\ Position(my[Popper].tail) = HeadAt

QueueIs(chain) ==
    /\ IsChain(chain)
    /\ Ends(chain)
    /\ GenericTail(chain)
    /\ DcasTail(chain)
    /\ implementation = "dcas" => DcasPopper(chain) /\ \A p \in Pushers : DcasPusher(chain, p)

InvWith(chain) == Types /\ Places /\ QueueIs(chain)
Inv == \E chain \in Seq(Nodes) : InvWith(chain)

-------------------------------------------------------------------------------
\* A node of a pusher is none of the others.
LEMMA NodesAreTold ==
    /\ NoPointer \in Pointers
    /\ MaxPushes \in Nat
    /\ Popper \notin Pushers
    /\ NullNode \notin Nodes
    /\ Dummy \in Nodes /\ Dummy \notin Elements
    /\ Elements \subseteq Nodes
    /\ \A p \in Pushers, k \in 1..MaxPushes : <<p, k>> \in Elements
    /\ \A n \in Nodes \cup {NullNode}, c \in Nat :
            /\ Pointer(n, c) \in Pointers
            /\ Pointer(n, c).node = n /\ Pointer(n, c).counter = c
    /\ \A e \in Elements : \E p \in Pushers, k \in 1..MaxPushes : e = <<p, k>>
    /\ \A p \in Pushers, q \in Pushers, k \in 1..MaxPushes, l \in 1..MaxPushes :
            <<p, k>> = <<q, l>> => p = q /\ k = l
  BY QueueAssumptions DEF Nodes, Elements, NoPointer, Pointer, Pointers

\* The node of a push under way is an element.
LEMMA MyNodeIsElement ==
    ASSUME Types, Places, NEW p \in Pushers, place[p] # "idle"
    PROVE  MyNode(p) \in Elements /\ pushes[p] \in 1..MaxPushes
  BY QueueAssumptions DEF Types, Places, MyNode, Elements

\* The first chain is the dummy alone.
LEMMA DummyAlone == TQInit => InvWith(<<Dummy>>)
<1> SUFFICES ASSUME NEW impl \in Implementations, TQStart(impl) PROVE InvWith(<<Dummy>>)
  BY DEF TQInit
<1> USE DEF TQStart
<1>1. Types
  <2>1. head \in Pointers /\ tail \in Pointers
    BY NodesAreTold
  <2>2. next \in [Nodes -> Pointers]
    BY NodesAreTold
  <2>3. my \in [QueueThreads -> [head : Pointers, tail : Pointers, next : Pointers]]
    BY NodesAreTold
  <2>4. pushes \in [Pushers -> 0..MaxPushes]
    BY NodesAreTold
  <2>5. popped \in Seq(Elements)
    BY EmptySeq
  <2>6. ending \in BOOLEAN
    OBVIOUS
  <2>7. implementation \in {"generic", "dcas"}
    BY QueueAssumptions
  <2>8. place \in [QueueThreads -> PlaceNames]
    BY DEF PlaceNames
  <2> QED BY <2>1, <2>2, <2>3, <2>4, <2>7, <2>8, <2>5, <2>6 DEF Types
<1>2. Places
  BY QueueAssumptions DEF Places, QueueThreads, PusherPlaces, PopperPlaces
<1>3. IsChain(<<Dummy>>)
  <2>1. <<Dummy>> \in Seq(Nodes) /\ Len(<<Dummy>>) = 1 /\ <<Dummy>>[1] = Dummy
    BY NodesAreTold
  <2>2. \A i \in 1..Len(<<Dummy>>) : \A p \in Pushers : \A k \in 1..MaxPushes : <<Dummy>>[i] # <<p, k>>
    BY <2>1, NodesAreTold DEF Elements
  <2>3. \A i, j \in 1..Len(<<Dummy>>) : i = j
    BY <2>1
  <2>4. next \in [Nodes -> {NoPointer}] /\ 1..(Len(<<Dummy>>) - 1) = {}
    BY <2>1
  <2> QED BY <2>1, <2>2, <2>3, <2>4 DEF IsChain
<1>4. Ends(<<Dummy>>)
  BY DEF Ends, HeadAt, Unlinked, QueueThreads, Pointer
<1>5. GenericTail(<<Dummy>>) /\ DcasTail(<<Dummy>>)
  BY DEF GenericTail, DcasTail, QueueThreads, Position, HeadAt, Pointer
<1>6. DcasPopper(<<Dummy>>) /\ \A p \in Pushers : DcasPusher(<<Dummy>>, p)
  BY DEF DcasPopper, DcasPusher, QueueThreads
<1> QED BY <1>1, <1>2, <1>3, <1>4, <1>5, <1>6 DEF InvWith, QueueIs

LEMMA InitHolds == TQInit => Inv
<1>1. <<Dummy>> \in Seq(Nodes)
  BY NodesAreTold
<1> QED BY <1>1, DummyAlone DEF Inv

-------------------------------------------------------------------------------
\* What the chain says of its nodes: only the last has a null next pointer.
LEMMA NodesOfChain ==
    ASSUME Types, Places, NEW chain \in Seq(Nodes), IsChain(chain)
    PROVE  /\ Len(chain) \in Nat \ {0}
           /\ \A i \in 1..Len(chain) : chain[i] \in Nodes
           /\ \A i \in 2..Len(chain) : chain[i] \in Elements
           /\ next[chain[Len(chain)]] = NoPointer
           /\ \A i \in 1..(Len(chain) - 1) : next[chain[i]].node = chain[i + 1]
           /\ \A i \in 1..Len(chain) : next[chain[i]].node = NullNode <=> i = Len(chain)
           /\ \A p \in Pushers : Unlinked(p) => \A i \in 1..Len(chain) : chain[i] # MyNode(p)
<1>1. /\ Len(chain) \in Nat \ {0}
      /\ \A i \in 1..Len(chain) : chain[i] \in Nodes
  BY DEF IsChain
<1>2. ASSUME NEW i \in 2..Len(chain) PROVE chain[i] \in Elements
  <2>1. i \in 1..Len(chain) /\ 1 \in 1..Len(chain) /\ i # 1
    BY <1>1
  <2>2. chain[i] # Dummy
    BY <2>1 DEF IsChain
  <2> QED BY <1>1, <2>1, <2>2 DEF Nodes
<1>3. next[chain[Len(chain)]] = NoPointer
  <2>1. \A i \in 1..(Len(chain) - 1) : i \in 1..Len(chain) /\ i # Len(chain)
    BY <1>1
  <2>2. \A i \in 1..(Len(chain) - 1) : chain[i] # chain[Len(chain)]
    BY <1>1, <2>1 DEF IsChain
  <2> QED BY <1>1, <2>2 DEF IsChain
<1>4. \A i \in 1..(Len(chain) - 1) : next[chain[i]].node = chain[i + 1] /\ i + 1 \in 1..Len(chain)
  BY <1>1 DEF IsChain
<1>5. ASSUME NEW i \in 1..Len(chain)
      PROVE  next[chain[i]].node = NullNode <=> i = Len(chain)
  <2>1. CASE i = Len(chain)
    BY <1>3, <2>1 DEF NoPointer, Pointer
  <2>2. CASE i # Len(chain)
    <3>1. i \in 1..(Len(chain) - 1)
      BY <1>1, <2>2
    <3> QED BY <1>1, <1>4, <2>2, <3>1, NodesAreTold
  <2> QED BY <2>1, <2>2
<1>6. ASSUME NEW p \in Pushers, Unlinked(p), NEW i \in 1..Len(chain)
      PROVE  chain[i] # MyNode(p)
  <2>1. pushes[p] \in 1..MaxPushes
    BY <1>6, MyNodeIsElement DEF Unlinked
  <2>2. chain[i] = <<p, pushes[p]>> => pushes[p] < pushes[p]
    BY <1>6, <2>1 DEF IsChain
  <2> QED BY <2>1, <2>2 DEF MyNode
<1> QED BY <1>1, <1>2, <1>3, <1>4, <1>5, <1>6

\* What they say of m_Head: it is followed unless it is the last node.
LEMMA HeadInChain ==
    ASSUME NEW chain \in Seq(Nodes), InvWith(chain), place[Popper] # "gone"
    PROVE  /\ HeadAt \in 1..Len(chain) /\ HeadAt \in Nat /\ Len(popped) \in Nat
           /\ head.node = chain[HeadAt] /\ head.node \in Nodes
           /\ next[head.node].node = NullNode <=> HeadAt = Len(chain)
           /\ HeadAt < Len(chain) =>
                /\ next[head.node].node = chain[HeadAt + 1]
                /\ chain[HeadAt + 1] \in Elements
<1>1. /\ Types /\ Places /\ IsChain(chain) /\ Ends(chain)
  BY DEF InvWith, QueueIs
<1>2. /\ Len(popped) \in Nat /\ HeadAt \in Nat \ {0} /\ HeadAt <= Len(chain) /\ Len(chain) \in Nat
      /\ head.node = chain[HeadAt]
  BY <1>1 DEF Types, Ends, HeadAt
<1> QED BY <1>1, <1>2, NodesOfChain

-------------------------------------------------------------------------------
\* The parts of the invariant that a step leaves alone, because it changes
\* nothing they speak of.
LEMMA ChainKept ==
    ASSUME NEW chain \in Seq(Nodes), IsChain(chain),
           UNCHANGED <<next, pushes>>, \A p \in Pushers : Unlinked(p)' => Unlinked(p)
    PROVE  IsChain(chain)'
  BY DEF IsChain

LEMMA EndsKept ==
    ASSUME NEW chain \in Seq(Nodes), Ends(chain),
           UNCHANGED <<head, popped, allocated, pushes>>,
           \A p \in Pushers : Unlinked(p)' <=> Unlinked(p),
           place'[Popper] = "gone" <=> place[Popper] = "gone",
           place'[Popper] = "reset" => place[Popper] = "reset" \/ HeadAt = Len(chain)
    PROVE  Ends(chain)'
<1>1. {MyNode(p) : p \in {q \in Pushers : Unlinked(q)}}' = {MyNode(p) : p \in {q \in Pushers : Unlinked(q)}}
  BY DEF MyNode
<1> QED BY <1>1 DEF Ends, HeadAt

\* A pusher that does not move keeps what it knows while m_Tail moves on and
\* the chain grows.
LEMMA PusherKept ==
    ASSUME Types, Types', NEW chain \in Seq(Nodes), NEW longer \in Seq(Nodes), NEW p \in Pushers,
           DcasPusher(chain, p), place'[p] = place[p], my'[p] = my[p],
           place[p] # "idle" => pushes'[p] = pushes[p],
           Position(tail) <= Position(tail)', Position(tail) <= Len(chain),
           Len(chain) <= Len(longer), \A i \in 1..Len(chain) : longer[i] = chain[i]
    PROVE  DcasPusher(longer, p)'
<1>1. /\ my[p].tail.counter \in Nat /\ tail.counter \in Nat /\ tail'.counter \in Nat
      /\ Len(chain) \in Nat /\ Len(longer) \in Nat
  BY DEF Types, Pointers, QueueThreads
<1>2. ASSUME place[p] \in {"load_next", "link", "help", "swing"}
      PROVE  ReadFromTail(longer, my[p].tail)'
  BY SMTT(40), <1>1, <1>2 DEF DcasPusher, ReadFromTail, Position
<1>3. ASSUME place[p] \in {"help", "swing"}
      PROVE  /\ Position(my[p].tail) < Len(longer)
             /\ Position(my[p].tail) + 1 \in 1..Len(chain)
  BY SMTT(40), <1>1, <1>3 DEF DcasPusher, Position
<1> QED BY <1>2, <1>3 DEF DcasPusher, Position, MyNode

LEMMA PopperKept ==
    ASSUME Types, Types', NEW chain \in Seq(Nodes), NEW longer \in Seq(Nodes), DcasPopper(chain),
           place'[Popper] = place[Popper], UNCHANGED <<popped, ending>>, my'[Popper] = my[Popper],
           HeadAt <= Len(chain), ending => UNCHANGED next,
           Position(tail) <= Position(tail)',
           Len(chain) <= Len(longer), \A i \in 1..Len(chain) : longer[i] = chain[i]
    PROVE  DcasPopper(longer)'
<1>1. /\ my[Popper].tail.counter \in Nat /\ tail.counter \in Nat /\ tail'.counter \in Nat
      /\ Len(chain) \in Nat /\ Len(longer) \in Nat /\ HeadAt \in Nat \ {0} /\ HeadAt' = HeadAt
  BY DEF Types, Pointers, QueueThreads, HeadAt
<1>2. HeadAt \in 1..Len(chain) /\ (HeadAt < Len(chain) => HeadAt + 1 \in 1..Len(chain) /\ HeadAt < Len(longer))
  BY <1>1
<1> QED BY <1>1, <1>2 DEF DcasPopper, Position

\* What all steps share.
LEMMA Facts ==
    ASSUME NEW chain \in Seq(Nodes), InvWith(chain)
    PROVE  /\ Types /\ Places /\ IsChain(chain) /\ Ends(chain) /\ GenericTail(chain) /\ DcasTail(chain)
           /\ implementation = "dcas" => DcasPopper(chain) /\ \A q \in Pushers : DcasPusher(chain, q)
           /\ Len(popped) \in Nat /\ HeadAt \in Nat /\ HeadAt = Len(popped) + 1
           /\ Popper \in QueueThreads /\ Popper \notin Pushers
           /\ \A q \in Pushers : q \in QueueThreads /\ q # Popper
  BY NodesAreTold DEF InvWith, QueueIs, Types, HeadAt, QueueThreads

\* Allocating a node: it is not in the chain, and its next pointer is null.
LEMMA PushHolds ==
    ASSUME NEW chain \in Seq(Nodes), InvWith(chain),
           NEW p \in Pushers, push(p), UNCHANGED implementation
    PROVE  InvWith(chain)'
<1>1. /\ Types /\ Places /\ IsChain(chain) /\ Ends(chain) /\ GenericTail(chain) /\ DcasTail(chain)
      /\ implementation = "dcas" => DcasPopper(chain) /\ \A q \in Pushers : DcasPusher(chain, q)
      /\ HeadAt \in Nat /\ Popper \notin Pushers /\ p \in QueueThreads
  BY Facts
<1> DEFINE m == <<p, pushes[p] + 1>>
<1>2. /\ pushes[p] + 1 \in 1..MaxPushes /\ m \in Elements /\ m \in Nodes
      /\ pushes' = [pushes EXCEPT ![p] = pushes[p] + 1]
  BY <1>1, NodesAreTold DEF push, Types
<1>3. \A i \in 1..Len(chain) : chain[i] # m
  <2>1. ASSUME NEW i \in 1..Len(chain), chain[i] = m PROVE FALSE
    <3>1. pushes[p] + 1 < pushes[p] \/ pushes[p] + 1 = pushes[p]
      BY <1>1, <1>2, <2>1 DEF IsChain
    <3> QED BY <1>1, <1>2, <3>1, NodesAreTold DEF Types
  <2> QED BY <2>1
<1>4. next' = next
  <2>1. next[m] = NoPointer
    <3>1. \A i \in 1..(Len(chain) - 1) : i \in 1..Len(chain)
      OBVIOUS
    <3> QED BY <1>1, <1>2, <1>3, <3>1 DEF IsChain
  <2>2. next' = [next EXCEPT ![m] = NoPointer]
    BY DEF push
  <2> QED BY <1>1, <1>2, <2>1, <2>2 DEF Types
<1>5. Types'
  <2>1. pushes' \in [Pushers -> 0..MaxPushes]
    BY <1>1, <1>2, NodesAreTold DEF Types
  <2>2. place' \in [QueueThreads -> PlaceNames]
    BY <1>1 DEF push, MoveTo, Types, PlaceNames
  <2> QED BY <2>1, <2>2, <1>1, <1>4 DEF push, Types
<1>6. /\ place'[p] \in {"load_tail", "lock_tail"} /\ place[p] = "idle" /\ ~ending
      /\ \A t \in QueueThreads \ {p} : place'[t] = place[t]
      /\ p # Popper /\ Popper \in QueueThreads /\ place'[Popper] = place[Popper]
      /\ \A q \in Pushers \ {p} : pushes'[q] = pushes[q]
  BY <1>1, <1>2 DEF push, MoveTo, Types, QueueThreads
<1>7. pushes'[p] = pushes[p] + 1 /\ pushes[p] \in Nat
  BY <1>1, <1>2, NodesAreTold DEF Types
<1>8. Places'
  <2>1. place'[p] \in PusherPlaces'
    BY <1>1, <1>6 DEF push, MoveTo, PusherPlaces, Types
  <2>2. \A q \in Pushers \ {p} : place'[q] = place[q] /\ place'[q] \in PusherPlaces'
    BY <1>1, <1>6 DEF Places, PusherPlaces, QueueThreads
  <2>3. PopperPlaces' = PopperPlaces /\ UNCHANGED <<ending, headLock, tailLock, implementation>>
    BY DEF PopperPlaces, push
  <2>4. \A q \in Pushers : place'[q] # "idle" => pushes'[q] > 0
    BY <1>1, <1>6, <1>7, <2>2 DEF Places
  <2> QED BY <1>1, <1>6, <2>1, <2>2, <2>3, <2>4 DEF Places
<1>9. IsChain(chain)'
  <2>1. ASSUME NEW i \in 1..Len(chain), NEW q \in Pushers, NEW k \in 1..MaxPushes, chain[i] = <<q, k>>
        PROVE  k < pushes'[q] \/ (k = pushes'[q] /\ ~Unlinked(q)')
    <3>1. k < pushes[q] \/ (k = pushes[q] /\ ~Unlinked(q))
      BY <1>1, <2>1 DEF IsChain
    <3>2. CASE q = p
      BY <3>1, <3>2, <1>7, <1>6
    <3>3. CASE q # p
      BY <3>1, <3>3, <1>6 DEF Unlinked, QueueThreads
    <3> QED BY <3>2, <3>3
  <2> QED BY <1>1, <1>4, <2>1 DEF IsChain
<1>10. Ends(chain)'
  <2>1. {MyNode(q) : q \in {r \in Pushers : Unlinked(r)}}'
            = {MyNode(q) : q \in {r \in Pushers : Unlinked(r)}} \cup {m}
    <3>1. \A q \in Pushers \ {p} : MyNode(q)' = MyNode(q) /\ Unlinked(q)' = Unlinked(q)
      BY <1>6 DEF MyNode, Unlinked, QueueThreads
    <3>2. MyNode(p)' = m /\ Unlinked(p)' /\ ~Unlinked(p)
      BY <1>6, <1>7 DEF MyNode, Unlinked
    <3> QED BY <3>1, <3>2
  <2>2. /\ allocated' = allocated \cup {m}
        /\ UNCHANGED <<popped, head>>
    BY DEF push
  <2> QED BY <1>1, <1>6, <2>1, <2>2 DEF Ends, HeadAt
<1>11. GenericTail(chain)' /\ DcasTail(chain)'
  <2>1. UNCHANGED <<tail, popped>>
    BY DEF push
  <2>2. \A q \in Pushers : place'[q] = "swing" <=> place[q] = "swing"
    BY <1>6 DEF QueueThreads
  <2>3. \A q \in Pushers : place'[q] = "swing" => MyNode(q)' = MyNode(q)
    BY <1>6, <2>2 DEF MyNode
  <2> QED BY <1>1, <1>6, <2>1, <2>2, <2>3 DEF GenericTail, DcasTail, HeadAt, Position
<1>12. UNCHANGED <<tail, my, popped, ending>>
  BY DEF push
<1>13. Position(tail) <= Position(tail)' /\ HeadAt <= Len(chain) /\ Len(chain) <= Len(chain)
  BY <1>1, <1>12 DEF Types, Pointers, Position, Ends
<1>14. ASSUME implementation = "dcas" PROVE DcasPopper(chain)'
  BY <1>1, <1>4, <1>5, <1>6, <1>14, <1>12, <1>13, PopperKept
<1>15. ASSUME implementation = "dcas" PROVE Position(tail) <= Len(chain)
  BY <1>1, <1>6, <1>15 DEF DcasTail, Places
<1>16. ASSUME implementation = "dcas", NEW q \in Pushers PROVE DcasPusher(chain, q)'
  <2>1. CASE q = p
    BY <2>1, <1>6 DEF DcasPusher
  <2>2. CASE q # p
    <3>1. place'[q] = place[q] /\ pushes'[q] = pushes[q] /\ my'[q] = my[q] /\ DcasPusher(chain, q)
      BY <1>1, <1>6, <1>16, <1>12, <2>2 DEF QueueThreads
    <3> QED BY <1>1, <1>5, <1>16, <1>13, <1>15, <3>1, PusherKept
  <2> QED BY <2>1, <2>2
<1> QED
  BY <1>5, <1>8, <1>9, <1>10, <1>11, <1>14, <1>16 DEF InvWith, QueueIs
-------------------------------------------------------------------------------
\* A step that changes neither the list nor what is allocated.
LEMMA QuietStep ==
    ASSUME NEW chain \in Seq(Nodes), InvWith(chain),
           UNCHANGED <<implementation, head, next, allocated, pushes, popped>>,
           Types', Places', \A p \in Pushers : Unlinked(p)' <=> Unlinked(p),
           place'[Popper] = "gone" <=> place[Popper] = "gone",
           place'[Popper] = "reset" => place[Popper] = "reset" \/ HeadAt = Len(chain),
           GenericTail(chain)', DcasTail(chain)',
           implementation = "dcas" => DcasPopper(chain)' /\ \A p \in Pushers : DcasPusher(chain, p)'
    PROVE  InvWith(chain)'
<1>1. IsChain(chain)'
  BY Facts, ChainKept
<1>2. Ends(chain)'
  BY Facts, EndsKept
<1> QED BY <1>1, <1>2 DEF InvWith, QueueIs

\* Without locks, m_Tail is in the chain, not before m_Head.
LEMMA TailInChain ==
    ASSUME NEW chain \in Seq(Nodes), InvWith(chain), implementation = "dcas",
           place[Popper] # "gone"
    PROVE  /\ Position(tail) \in 1..Len(chain) /\ tail.counter \in Nat
           /\ tail.node = chain[Position(tail)] /\ tail.node \in Nodes
           /\ Position(tail) \in {Len(chain) - 1, Len(chain)}
           /\ HeadAt <= Position(tail)
<1>1. /\ Types /\ Places /\ IsChain(chain) /\ Ends(chain) /\ DcasTail(chain)
      /\ HeadAt \in Nat /\ HeadAt = Len(popped) + 1 /\ Len(popped) \in Nat
  BY Facts
<1>2. tail.counter \in Nat /\ Len(chain) \in Nat
  BY <1>1 DEF Types, Pointers
<1>3. Position(tail) \in 1..Len(chain) /\ HeadAt <= Position(tail)
  BY <1>1, <1>2 DEF DcasTail, Position
<1> QED BY <1>1, <1>2, <1>3 DEF DcasTail

\* Such a step of one pusher, without locks.
LEMMA PusherMoves ==
    ASSUME NEW chain \in Seq(Nodes), InvWith(chain), implementation = "dcas",
           NEW p \in Pushers, place[p] # "idle", NEW location \in PusherPlaces,
           UNCHANGED <<implementation, head, next, allocated, headLock, tailLock, pushes, popped, ending>>,
           place' = [place EXCEPT ![p] = location],
           location \in {"idle", "swing"} <=> place[p] \in {"idle", "swing"},
           \A t \in QueueThreads \ {p} : my'[t] = my[t],
           my' \in [QueueThreads -> [head : Pointers, tail : Pointers, next : Pointers]],
           tail' \in Pointers, DcasTail(chain)', Position(tail) <= Position(tail)',
           DcasPusher(chain, p)'
    PROVE  InvWith(chain)'
<1>1. /\ Types /\ Places /\ IsChain(chain) /\ Ends(chain) /\ GenericTail(chain) /\ DcasTail(chain)
      /\ DcasPopper(chain) /\ \A q \in Pushers : DcasPusher(chain, q)
      /\ HeadAt \in Nat /\ Popper \notin Pushers /\ Popper \in QueueThreads /\ p \in QueueThreads
  BY Facts
<1>2. Types'
  <2>1. place' \in [QueueThreads -> PlaceNames]
    BY <1>1 DEF Types, PusherPlaces, PlaceNames
  <2> QED BY <1>1, <2>1 DEF Types
<1>3. /\ place'[p] = location /\ \A t \in QueueThreads \ {p} : place'[t] = place[t]
      /\ place'[Popper] = place[Popper] /\ my'[Popper] = my[Popper]
      /\ ~ending /\ place[Popper] # "gone" /\ pushes[p] > 0
  BY <1>1 DEF Types, Places
<1>4. Places'
  <2>1. PusherPlaces' = PusherPlaces /\ PopperPlaces' = PopperPlaces
    BY DEF PusherPlaces, PopperPlaces
  <2> QED BY <1>1, <1>3, <2>1 DEF Places, QueueThreads
<1>5. \A q \in Pushers : Unlinked(q)' <=> Unlinked(q)
  BY <1>1, <1>3 DEF Unlinked, QueueThreads
<1>6. DcasPopper(chain)'
  BY <1>1, <1>2, <1>3, PopperKept DEF Ends
<1>7. ASSUME NEW q \in Pushers PROVE DcasPusher(chain, q)'
  <2>1. CASE q = p
    BY <2>1
  <2>2. CASE q # p
    <3>1. place'[q] = place[q] /\ my'[q] = my[q]
      BY <1>3, <2>2 DEF QueueThreads
    <3>2. Len(chain) <= Len(chain) /\ Position(tail) <= Len(chain)
      BY <1>1, <1>3, TailInChain
    <3> QED BY <1>1, <1>2, <3>1, <3>2, PusherKept
  <2> QED BY <2>1, <2>2
<1>8. GenericTail(chain)'
  BY DEF GenericTail
<1> QED BY <1>1, <1>2, <1>3, <1>4, <1>5, <1>6, <1>7, <1>8, QuietStep

\* Such a step of the popping thread, without locks.
LEMMA PopperMoves ==
    ASSUME NEW chain \in Seq(Nodes), InvWith(chain), implementation = "dcas",
           NEW location \in PopperPlaces, place[Popper] # "gone", location # "gone",
           UNCHANGED <<implementation, head, next, allocated, headLock, tailLock, pushes, popped, ending>>,
           place' = [place EXCEPT ![Popper] = location],
           location = "reset" => ending /\ HeadAt = Len(chain),
           \A t \in QueueThreads \ {Popper} : my'[t] = my[t],
           my' \in [QueueThreads -> [head : Pointers, tail : Pointers, next : Pointers]],
           tail' \in Pointers, DcasTail(chain)', Position(tail) <= Position(tail)',
           DcasPopper(chain)'
    PROVE  InvWith(chain)'
<1>1. /\ Types /\ Places /\ IsChain(chain) /\ Ends(chain) /\ GenericTail(chain) /\ DcasTail(chain)
      /\ DcasPopper(chain) /\ \A q \in Pushers : DcasPusher(chain, q)
      /\ HeadAt \in Nat /\ Popper \notin Pushers /\ Popper \in QueueThreads
  BY Facts
<1>2. Types'
  <2>1. place' \in [QueueThreads -> PlaceNames]
    BY <1>1 DEF Types, PopperPlaces, PlaceNames
  <2> QED BY <1>1, <2>1 DEF Types
<1>3. /\ place'[Popper] = location
      /\ \A q \in Pushers : place'[q] = place[q] /\ my'[q] = my[q]
  BY <1>1 DEF Types, QueueThreads
<1>4. Places'
  <2>1. PusherPlaces' = PusherPlaces /\ PopperPlaces' = PopperPlaces
    BY DEF PusherPlaces, PopperPlaces
  <2>2. headLock = NullNode /\ place[Popper] # "pop" /\ location # "pop"
    BY <1>1 DEF Places, PopperPlaces
  <2> QED BY <1>1, <1>3, <2>1, <2>2 DEF Places
<1>5. \A q \in Pushers : Unlinked(q)' <=> Unlinked(q)
  BY <1>3 DEF Unlinked
<1>6. ASSUME NEW q \in Pushers PROVE DcasPusher(chain, q)'
  <2>1. Len(chain) <= Len(chain) /\ Position(tail) <= Len(chain)
    BY SMTT(40), <1>1 DEF DcasTail, Types, Pointers, Position
  <2> QED BY <1>1, <1>2, <1>3, <2>1, PusherKept
<1>7. GenericTail(chain)'
  BY DEF GenericTail
<1> QED BY <1>1, <1>2, <1>3, <1>4, <1>5, <1>6, <1>7, QuietStep
-------------------------------------------------------------------------------
\* The steps of threadsafe_queue_impl_dcas that leave the list alone.

\* What a pusher read from m_Tail is in the chain.
LEMMA ReadInChain ==
    ASSUME NEW chain \in Seq(Nodes), InvWith(chain), implementation = "dcas",
           NEW p \in Pushers, place[p] \in {"load_next", "link", "help", "swing"}
    PROVE  /\ Position(my[p].tail) \in 1..Len(chain) /\ my[p].tail.counter \in Nat
           /\ Position(my[p].tail) <= Position(tail)
           /\ my[p].tail.node = chain[Position(my[p].tail)] /\ my[p].tail.node \in Nodes
           /\ my[p].tail \in Pointers /\ my[p].next \in Pointers
<1>1. /\ Types /\ Places /\ DcasPusher(chain, p) /\ Len(chain) \in Nat /\ p \in QueueThreads
  BY Facts
<1>2. place[Popper] # "gone"
  BY <1>1 DEF Places
<1>3. my[p].tail.counter \in Nat /\ my[p].tail \in Pointers /\ my[p].next \in Pointers
  BY <1>1 DEF Types, Pointers
<1>4. Position(my[p].tail) \in 1..Len(chain)
  BY <1>1, <1>2, <1>3, TailInChain DEF DcasPusher, ReadFromTail, Position
<1> QED BY <1>1, <1>3, <1>4 DEF DcasPusher, ReadFromTail

LEMMA LoadTailHolds ==
    ASSUME NEW chain \in Seq(Nodes), InvWith(chain),
           NEW p \in Pushers, LoadTail(p), UNCHANGED implementation
    PROVE  InvWith(chain)'
<1>1. /\ Types /\ Places /\ DcasTail(chain) /\ p \in QueueThreads
  BY Facts
<1>2. implementation = "dcas" /\ place[p] = "load_tail" /\ place[Popper] # "gone"
  BY <1>1 DEF LoadTail, Places, PusherPlaces
<1>3. "load_next" \in PusherPlaces /\ place' = [place EXCEPT ![p] = "load_next"]
  BY <1>2 DEF PusherPlaces, LoadTail, MoveTo
<1>4. my' \in [QueueThreads -> [head : Pointers, tail : Pointers, next : Pointers]]
  BY <1>1 DEF LoadTail, Types
<1>5. my'[p].tail = tail /\ \A t \in QueueThreads \ {p} : my'[t] = my[t]
  BY <1>1 DEF LoadTail, Types
<1>6. tail' = tail /\ tail.counter \in Nat
  BY <1>1 DEF LoadTail, Types, Pointers
<1>7. DcasPusher(chain, p)'
  <2>1. place'[p] = "load_next"
    BY <1>1, <1>3 DEF Types
  <2>2. ReadFromTail(chain, my[p].tail)'
    BY <1>2, <1>5, <1>6, TailInChain DEF ReadFromTail, Position
  <2> QED BY <2>1, <2>2 DEF DcasPusher
<1>8. DcasTail(chain)' /\ Position(tail) <= Position(tail)'
  <2>1. UNCHANGED <<popped, tail>> /\ place'[Popper] # "gone" /\ UNCHANGED implementation
    BY <1>1, <1>2, <1>3 DEF LoadTail, Types
  <2> QED BY <1>1, <1>2, <1>6, <2>1 DEF DcasTail, Position, HeadAt
<1> QED
  BY <1>1, <1>2, <1>3, <1>4, <1>5, <1>6, <1>7, <1>8, PusherMoves DEF LoadTail, Types

LEMMA LoadNextHolds ==
    ASSUME NEW chain \in Seq(Nodes), InvWith(chain),
           NEW p \in Pushers, LoadNext(p), UNCHANGED implementation
    PROVE  InvWith(chain)'
<1>1. /\ Types /\ Places /\ IsChain(chain) /\ DcasTail(chain) /\ DcasPusher(chain, p) /\ p \in QueueThreads
  <2>1. implementation = "dcas"
    BY Facts DEF LoadNext, Places, PusherPlaces
  <2> QED BY <2>1, Facts
<1>2. implementation = "dcas" /\ place[p] = "load_next" /\ place[Popper] # "gone"
  BY <1>1 DEF LoadNext, Places, PusherPlaces
<1> DEFINE at == Position(my[p].tail)
           location == IF next[my[p].tail.node].node = NullNode THEN "link" ELSE "help"
<1>3. location \in PusherPlaces /\ place' = [place EXCEPT ![p] = location]
  BY <1>2 DEF PusherPlaces, LoadNext, MoveTo
<1>4. /\ my[p].tail.node \in Nodes /\ at \in 1..Len(chain) /\ my[p].tail.node = chain[at]
      /\ next[my[p].tail.node] \in Pointers
  BY <1>1, <1>2, ReadInChain DEF Types
<1>5. my' \in [QueueThreads -> [head : Pointers, tail : Pointers, next : Pointers]]
  BY <1>1, <1>4 DEF LoadNext, Types
<1>6. /\ my'[p].tail = my[p].tail /\ my'[p].next = next[chain[at]]
      /\ \A t \in QueueThreads \ {p} : my'[t] = my[t]
  BY <1>1, <1>4 DEF LoadNext, Types
<1>7. tail' = tail /\ tail.counter \in Nat /\ Len(chain) \in Nat
  BY <1>1 DEF LoadNext, Types, Pointers
<1>8. DcasPusher(chain, p)'
  <2>1. place'[p] = location
    BY <1>1, <1>3 DEF Types
  <2>2. ReadFromTail(chain, my[p].tail)'
    BY <1>1, <1>2, <1>6, <1>7 DEF DcasPusher, ReadFromTail, Position
  <2>3. location = "link" => at = Len(chain) /\ my'[p].next = NoPointer
    BY <1>1, <1>6, <1>4, NodesOfChain
  <2>4. location = "help" => at < Len(chain) /\ my'[p].next.node = chain[at + 1]
    <3>1. location = "help" => at \in 1..(Len(chain) - 1)
      BY <1>1, <1>7, <1>4, NodesOfChain
    <3> QED BY <1>1, <1>6, <1>7, <1>4, <3>1, NodesOfChain
  <2>5. location \in {"link", "help"}
    OBVIOUS
  <2> HIDE DEF location, at
  <2>6. Position(my[p].tail)' = at
    BY <1>6 DEF Position, at
  <2> QED BY <2>1, <2>2, <2>3, <2>4, <2>5, <2>6 DEF DcasPusher
<1>9. DcasTail(chain)' /\ Position(tail) <= Position(tail)'
  <2>1. UNCHANGED <<popped, tail>> /\ place'[Popper] # "gone" /\ UNCHANGED implementation
    BY <1>1, <1>2, <1>3 DEF LoadNext, Types
  <2> QED BY <1>1, <1>2, <1>7, <2>1 DEF DcasTail, Position, HeadAt
<1> QED
  BY <1>1, <1>2, <1>3, <1>5, <1>6, <1>7, <1>8, <1>9, PusherMoves DEF LoadNext, Types
\* A compare-and-swap of m_Tail to the node behind the one that was read from
\* it: when it succeeds, m_Tail still is where it was read.
LEMMA SwingHolds ==
    ASSUME NEW chain \in Seq(Nodes), InvWith(chain), implementation = "dcas",
           place[Popper] # "gone", NEW t \in QueueThreads, my[t].tail \in Pointers,
           my[t].tail = tail => Position(tail) < Len(chain),
           NEW node \in Nodes, my[t].tail = tail => node = chain[Position(tail) + 1],
           SwingTail(t, node), place'[Popper] # "gone", UNCHANGED <<implementation, popped>>
    PROVE  tail' \in Pointers /\ DcasTail(chain)' /\ Position(tail) <= Position(tail)'
<1>1. Types /\ DcasTail(chain) /\ HeadAt \in Nat /\ HeadAt' = HeadAt /\ Len(chain) \in Nat
  BY Facts DEF HeadAt
<1>2. /\ Position(tail) \in 1..Len(chain) /\ tail.counter \in Nat /\ tail \in Pointers
      /\ Position(tail) \in {Len(chain) - 1, Len(chain)}
      /\ HeadAt <= Position(tail)
  BY <1>1, TailInChain DEF Types
<1>3. CASE tail = my[t].tail
  <2>1. tail' = Pointer(node, tail.counter + 1) /\ tail' \in Pointers
    BY <1>2, <1>3, NodesAreTold DEF SwingTail
  <2>2. tail'.node = node /\ Position(tail)' = Position(tail) + 1
    BY <2>1, <1>2 DEF Pointer, Position
  <2> QED BY <1>1, <1>2, <1>3, <2>1, <2>2 DEF DcasTail
<1>4. CASE tail # my[t].tail
  <2>1. tail' = tail
    BY <1>4 DEF SwingTail
  <2> QED BY <1>1, <1>2, <2>1 DEF DcasTail, Position
<1> QED BY <1>3, <1>4

LEMMA HelpHolds ==
    ASSUME NEW chain \in Seq(Nodes), InvWith(chain),
           NEW p \in Pushers, Help(p), UNCHANGED implementation
    PROVE  InvWith(chain)'
<1>1. Types /\ Places /\ p \in QueueThreads /\ p # Popper /\ Popper \in QueueThreads
  BY Facts
<1>2. implementation = "dcas" /\ place[p] = "help" /\ place[Popper] # "gone"
  BY <1>1 DEF Help, Places, PusherPlaces
<1>3. "load_tail" \in PusherPlaces /\ place' = [place EXCEPT ![p] = "load_tail"]
  BY <1>2 DEF PusherPlaces, Help, MoveTo
<1>4. place'[p] = "load_tail" /\ place'[Popper] # "gone"
  BY <1>1, <1>2, <1>3 DEF Types
<1>5. /\ Position(my[p].tail) < Len(chain) /\ my[p].next.node = chain[Position(my[p].tail) + 1]
      /\ my[p].tail \in Pointers /\ Position(my[p].tail) + 1 \in 1..Len(chain)
  <2>1. DcasPusher(chain, p) /\ Position(my[p].tail) \in 1..Len(chain) /\ my[p].tail \in Pointers
    BY <1>2, Facts, ReadInChain
  <2>2. Position(my[p].tail) < Len(chain) /\ my[p].next.node = chain[Position(my[p].tail) + 1]
    BY <1>2, <2>1 DEF DcasPusher
  <2> QED BY <2>1, <2>2
<1>6. my[p].next.node \in Nodes
  BY <1>5
<1>7. SwingTail(p, my[p].next.node) /\ UNCHANGED <<popped, my>>
  BY DEF Help
<1>8. tail' \in Pointers /\ DcasTail(chain)' /\ Position(tail) <= Position(tail)'
  BY <1>1, <1>2, <1>4, <1>5, <1>6, <1>7, SwingHolds
<1>9. DcasPusher(chain, p)'
  BY <1>4 DEF DcasPusher
<1> QED
  BY <1>1, <1>2, <1>3, <1>7, <1>8, <1>9, PusherMoves DEF Help, Types

LEMMA SwingReturns ==
    ASSUME NEW chain \in Seq(Nodes), InvWith(chain),
           NEW p \in Pushers, Swing(p), UNCHANGED implementation
    PROVE  InvWith(chain)'
<1>1. Types /\ Places /\ p \in QueueThreads /\ p # Popper /\ Popper \in QueueThreads
  BY Facts
<1>2. implementation = "dcas" /\ place[p] = "swing" /\ place[Popper] # "gone"
  BY <1>1 DEF Swing, Places, PusherPlaces
<1>3. "idle" \in PusherPlaces /\ place' = [place EXCEPT ![p] = "idle"]
  BY <1>2 DEF PusherPlaces, Swing, Return
<1>4. place'[p] = "idle" /\ place'[Popper] # "gone"
  BY <1>1, <1>2, <1>3 DEF Types
<1>5. /\ Position(my[p].tail) < Len(chain) /\ MyNode(p) = chain[Position(my[p].tail) + 1]
      /\ my[p].tail \in Pointers
  BY <1>2, Facts, ReadInChain DEF DcasPusher
<1>6. MyNode(p) \in Nodes
  BY <1>1, <1>2, MyNodeIsElement, NodesAreTold
<1>7. SwingTail(p, MyNode(p)) /\ UNCHANGED popped
  BY DEF Swing
<1>8. tail' \in Pointers /\ DcasTail(chain)' /\ Position(tail) <= Position(tail)'
  BY <1>1, <1>2, <1>4, <1>5, <1>6, <1>7, SwingHolds
<1>9. DcasPusher(chain, p)'
  BY <1>4 DEF DcasPusher
<1>10. /\ my' \in [QueueThreads -> [head : Pointers, tail : Pointers, next : Pointers]]
       /\ \A t \in QueueThreads \ {p} : my'[t] = my[t]
  <2>1. my' = [my EXCEPT ![p] = [head |-> NoPointer, tail |-> NoPointer, next |-> NoPointer]]
    BY DEF Swing, Return
  <2> QED BY <1>1, <2>1, NodesAreTold DEF Types
<1> QED
  BY <1>1, <1>2, <1>3, <1>8, <1>9, <1>10, PusherMoves DEF Swing
-------------------------------------------------------------------------------
\* Linking a node, in either implementation: the chain grows by it.
LEMMA ChainGrows ==
    ASSUME NEW chain \in Seq(Nodes), InvWith(chain), NEW p \in Pushers, place[p] = "link",
           NEW m \in Nodes, m = MyNode(p), NEW longer, longer = Append(chain, m), NEW c \in Nat,
           next' = [next EXCEPT ![chain[Len(chain)]] = Pointer(m, c)],
           place' = [place EXCEPT ![p] = "swing"],
           UNCHANGED <<head, allocated, pushes, popped>>
    PROVE  /\ longer \in Seq(Nodes)
           /\ Len(longer) = Len(chain) + 1
           /\ \A i \in 1..Len(chain) : longer[i] = chain[i]
           /\ longer[Len(chain) + 1] = m
           /\ IsChain(longer)'
           /\ Ends(longer)'
           /\ next' \in [Nodes -> Pointers]
<1>1. /\ Types /\ Places /\ IsChain(chain) /\ Ends(chain)
      /\ HeadAt \in Nat /\ HeadAt = Len(popped) + 1 /\ Len(popped) \in Nat
      /\ Popper \in QueueThreads /\ Popper \notin Pushers /\ p \in QueueThreads
  BY Facts
<1> DEFINE n == Len(chain)
<1>2. /\ Unlinked(p) /\ pushes[p] \in 1..MaxPushes /\ m \in Elements /\ m \in Nodes
      /\ m = <<p, pushes[p]>>
      /\ place[Popper] \notin {"gone", "reset"}
  BY <1>1, MyNodeIsElement, NodesAreTold DEF Unlinked, Places, MyNode
<1>3. /\ n \in Nat \ {0}
      /\ \A i \in 1..n : chain[i] \in Nodes /\ chain[i] # m
      /\ next[chain[n]] = NoPointer
      /\ \A i \in 1..(n - 1) : next[chain[i]].node = chain[i + 1]
  BY <1>1, <1>2, NodesOfChain
<1>4. longer \in Seq(Nodes) /\ Len(longer) = n + 1 /\ (\A i \in 1..n : longer[i] = chain[i]) /\ longer[n + 1] = m
  BY <1>2, <1>3
<1>5. /\ \A q \in Pushers \ {p} : Unlinked(q)' = Unlinked(q) /\ MyNode(q)' = MyNode(q)
      /\ ~Unlinked(p)' /\ place'[Popper] = place[Popper] /\ pushes' = pushes
  BY <1>1 DEF Types, Unlinked, MyNode, QueueThreads
<1>6. /\ next'[chain[n]].node = m
      /\ \A x \in Nodes : x # chain[n] => next'[x] = next[x]
      /\ next' \in [Nodes -> Pointers]
  <2>1. Pointer(m, c) \in Pointers /\ Pointer(m, c).node = m
    BY <1>2, NodesAreTold
  <2>2. chain[n] \in Nodes
    BY <1>3
  <2> QED BY <1>1, <2>1, <2>2 DEF Types
<1> HIDE DEF n
<1>7. IsChain(longer)'
  <2>1. longer[1] = Dummy /\ Len(longer) > 0 /\ n = Len(chain)
    BY <1>1, <1>3, <1>4 DEF IsChain, n
  <2>2. ASSUME NEW i \in 1..Len(longer), NEW j \in 1..Len(longer), longer[i] = longer[j] PROVE i = j
    <3>1. \A k \in 1..Len(longer) : k \in 1..n \/ k = n + 1
      BY <1>3, <1>4
    <3> QED BY <1>1, <1>3, <1>4, <2>1, <2>2, <3>1 DEF IsChain
  <2>3. ASSUME NEW i \in 1..Len(longer), NEW q \in Pushers, NEW k \in 1..MaxPushes, longer[i] = <<q, k>>
        PROVE  k < pushes'[q] \/ (k = pushes'[q] /\ ~Unlinked(q)')
    <3>1. CASE i \in 1..n
      <4>1. k < pushes[q] \/ (k = pushes[q] /\ ~Unlinked(q))
        BY <1>1, <1>4, <2>1, <2>3, <3>1 DEF IsChain
      <4> QED BY <1>2, <1>5, <4>1
    <3>2. CASE i = n + 1
      BY <1>2, <1>4, <1>5, <2>3, <3>2, NodesAreTold
    <3> QED BY <1>3, <1>4, <3>1, <3>2
  <2>4. ASSUME NEW i \in 1..(Len(longer) - 1) PROVE next'[longer[i]].node = longer[i + 1]
    <3>1. CASE i = n
      BY <1>3, <1>4, <1>6, <3>1
    <3>2. CASE i \in 1..(n - 1)
      <4>1. i \in 1..n /\ i + 1 \in 1..n /\ i # n /\ n \in 1..n
        BY <1>3, <3>2
      <4>2. chain[i] # chain[n]
        BY <1>1, <2>1, <4>1 DEF IsChain
      <4> QED BY <1>3, <1>4, <1>6, <3>2, <4>1, <4>2
    <3> QED BY <1>3, <1>4, <3>1, <3>2
  <2>5. ASSUME NEW x \in Nodes, \A i \in 1..(Len(longer) - 1) : longer[i] # x PROVE next'[x] = NoPointer
    <3>1. \A i \in 1..n : chain[i] # x
      BY <1>3, <1>4, <2>5
    <3>2. x # chain[n] /\ \A i \in 1..(Len(chain) - 1) : chain[i] # x
      BY <1>3, <2>1, <3>1
    <3> QED BY <1>1, <1>6, <3>2 DEF IsChain
  <2> QED BY <1>4, <2>1, <2>2, <2>3, <2>4, <2>5 DEF IsChain
<1>8. Ends(longer)'
  <2> DEFINE mine == {MyNode(q) : q \in {r \in Pushers : Unlinked(r)}}
  <2>1. mine = mine' \cup {m}
    BY <1>2, <1>5
  <2>2. {longer[i] : i \in HeadAt..Len(longer)} = {chain[i] : i \in HeadAt..n} \cup {m}
    <3>1. HeadAt \in 1..n
      BY <1>1, <1>3 DEF Ends, n
    <3>2. HeadAt..Len(longer) = (HeadAt..n) \cup {n + 1} /\ \A i \in HeadAt..n : i \in 1..n
      BY <1>3, <1>4, <3>1
    <3> QED BY <1>4, <3>2
  <2>3. HeadAt' = HeadAt /\ popped' = popped /\ allocated' = allocated /\ head' = head
    BY DEF HeadAt
  <2>4. HeadAt <= n /\ \A i \in 1..Len(popped) : i + 1 \in 1..n /\ popped[i] = longer[i + 1]
    BY <1>1, <1>3, <1>4 DEF Ends, n
  <2>5. allocated = {chain[i] : i \in HeadAt..n} \cup mine /\ head.node = chain[HeadAt]
    BY <1>1, <1>2 DEF Ends, n
  <2>6. allocated' = {longer[i] : i \in HeadAt..Len(longer)} \cup mine'
    BY <2>1, <2>2, <2>3, <2>5
  <2>7. HeadAt \in 1..n /\ HeadAt <= Len(longer) /\ head.node = longer[HeadAt]
    BY <1>1, <1>3, <1>4, <2>4, <2>5
  <2> HIDE DEF mine
  <2>8. /\ HeadAt' <= Len(longer)
        /\ \A i \in 1..Len(popped') : popped'[i] = longer[i + 1]
        /\ allocated' = (IF place'[Popper] = "gone" THEN {} ELSE {longer[i] : i \in HeadAt'..Len(longer)}) \cup mine'
        /\ head'.node = IF place'[Popper] = "gone" THEN NullNode ELSE longer[HeadAt']
        /\ place'[Popper] # "reset"
    BY <1>2, <1>5, <2>3, <2>4, <2>6, <2>7
  <2> QED BY <2>8 DEF Ends, mine
<1> QED BY <1>4, <1>6, <1>7, <1>8 DEF n
LEMMA LinkHolds ==
    ASSUME NEW chain \in Seq(Nodes), InvWith(chain),
           NEW p \in Pushers, Link(p), UNCHANGED implementation
    PROVE  \/ InvWith(chain)' /\ next' = next
           \/ \E longer \in Seq(Nodes) : longer = Append(chain, MyNode(p)) /\ InvWith(longer)'
<1>1. /\ Types /\ Places /\ IsChain(chain) /\ Ends(chain) /\ GenericTail(chain) /\ DcasTail(chain)
      /\ implementation = "dcas" => DcasPopper(chain) /\ \A q \in Pushers : DcasPusher(chain, q)
      /\ p \in QueueThreads /\ p # Popper /\ Popper \in QueueThreads /\ Popper \notin Pushers
  BY Facts
<1>2. implementation = "dcas" /\ place[p] = "link" /\ place[Popper] # "gone" /\ ~ending
  BY <1>1 DEF Link, Places
<1> DEFINE at == Position(my[p].tail)
           m == MyNode(p)
<1>3. /\ at \in 1..Len(chain) /\ my[p].tail.node = chain[at] /\ my[p].next = NoPointer
      /\ my[p].tail.node \in Nodes /\ at <= Position(tail) /\ my[p].tail.counter \in Nat
  BY <1>1, <1>2, ReadInChain DEF DcasPusher
<1>4. /\ Position(tail) \in 1..Len(chain) /\ tail.counter \in Nat
      /\ Position(tail) \in {Len(chain) - 1, Len(chain)} /\ HeadAt <= Position(tail)
      /\ tail.node = chain[Position(tail)]
  BY <1>2, TailInChain
<1>5. UNCHANGED <<head, tail, allocated, headLock, tailLock, my, pushes, popped, ending, crashed>>
  BY DEF Link
<1>6. CASE next[my[p].tail.node] # my[p].next
  <2>1. "load_tail" \in PusherPlaces /\ place' = [place EXCEPT ![p] = "load_tail"] /\ next' = next
    BY <1>2, <1>6 DEF PusherPlaces, Link, MoveTo
  <2>2. place'[p] = "load_tail" /\ place'[Popper] # "gone"
    BY <1>1, <1>2, <2>1 DEF Types
  <2>3. DcasPusher(chain, p)'
    BY <2>2 DEF DcasPusher
  <2>4. DcasTail(chain)' /\ Position(tail) <= Position(tail)'
    BY <1>1, <1>2, <1>4, <1>5 DEF DcasTail, Position, HeadAt
  <2>5. InvWith(chain)'
    BY <1>1, <1>2, <1>5, <2>1, <2>3, <2>4, PusherMoves DEF Types
  <2> QED BY <2>1, <2>5
<1>7. CASE next[my[p].tail.node] = my[p].next
  <2>1. at = Len(chain) /\ chain[at] = my[p].tail.node
    BY <1>1, <1>3, <1>7, NodesOfChain DEF NoPointer, Pointer
  <2>2. m \in Nodes /\ m \in Elements /\ my[p].next.counter + 1 = 1
    BY <1>1, <1>2, <1>3, MyNodeIsElement, NodesAreTold DEF NoPointer, Pointer
  <2>3. /\ next' = [next EXCEPT ![chain[Len(chain)]] = Pointer(m, 1)]
        /\ place' = [place EXCEPT ![p] = "swing"]
    BY <1>2, <1>7, <2>1, <2>2 DEF Link, MoveTo
  <2> DEFINE longer == Append(chain, m)
  <2>4. /\ longer \in Seq(Nodes) /\ Len(longer) = Len(chain) + 1
        /\ \A i \in 1..Len(chain) : longer[i] = chain[i]
        /\ longer[Len(chain) + 1] = m
    BY <2>2
  <2>5. m' = m /\ longer' = longer
    BY <1>5 DEF MyNode
  <2> HIDE DEF m, longer
  <2> SUFFICES ASSUME NEW long, long = longer PROVE InvWith(long)'
    BY <2>4 DEF longer, m
  <2>6. IsChain(long)' /\ Ends(long)' /\ next' \in [Nodes -> Pointers] /\ long \in Seq(Nodes)
    BY <1>2, <1>5, <2>2, <2>3, <2>4, ChainGrows DEF m, longer
  <2>7. /\ place'[p] = "swing" /\ place'[Popper] = place[Popper]
        /\ \A q \in Pushers \ {p} : place'[q] = place[q]
        /\ place' \in [QueueThreads -> PlaceNames]
    BY <1>1, <2>3 DEF Types, QueueThreads, PlaceNames
  <2>8. Types'
    BY <1>1, <1>5, <2>6, <2>7 DEF Types
  <2>9. Places'
    <3>1. PusherPlaces' = PusherPlaces /\ PopperPlaces' = PopperPlaces /\ "swing" \in PusherPlaces
      BY <1>2 DEF PusherPlaces, PopperPlaces
    <3> QED BY <1>1, <1>2, <1>5, <2>7, <3>1 DEF Places
  <2>10. DcasTail(long)'
    <3>1. Position(tail) = Len(chain)
      BY <1>3, <1>4, <2>1
    <3> QED BY <1>4, <1>5, <2>4, <3>1 DEF DcasTail, Position, HeadAt
  <2>11. DcasPopper(long)'
    <3>1. /\ Position(tail) <= Position(tail)' /\ HeadAt <= Len(chain)
          /\ Len(chain) <= Len(long) /\ \A i \in 1..Len(chain) : long[i] = chain[i]
      BY <1>1, <1>4, <1>5, <2>4 DEF Position, Ends
    <3> QED BY <1>1, <1>2, <1>5, <2>6, <2>7, <2>8, <3>1, PopperKept
  <2>12. ASSUME NEW q \in Pushers PROVE DcasPusher(long, q)'
    <3>1. CASE q = p
      <4>1. ReadFromTail(long, my[p].tail)'
        BY <1>3, <1>4, <1>5, <2>4 DEF ReadFromTail, Position
      <4>2. at < Len(long) /\ m = long[at + 1] /\ MyNode(p)' = m /\ Position(my[p].tail)' = at
        BY <1>3, <1>5, <2>1, <2>4, <2>5 DEF m, Position
      <4> QED BY <2>7, <3>1, <4>1, <4>2 DEF DcasPusher
    <3>2. CASE q # p
      <4>1. /\ Position(tail) <= Position(tail)' /\ Position(tail) <= Len(chain)
            /\ Len(chain) <= Len(long) /\ \A i \in 1..Len(chain) : long[i] = chain[i]
        BY <1>4, <1>5, <2>4 DEF Position
      <4>2. place'[q] = place[q] /\ my'[q] = my[q] /\ pushes'[q] = pushes[q] /\ DcasPusher(chain, q)
        BY <1>1, <1>2, <1>5, <2>7, <3>2
      <4> QED BY <1>1, <2>6, <2>8, <4>1, <4>2, PusherKept
    <3> QED BY <3>1, <3>2
  <2>13. GenericTail(long)'
    BY <1>2 DEF GenericTail
  <2> QED BY <2>6, <2>8, <2>9, <2>10, <2>11, <2>12, <2>13 DEF InvWith, QueueIs
<1> QED BY <1>6, <1>7
-------------------------------------------------------------------------------
\* The popping thread, without locks.
LEMMA LoadHeadHolds ==
    ASSUME NEW chain \in Seq(Nodes), InvWith(chain), LoadHead, UNCHANGED implementation
    PROVE  InvWith(chain)'
<1>1. /\ Types /\ Places /\ DcasTail(chain) /\ Popper \in QueueThreads
  BY Facts
<1>2. implementation = "dcas" /\ place[Popper] = "load_head"
  BY <1>1 DEF LoadHead, Places, PopperPlaces
<1>3. "load_head_next" \in PopperPlaces /\ place' = [place EXCEPT ![Popper] = "load_head_next"]
  BY <1>2 DEF PopperPlaces, LoadHead, MoveTo
<1>4. /\ my' \in [QueueThreads -> [head : Pointers, tail : Pointers, next : Pointers]]
      /\ my'[Popper].head = head /\ \A t \in QueueThreads \ {Popper} : my'[t] = my[t]
      /\ UNCHANGED <<implementation, head, next, allocated, headLock, tailLock, tail, pushes, popped, ending>>
  BY <1>1 DEF LoadHead, Types
<1>5. place'[Popper] = "load_head_next"
  BY <1>1, <1>3 DEF Types
<1>6. DcasPopper(chain)'
  BY <1>2, <1>4, <1>5, HeadInChain DEF DcasPopper, HeadAt
<1>7. tail' \in Pointers /\ DcasTail(chain)' /\ Position(tail) <= Position(tail)'
  BY <1>1, <1>2, <1>4, <1>5 DEF DcasTail, Position, HeadAt, Types, Pointers
<1> QED BY <1>2, <1>3, <1>4, <1>6, <1>7, PopperMoves

LEMMA LoadHeadNextHolds ==
    ASSUME NEW chain \in Seq(Nodes), InvWith(chain), LoadHeadNext, UNCHANGED implementation
    PROVE  InvWith(chain)'
<1>1. /\ Types /\ Places /\ DcasTail(chain) /\ Popper \in QueueThreads /\ HeadAt \in Nat
  BY Facts
<1>2. implementation = "dcas" /\ place[Popper] = "load_head_next" /\ DcasPopper(chain)
  BY <1>1, Facts DEF LoadHeadNext, Places, PopperPlaces
<1>3. "compare" \in PopperPlaces /\ place' = [place EXCEPT ![Popper] = "compare"]
  BY <1>2 DEF PopperPlaces, LoadHeadNext, MoveTo
<1>4. /\ my[Popper].head.node = chain[HeadAt] /\ chain[HeadAt] \in Nodes
      /\ my[Popper].head.node = head.node
  BY <1>2, HeadInChain DEF DcasPopper
<1>5. /\ my' \in [QueueThreads -> [head : Pointers, tail : Pointers, next : Pointers]]
      /\ my'[Popper].head = my[Popper].head /\ my'[Popper].next = next[head.node]
      /\ \A t \in QueueThreads \ {Popper} : my'[t] = my[t]
      /\ UNCHANGED <<implementation, head, next, allocated, headLock, tailLock, tail, pushes, popped, ending>>
  BY <1>1, <1>4 DEF LoadHeadNext, Types
<1>6. place'[Popper] = "compare"
  BY <1>1, <1>3 DEF Types
<1>7. DcasPopper(chain)'
  <2>1. next[head.node].node # NullNode => HeadAt < Len(chain) /\ next[head.node].node = chain[HeadAt + 1]
    BY <1>2, HeadInChain
  <2> QED BY <1>5, <1>6, <1>4, <2>1 DEF DcasPopper, HeadAt
<1>8. tail' \in Pointers /\ DcasTail(chain)' /\ Position(tail) <= Position(tail)'
  BY <1>1, <1>2, <1>5, <1>6 DEF DcasTail, Position, HeadAt, Types, Pointers
<1> QED BY <1>2, <1>3, <1>5, <1>7, <1>8, PopperMoves

LEMMA LoadTailAndCompareHolds ==
    ASSUME NEW chain \in Seq(Nodes), InvWith(chain), LoadTailAndCompare, UNCHANGED implementation
    PROVE  InvWith(chain)'
<1>1. /\ Types /\ Places /\ DcasTail(chain) /\ IsChain(chain) /\ Popper \in QueueThreads /\ HeadAt \in Nat
  BY Facts
<1>2. implementation = "dcas" /\ place[Popper] = "compare" /\ DcasPopper(chain)
  BY <1>1, Facts DEF LoadTailAndCompare, Places, PopperPlaces
<1> DEFINE location == IF my[Popper].head.node # tail.node THEN "take"
                       ELSE IF my[Popper].next.node # NullNode THEN "help_pop"
                       ELSE IF ending THEN "reset" ELSE "idle"
<1>3. /\ location \in PopperPlaces /\ location \in {"take", "help_pop", "reset", "idle"}
      /\ place' = [place EXCEPT ![Popper] = location]
  BY <1>2 DEF PopperPlaces, LoadTailAndCompare, MoveTo
<1>4. /\ my' \in [QueueThreads -> [head : Pointers, tail : Pointers, next : Pointers]]
      /\ my'[Popper].head = my[Popper].head /\ my'[Popper].next = my[Popper].next
      /\ my'[Popper].tail = tail
      /\ \A t \in QueueThreads \ {Popper} : my'[t] = my[t]
      /\ UNCHANGED <<implementation, head, next, allocated, headLock, tailLock, tail, pushes, popped, ending>>
  BY <1>1 DEF LoadTailAndCompare, Types
<1>5. place'[Popper] = location
  BY <1>1, <1>3 DEF Types
<1>6. /\ my[Popper].head.node = chain[HeadAt] /\ HeadAt \in 1..Len(chain)
      /\ Position(tail) \in 1..Len(chain) /\ tail.node = chain[Position(tail)] /\ HeadAt <= Position(tail)
      /\ head.node = chain[HeadAt]
  BY <1>2, HeadInChain, TailInChain DEF DcasPopper
<1>7. my[Popper].head.node = tail.node <=> HeadAt = Position(tail)
  BY <1>1, <1>6 DEF IsChain
<1>8. location = "reset" => ending /\ HeadAt = Len(chain)
  <2>1. location = "reset" => ending /\ next[head.node].node = NullNode
    BY <1>2, <1>6 DEF DcasPopper
  <2> QED BY <1>2, <2>1, HeadInChain
<1>9. DcasPopper(chain)'
  <2>1. location = "take" => HeadAt < Position(tail)
    BY <1>6, <1>7
  <2>2. location = "help_pop" =>
            my[Popper].next.node # NullNode /\ tail.node = chain[HeadAt] /\ Position(tail) = HeadAt
    BY <1>6, <1>7
  <2>3. my[Popper].next.node # NullNode =>
            HeadAt < Len(chain) /\ my[Popper].next.node = chain[HeadAt + 1]
    BY <1>2 DEF DcasPopper
  <2> HIDE DEF location
  <2>4. HeadAt' = HeadAt /\ Position(tail)' = Position(tail) /\ Position(my[Popper].tail)' = Position(tail)
    BY <1>4 DEF HeadAt, Position
  <2> QED BY <1>3, <1>4, <1>5, <1>6, <2>1, <2>2, <2>3, <2>4 DEF DcasPopper
<1>10. tail' \in Pointers /\ DcasTail(chain)' /\ Position(tail) <= Position(tail)'
  <2>1. place'[Popper] # "gone"
    BY <1>3, <1>5
  <2> QED BY <1>1, <1>2, <1>4, <2>1 DEF DcasTail, Position, HeadAt, Types, Pointers
<1> HIDE DEF location
<1> QED BY <1>2, <1>3, <1>4, <1>9, <1>10, <1>8, PopperMoves

LEMMA HelpPopHolds ==
    ASSUME NEW chain \in Seq(Nodes), InvWith(chain), HelpPop, UNCHANGED implementation
    PROVE  InvWith(chain)'
<1>1. /\ Types /\ Places /\ DcasTail(chain) /\ Popper \in QueueThreads /\ HeadAt \in Nat
  BY Facts
<1>2. implementation = "dcas" /\ place[Popper] = "help_pop" /\ DcasPopper(chain)
  BY <1>1, Facts DEF HelpPop, Places, PopperPlaces
<1>3. "load_head" \in PopperPlaces /\ place' = [place EXCEPT ![Popper] = "load_head"]
  BY <1>2 DEF PopperPlaces, HelpPop, MoveTo
<1>4. place'[Popper] = "load_head"
  BY <1>1, <1>3 DEF Types
<1>5. /\ my[Popper].next.node = chain[HeadAt + 1] /\ HeadAt < Len(chain) /\ HeadAt + 1 \in 1..Len(chain)
      /\ Position(my[Popper].tail) = HeadAt /\ my[Popper].tail \in Pointers
      /\ my[Popper].next.node \in Nodes
  BY <1>1, <1>2, HeadInChain DEF DcasPopper, Types
<1>6. SwingTail(Popper, my[Popper].next.node) /\
      UNCHANGED <<implementation, head, next, allocated, headLock, tailLock, pushes, popped, ending, my>>
  BY DEF HelpPop
<1>7. tail' \in Pointers /\ DcasTail(chain)' /\ Position(tail) <= Position(tail)'
  BY <1>1, <1>2, <1>4, <1>5, <1>6, SwingHolds
<1>8. DcasPopper(chain)'
  BY <1>4 DEF DcasPopper
<1>9. /\ my' \in [QueueThreads -> [head : Pointers, tail : Pointers, next : Pointers]]
      /\ \A t \in QueueThreads \ {Popper} : my'[t] = my[t]
  BY <1>1, <1>6 DEF Types
<1> QED BY <1>2, <1>3, <1>6, <1>7, <1>8, <1>9, PopperMoves
-------------------------------------------------------------------------------
\* Taking the element behind the dummy, in either implementation: m_Head moves
\* one node on along the chain.
LEMMA HeadMoves ==
    ASSUME NEW chain \in Seq(Nodes), InvWith(chain), place[Popper] \notin {"gone", "reset"},
           HeadAt < Len(chain), NEW c \in Nat,
           head' = Pointer(chain[HeadAt + 1], c),
           TakeElement(head.node, chain[HeadAt + 1]),
           place' = [place EXCEPT ![Popper] = "idle"], UNCHANGED <<next, pushes>>
    PROVE  /\ IsChain(chain)' /\ Ends(chain)' /\ HeadAt' = HeadAt + 1
           /\ popped' \in Seq(Elements) /\ head' \in Pointers
<1>1. /\ Types /\ Places /\ IsChain(chain) /\ Ends(chain)
      /\ HeadAt \in Nat /\ HeadAt = Len(popped) + 1 /\ Len(popped) \in Nat
      /\ Popper \in QueueThreads /\ Popper \notin Pushers
      /\ \A q \in Pushers : q \in QueueThreads /\ q # Popper
  BY Facts
<1> DEFINE n == Len(chain)
           e == chain[HeadAt + 1]
<1>2. /\ n \in Nat /\ HeadAt + 1 \in 1..n /\ HeadAt \in 1..n /\ e \in Elements /\ e \in Nodes
      /\ head.node = chain[HeadAt]
  BY <1>1, HeadInChain, NodesAreTold
<1>3. /\ popped' = Append(popped, e) /\ popped' \in Seq(Elements)
      /\ Len(popped') = Len(popped) + 1 /\ popped'[Len(popped) + 1] = e
      /\ \A i \in 1..Len(popped) : popped'[i] = popped[i]
  BY <1>1, <1>2 DEF TakeElement, Types
<1>4. HeadAt' = HeadAt + 1
  BY <1>1, <1>3 DEF HeadAt
<1>5. head' \in Pointers /\ head'.node = e
  BY <1>2, NodesAreTold
<1>6. /\ place'[Popper] = "idle" /\ \A q \in Pushers : place'[q] = place[q]
  BY <1>1 DEF Types
<1>7. \A q \in Pushers : (Unlinked(q)' <=> Unlinked(q)) /\ MyNode(q)' = MyNode(q)
  BY <1>6 DEF Unlinked, MyNode
<1>8. IsChain(chain)'
  BY <1>1, <1>7, ChainKept
<1>9. Ends(chain)'
  <2> DEFINE mine == {MyNode(q) : q \in {r \in Pushers : Unlinked(r)}}
             linked(i) == {chain[j] : j \in i..n}
  <2>1. mine' = mine
    BY <1>7
  <2>2. linked(HeadAt) = linked(HeadAt + 1) \cup {chain[HeadAt]}
    <3>1. HeadAt..n = ((HeadAt + 1)..n) \cup {HeadAt}
      BY <1>2
    <3> QED BY <3>1
  <2>3. chain[HeadAt] \notin mine
    BY <1>1, <1>2, NodesOfChain
  <2>4. chain[HeadAt] \notin linked(HeadAt + 1)
    <3>1. \A j \in (HeadAt + 1)..n : j \in 1..n /\ j # HeadAt
      BY <1>2
    <3> QED BY <1>1, <1>2, <3>1 DEF IsChain
  <2>5. allocated' = allocated \ {chain[HeadAt]}
    BY <1>2 DEF TakeElement
  <2>6. allocated = linked(HeadAt) \cup mine
    BY <1>1 DEF Ends
  <2> HIDE DEF mine
  <2>7. allocated' = linked(HeadAt + 1) \cup mine
    <3> HIDE DEF linked
    <3> QED BY <2>2, <2>3, <2>4, <2>5, <2>6
  <2>8. \A i \in 1..(Len(popped) + 1) : popped'[i] = chain[i + 1]
    <3>1. \A i \in 1..(Len(popped) + 1) : i \in 1..Len(popped) \/ i = Len(popped) + 1
      BY <1>1
    <3> QED BY <1>1, <1>3, <3>1 DEF Ends
  <2>9. /\ HeadAt' <= Len(chain)
        /\ \A i \in 1..Len(popped') : popped'[i] = chain[i + 1]
        /\ allocated' = (IF place'[Popper] = "gone" THEN {} ELSE {chain[i] : i \in HeadAt'..Len(chain)}) \cup mine'
        /\ head'.node = IF place'[Popper] = "gone" THEN NullNode ELSE chain[HeadAt']
        /\ place'[Popper] # "reset"
    BY <1>2, <1>3, <1>4, <1>5, <1>6, <2>1, <2>7, <2>8
  <2> QED BY <2>9 DEF Ends, mine
<1> QED BY <1>3, <1>4, <1>5, <1>8, <1>9

LEMMA TakeHolds ==
    ASSUME NEW chain \in Seq(Nodes), InvWith(chain), Take, my[Popper].next.node # NullNode,
           UNCHANGED implementation
    PROVE  InvWith(chain)'
<1>1. /\ Types /\ Places /\ IsChain(chain) /\ Ends(chain) /\ GenericTail(chain) /\ DcasTail(chain)
      /\ HeadAt \in Nat /\ Popper \in QueueThreads /\ Popper \notin Pushers
      /\ \A q \in Pushers : q \in QueueThreads /\ q # Popper
  BY Facts
<1>2. /\ implementation = "dcas" /\ place[Popper] = "take" /\ DcasPopper(chain)
      /\ \A q \in Pushers : DcasPusher(chain, q)
  <2>1. implementation = "dcas" /\ place[Popper] = "take"
    BY <1>1 DEF Take, Places, PopperPlaces
  <2> QED BY <2>1, Facts
<1>3. /\ my[Popper].next.node # NullNode /\ my[Popper].head.node = head.node
      /\ HeadAt < Len(chain) /\ my[Popper].next.node = chain[HeadAt + 1]
      /\ HeadAt < Position(tail) /\ my[Popper].head.counter + 1 \in Nat
  <2>1. my[Popper].head.counter + 1 \in Nat
    BY <1>1 DEF Types, Pointers
  <2> QED BY <1>2, <2>1, HeadInChain DEF DcasPopper
<1>4. /\ head' = Pointer(chain[HeadAt + 1], my[Popper].head.counter + 1)
      /\ TakeElement(head.node, chain[HeadAt + 1])
      /\ Return(Popper)
      /\ UNCHANGED <<tail, next, headLock, tailLock, pushes, ending>>
  BY <1>3 DEF Take
<1>5. place' = [place EXCEPT ![Popper] = "idle"]
  BY <1>4 DEF Return
<1>6. /\ IsChain(chain)' /\ Ends(chain)' /\ HeadAt' = HeadAt + 1
      /\ popped' \in Seq(Elements) /\ head' \in Pointers
  BY <1>2, <1>3, <1>4, <1>5, HeadMoves
<1>7. my' \in [QueueThreads -> [head : Pointers, tail : Pointers, next : Pointers]]
      /\ \A q \in Pushers : my'[q] = my[q]
  <2>1. my' = [my EXCEPT ![Popper] = [head |-> NoPointer, tail |-> NoPointer, next |-> NoPointer]]
    BY <1>4 DEF Return
  <2> QED BY <1>1, <2>1, NodesAreTold DEF Types
<1>8. /\ place'[Popper] = "idle" /\ \A q \in Pushers : place'[q] = place[q]
      /\ place' \in [QueueThreads -> PlaceNames]
  BY <1>1, <1>5 DEF Types, PlaceNames
<1>9. Types'
  BY <1>1, <1>4, <1>6, <1>7, <1>8 DEF Types
<1>10. Places'
  <2>1. PusherPlaces' = PusherPlaces /\ PopperPlaces' = PopperPlaces /\ "idle" \in PopperPlaces
    BY DEF PusherPlaces, PopperPlaces
  <2> QED BY <1>1, <1>2, <1>4, <1>8, <2>1 DEF Places
<1>11. GenericTail(chain)' /\ DcasPopper(chain)'
  BY <1>2, <1>8 DEF GenericTail, DcasPopper
<1>12. /\ Position(tail) \in 1..Len(chain) /\ Position(tail) \in {Len(chain) - 1, Len(chain)}
       /\ tail.node = chain[Position(tail)] /\ tail.counter \in Nat
  BY <1>2, TailInChain
<1>13. DcasTail(chain)'
  BY <1>1, <1>3, <1>4, <1>6, <1>12 DEF DcasTail, Position
<1>14. ASSUME NEW q \in Pushers PROVE DcasPusher(chain, q)'
  <2>1. /\ Position(tail) <= Position(tail)' /\ Position(tail) <= Len(chain) /\ Len(chain) <= Len(chain)
    BY <1>4, <1>12 DEF Position
  <2> QED BY <1>1, <1>2, <1>4, <1>7, <1>8, <1>9, <2>1, PusherKept
<1> QED BY <1>6, <1>9, <1>10, <1>11, <1>13, <1>14 DEF InvWith, QueueIs
-------------------------------------------------------------------------------
\* threadsafe_queue_impl_generic: the mutexes keep pushers from one another.

\* A pusher moves or takes or releases the mutex, and nothing else happens.
LEMMA LockingPusherMoves ==
    ASSUME NEW chain \in Seq(Nodes), InvWith(chain), implementation = "generic",
           NEW p \in Pushers, place[p] # "idle", NEW location \in PusherPlaces,
           UNCHANGED <<implementation, head, next, allocated, headLock, my, pushes, popped, ending>>,
           place' = [place EXCEPT ![p] = location],
           location \in {"idle", "swing"} <=> place[p] \in {"idle", "swing"},
           tailLock \in {NullNode, p}, tailLock' = IF location \in {"link", "swing"} THEN p ELSE NullNode,
           tail' \in Pointers, GenericTail(chain)'
    PROVE  InvWith(chain)'
<1>1. /\ Types /\ Places /\ Popper \notin Pushers /\ Popper \in QueueThreads /\ p \in QueueThreads
  BY Facts
<1>2. Types'
  <2>1. place' \in [QueueThreads -> PlaceNames]
    BY <1>1 DEF Types, PusherPlaces, PlaceNames
  <2> QED BY <1>1, <2>1 DEF Types
<1>3. /\ place'[p] = location /\ \A q \in Pushers \ {p} : place'[q] = place[q]
      /\ place'[Popper] = place[Popper] /\ ~ending /\ pushes[p] > 0
  BY <1>1 DEF Types, Places, QueueThreads
<1>4. Places'
  <2>1. PusherPlaces' = PusherPlaces /\ PopperPlaces' = PopperPlaces
    BY DEF PusherPlaces, PopperPlaces
  <2>2. \A q \in Pushers : place'[q] \in {"link", "swing"} <=> tailLock' = q
    <3>1. \A q \in Pushers : q # NullNode
      BY QueueAssumptions
    <3> QED BY <1>1, <1>3, <3>1 DEF Places
  <2> QED BY <1>1, <1>3, <2>1, <2>2 DEF Places
<1>5. \A q \in Pushers : Unlinked(q)' <=> Unlinked(q)
  BY <1>1, <1>3 DEF Unlinked
<1>6. DcasTail(chain)'
  BY DEF DcasTail
<1> QED BY <1>1, <1>2, <1>3, <1>4, <1>5, <1>6, QuietStep

LEMMA LockTailHolds ==
    ASSUME NEW chain \in Seq(Nodes), InvWith(chain),
           NEW p \in Pushers, LockTail(p), UNCHANGED implementation
    PROVE  InvWith(chain)'
<1>1. Types /\ Places /\ GenericTail(chain) /\ p \in QueueThreads /\ Popper \in QueueThreads /\ p # Popper
  BY Facts
<1>2. implementation = "generic" /\ place[p] = "lock_tail" /\ tailLock = NullNode
  BY <1>1 DEF LockTail, Places, PusherPlaces, Types
<1>3. "link" \in PusherPlaces /\ place' = [place EXCEPT ![p] = "link"]
  BY <1>2 DEF PusherPlaces, LockTail, MoveTo
<1>4. /\ \A q \in Pushers : place'[q] = "swing" <=> place[q] = "swing"
      /\ place'[Popper] = place[Popper]
  BY <1>1, <1>2, <1>3 DEF Types, QueueThreads
<1>5. GenericTail(chain)'
  BY <1>1, <1>4 DEF LockTail, GenericTail, MyNode
<1> QED BY <1>1, <1>2, <1>3, <1>5, LockingPusherMoves DEF LockTail, Types

LEMMA GenericSwingHolds ==
    ASSUME NEW chain \in Seq(Nodes), InvWith(chain),
           NEW p \in Pushers, GenericSwing(p), UNCHANGED implementation
    PROVE  InvWith(chain)'
<1>1. Types /\ Places /\ GenericTail(chain) /\ p \in QueueThreads /\ Popper \in QueueThreads /\ p # Popper
  BY Facts
<1>2. implementation = "generic" /\ place[p] = "swing" /\ tailLock = p /\ place[Popper] # "gone"
  BY <1>1 DEF GenericSwing, Places
<1>3. "idle" \in PusherPlaces /\ place' = [place EXCEPT ![p] = "idle"]
  BY <1>2 DEF PusherPlaces, GenericSwing, MoveTo
<1>4. MyNode(p) = chain[Len(chain)] /\ MyNode(p) \in Nodes
  BY <1>1, <1>2, MyNodeIsElement, NodesAreTold DEF GenericTail
<1>5. tail' = Pointer(MyNode(p), 0) /\ tail' \in Pointers /\ tail'.node = MyNode(p)
  BY <1>4, NodesAreTold DEF GenericSwing
<1>6. \A q \in Pushers : place'[q] # "swing"
  BY <1>1, <1>2, <1>3 DEF Types, Places, QueueThreads
<1>7. GenericTail(chain)'
  BY <1>4, <1>5, <1>6 DEF GenericTail
<1> QED BY <1>2, <1>3, <1>5, <1>7, LockingPusherMoves DEF GenericSwing

LEMMA GenericLinkHolds ==
    ASSUME NEW chain \in Seq(Nodes), InvWith(chain),
           NEW p \in Pushers, GenericLink(p), UNCHANGED implementation
    PROVE  \E longer \in Seq(Nodes) : longer = Append(chain, MyNode(p)) /\ InvWith(longer)'
<1>1. /\ Types /\ Places /\ IsChain(chain) /\ GenericTail(chain)
      /\ p \in QueueThreads /\ Popper \in QueueThreads /\ p # Popper /\ Popper \notin Pushers
  BY Facts
<1>2. /\ implementation = "generic" /\ place[p] = "link" /\ tailLock = p
      /\ place[Popper] # "gone" /\ ~ending
      /\ \A q \in Pushers : place[q] # "swing"
  BY <1>1 DEF GenericLink, Places
<1> DEFINE m == MyNode(p)
           longer == Append(chain, m)
<1>3. tail.node = chain[Len(chain)]
  BY <1>1, <1>2 DEF GenericTail
<1>4. m \in Nodes
  BY <1>1, <1>2, MyNodeIsElement, NodesAreTold
<1>5. /\ next' = [next EXCEPT ![chain[Len(chain)]] = Pointer(m, 0)]
      /\ place' = [place EXCEPT ![p] = "swing"]
      /\ UNCHANGED <<head, tail, allocated, headLock, tailLock, my, pushes, popped, ending, crashed>>
  BY <1>3 DEF GenericLink, MoveTo
<1>6. longer \in Seq(Nodes) /\ m' = m /\ 0 \in Nat
  BY <1>4, <1>5 DEF MyNode
<1> HIDE DEF m, longer
<1> SUFFICES ASSUME NEW long, long = longer PROVE InvWith(long)'
  BY <1>6 DEF longer, m
<1>7. IsChain(long)' /\ Ends(long)' /\ next' \in [Nodes -> Pointers] /\ long \in Seq(Nodes)
  BY <1>2, <1>4, <1>5, <1>6, ChainGrows DEF m, longer
<1>8. Len(long) = Len(chain) + 1 /\ long[Len(chain) + 1] = m
  BY <1>4 DEF longer
<1>9. /\ place'[p] = "swing" /\ place'[Popper] = place[Popper]
      /\ \A q \in Pushers \ {p} : place'[q] = place[q]
      /\ place' \in [QueueThreads -> PlaceNames]
  BY <1>1, <1>5 DEF Types, QueueThreads, PlaceNames
<1>10. Types'
  BY <1>1, <1>5, <1>7, <1>9 DEF Types
<1>11. Places'
  <2>1. PusherPlaces' = PusherPlaces /\ PopperPlaces' = PopperPlaces /\ "swing" \in PusherPlaces
    BY <1>2 DEF PusherPlaces, PopperPlaces
  <2> QED BY <1>1, <1>2, <1>5, <1>9, <2>1 DEF Places
<1>12. GenericTail(long)'
  <2>1. long[Len(long)] = m /\ MyNode(p)' = m
    BY <1>6, <1>7, <1>8 DEF m
  <2>2. \A q \in Pushers : place'[q] = "swing" => q = p
    BY <1>2, <1>9
  <2> QED BY <1>9, <2>1, <2>2 DEF GenericTail
<1>13. DcasTail(long)' /\ implementation' # "dcas"
  BY <1>2 DEF DcasTail
<1> QED BY <1>7, <1>10, <1>11, <1>12, <1>13 DEF InvWith, QueueIs

\* The popping thread moves, and nothing else happens.
LEMMA LockingPopperMoves ==
    ASSUME NEW chain \in Seq(Nodes), InvWith(chain), implementation = "generic",
           NEW location \in PopperPlaces, place[Popper] # "gone", location # "gone",
           UNCHANGED <<implementation, head, tail, next, allocated, tailLock, my, pushes, popped, ending>>,
           place' = [place EXCEPT ![Popper] = location],
           headLock' = IF location = "pop" THEN Popper ELSE NullNode,
           location = "reset" => ending /\ HeadAt = Len(chain)
    PROVE  InvWith(chain)'
<1>1. /\ Types /\ Places /\ GenericTail(chain) /\ Popper \notin Pushers /\ Popper \in QueueThreads
  BY Facts
<1>2. Types'
  <2>1. place' \in [QueueThreads -> PlaceNames]
    BY <1>1 DEF Types, PopperPlaces, PlaceNames
  <2> QED BY <1>1, <2>1 DEF Types
<1>3. place'[Popper] = location /\ \A q \in Pushers : place'[q] = place[q]
  BY <1>1 DEF Types, QueueThreads
<1>4. Places'
  <2>1. PusherPlaces' = PusherPlaces /\ PopperPlaces' = PopperPlaces
    BY DEF PusherPlaces, PopperPlaces
  <2> QED BY <1>1, <1>3, <2>1 DEF Places
<1>5. \A q \in Pushers : Unlinked(q)' <=> Unlinked(q)
  BY <1>3 DEF Unlinked
<1>6. DcasTail(chain)' /\ GenericTail(chain)'
  BY <1>1, <1>3 DEF DcasTail, GenericTail, MyNode
<1> QED BY <1>1, <1>2, <1>3, <1>4, <1>5, <1>6, QuietStep

LEMMA GenericPopHolds ==
    ASSUME NEW chain \in Seq(Nodes), InvWith(chain), GenericPop, UNCHANGED implementation
    PROVE  InvWith(chain)'
<1>1. /\ Types /\ Places /\ IsChain(chain) /\ GenericTail(chain) /\ HeadAt \in Nat
      /\ Popper \in QueueThreads /\ Popper \notin Pushers
  BY Facts
<1>2. implementation = "generic" /\ place[Popper] = "pop"
  BY <1>1 DEF GenericPop, Places, PopperPlaces, Types
<1>3. CASE next[head.node].node = NullNode
  <2> DEFINE location == IF ending THEN "reset" ELSE "idle"
  <2>1. location \in PopperPlaces /\ location \in {"reset", "idle"} /\ place' = [place EXCEPT ![Popper] = location]
    BY <1>2, <1>3 DEF PopperPlaces, GenericPop, MoveTo
  <2>2. HeadAt = Len(chain)
    BY <1>2, <1>3, HeadInChain
  <2>3. location = "reset" => ending
    OBVIOUS
  <2> HIDE DEF location
  <2> QED BY <1>2, <1>3, <2>1, <2>2, <2>3, LockingPopperMoves DEF GenericPop
<1>4. CASE next[head.node].node # NullNode
  <2>1. HeadAt < Len(chain) /\ next[head.node].node = chain[HeadAt + 1] /\ 0 \in Nat
    BY <1>2, <1>4, HeadInChain
  <2>2. /\ head' = Pointer(chain[HeadAt + 1], 0)
        /\ TakeElement(head.node, chain[HeadAt + 1])
        /\ place' = [place EXCEPT ![Popper] = "idle"]
        /\ headLock' = NullNode
        /\ UNCHANGED <<tail, next, tailLock, my, pushes, ending, crashed>>
    BY <1>4, <2>1 DEF GenericPop, MoveTo
  <2>3. /\ IsChain(chain)' /\ Ends(chain)' /\ popped' \in Seq(Elements) /\ head' \in Pointers
    BY <1>2, <2>1, <2>2, HeadMoves
  <2>4. /\ place'[Popper] = "idle" /\ \A q \in Pushers : place'[q] = place[q]
        /\ place' \in [QueueThreads -> PlaceNames]
    BY <1>1, <2>2 DEF Types, PlaceNames, QueueThreads
  <2>5. Types'
    BY <1>1, <2>2, <2>3, <2>4 DEF Types
  <2>6. Places'
    <3>1. PusherPlaces' = PusherPlaces /\ PopperPlaces' = PopperPlaces /\ "idle" \in PopperPlaces
      BY DEF PusherPlaces, PopperPlaces
    <3> QED BY <1>1, <1>2, <2>2, <2>4, <3>1 DEF Places
  <2>7. GenericTail(chain)' /\ DcasTail(chain)' /\ implementation' # "dcas"
    BY <1>1, <1>2, <2>2, <2>4 DEF GenericTail, DcasTail, MyNode
  <2> QED BY <2>3, <2>5, <2>6, <2>7 DEF InvWith, QueueIs
<1> QED BY <1>3, <1>4

\* try_pop begins, in either implementation, and LockHead takes the mutex.
LEMMA PopBegins ==
    ASSUME NEW chain \in Seq(Nodes), InvWith(chain), try_pop \/ LockHead, UNCHANGED implementation
    PROVE  InvWith(chain)'
<1>1. /\ Types /\ Places /\ DcasTail(chain) /\ Popper \in QueueThreads
  BY Facts
<1>2. CASE try_pop /\ implementation = "dcas"
  <2>1. /\ place[Popper] = "idle" /\ place' = [place EXCEPT ![Popper] = "load_head"]
        /\ UNCHANGED <<head, tail, next, allocated, headLock, tailLock, my, pushes, popped, ending>>
        /\ "load_head" \in PopperPlaces
    BY <1>2 DEF try_pop, MoveTo, PopperPlaces
  <2>2. place'[Popper] = "load_head"
    BY <1>1, <2>1 DEF Types
  <2>3. DcasPopper(chain)'
    BY <2>2 DEF DcasPopper
  <2>4. DcasTail(chain)' /\ Position(tail) <= Position(tail)' /\ tail' \in Pointers
    BY <1>1, <1>2, <2>1, <2>2 DEF DcasTail, Position, HeadAt, Types, Pointers
  <2>5. /\ my' \in [QueueThreads -> [head : Pointers, tail : Pointers, next : Pointers]]
        /\ \A t \in QueueThreads \ {Popper} : my'[t] = my[t]
    BY <1>1, <2>1 DEF Types
  <2> QED BY <1>2, <2>1, <2>3, <2>4, <2>5, PopperMoves
<1>3. CASE try_pop /\ implementation = "generic"
  <2>1. /\ place[Popper] = "idle" /\ place' = [place EXCEPT ![Popper] = "lock_head"]
        /\ UNCHANGED <<head, tail, next, allocated, headLock, tailLock, my, pushes, popped, ending>>
        /\ "lock_head" \in PopperPlaces /\ headLock' = NullNode
    BY <1>1, <1>3 DEF try_pop, MoveTo, PopperPlaces, Places
  <2> QED BY <1>3, <2>1, LockingPopperMoves
<1>4. CASE LockHead
  <2>1. implementation = "generic" /\ place[Popper] = "lock_head"
    BY <1>1, <1>4 DEF LockHead, Places, PopperPlaces, Types
  <2>2. "pop" \in PopperPlaces /\ place' = [place EXCEPT ![Popper] = "pop"]
    BY <1>4, <2>1 DEF LockHead, MoveTo, PopperPlaces
  <2> QED BY <1>4, <2>1, <2>2, LockingPopperMoves DEF LockHead
<1> QED BY <1>1, <1>2, <1>3, <1>4 DEF Types
-------------------------------------------------------------------------------
\* The end of the queue: no thread is in a call, and the last node goes.
LEMMA DestroyHolds ==
    ASSUME NEW chain \in Seq(Nodes), InvWith(chain), destroy, UNCHANGED implementation
    PROVE  InvWith(chain)'
<1>1. /\ Types /\ Places /\ IsChain(chain) /\ GenericTail(chain) /\ DcasTail(chain) /\ HeadAt \in Nat
      /\ Popper \in QueueThreads /\ Popper \notin Pushers
      /\ \A q \in Pushers : q \in QueueThreads
  BY Facts
<1>2. /\ ending' = TRUE /\ place[Popper] = "idle" /\ \A q \in Pushers : place[q] = "idle"
      /\ UNCHANGED <<head, next, allocated, headLock, tailLock, my, pushes, popped, crashed>>
  BY <1>1 DEF destroy
<1>3. /\ HeadAt \in 1..Len(chain) /\ head.node = chain[HeadAt]
      /\ next[head.node].node = NullNode <=> HeadAt = Len(chain)
      /\ HeadAt < Len(chain) => next[head.node].node = chain[HeadAt + 1] /\ chain[HeadAt + 1] \in Nodes
  BY <1>2, HeadInChain, NodesAreTold
<1>4. place' \in {place, [place EXCEPT ![Popper] = "reset"]}
  BY DEF destroy, MoveTo
<1>5. /\ place'[Popper] \in {"idle", "reset"} /\ \A q \in Pushers : place'[q] = "idle"
      /\ place' \in [QueueThreads -> PlaceNames]
  BY <1>1, <1>2, <1>4 DEF Types, PlaceNames
<1>6. place'[Popper] = "reset" => HeadAt = Len(chain)
  BY <1>1, <1>2, <1>3 DEF destroy, Types, MoveTo
<1>7. tail' \in Pointers /\ GenericTail(chain)' /\ DcasTail(chain)'
  <2>1. CASE implementation = "generic"
    <3>1. tail.node = chain[Len(chain)]
      BY <1>1, <1>2, <2>1 DEF GenericTail
    <3>2. next[tail.node].node = NullNode
      BY <1>1, <3>1, NodesOfChain DEF NoPointer, Pointer
    <3>3. tail' = tail
      BY <3>2 DEF destroy
    <3> QED BY <1>1, <1>5, <2>1, <3>1, <3>3 DEF Types, GenericTail, DcasTail
  <2>2. CASE implementation = "dcas"
    <3>1. /\ Position(tail) \in 1..Len(chain) /\ tail.counter \in Nat /\ tail \in Pointers
          /\ tail.node = chain[Position(tail)] /\ Position(tail) \in {Len(chain) - 1, Len(chain)}
          /\ HeadAt <= Position(tail)
      BY <1>1, <1>2, <2>2, TailInChain DEF Types
    <3>2. CASE tail' = tail
      BY <1>2, <2>2, <3>1, <3>2 DEF GenericTail, DcasTail, HeadAt, Position
    <3>3. CASE tail' # tail
      <4>1. /\ head.node = tail.node /\ next[tail.node].node # NullNode
            /\ tail' = Pointer(next[tail.node].node, tail.counter + 1)
        BY <3>3 DEF destroy
      <4>2. Position(tail) = HeadAt /\ HeadAt < Len(chain)
        <5>1. chain[HeadAt] = chain[Position(tail)]
          BY <1>3, <3>1, <4>1
        <5>2. HeadAt = Position(tail)
          BY <1>1, <1>3, <3>1, <5>1 DEF IsChain
        <5>3. HeadAt # Len(chain)
          BY <1>3, <4>1
        <5> QED BY <1>3, <5>2, <5>3
      <4>3. tail' \in Pointers /\ tail'.node = chain[HeadAt + 1] /\ Position(tail)' = HeadAt + 1
        BY <1>3, <3>1, <4>1, <4>2, NodesAreTold DEF Position
      <4> QED BY <1>2, <2>2, <3>1, <4>2, <4>3 DEF GenericTail, DcasTail, HeadAt
    <3> QED BY <3>2, <3>3
  <2> QED BY <1>1, <2>1, <2>2 DEF Types
<1>8. Types'
  BY <1>1, <1>2, <1>5, <1>7 DEF Types
<1>9. Places'
  <2>1. PusherPlaces' = PusherPlaces /\ PopperPlaces' = PopperPlaces
        /\ "idle" \in PusherPlaces /\ "idle" \in PopperPlaces /\ "reset" \in PopperPlaces
    BY DEF PusherPlaces, PopperPlaces
  <2>2. \A q \in Pushers : implementation = "generic" => tailLock # q
    BY <1>1, <1>2 DEF Places
  <2>3. headLock = NullNode
    BY <1>1, <1>2 DEF Places
  <2> QED BY <1>1, <1>2, <1>5, <2>1, <2>2, <2>3 DEF Places
<1>10. \A q \in Pushers : Unlinked(q)' <=> Unlinked(q)
  BY <1>2, <1>5 DEF Unlinked
<1>11. DcasPopper(chain)' /\ \A q \in Pushers : DcasPusher(chain, q)'
  BY <1>5 DEF DcasPopper, DcasPusher
<1> QED BY <1>2, <1>5, <1>6, <1>7, <1>8, <1>9, <1>10, <1>11, QuietStep

LEMMA ResetHolds ==
    ASSUME NEW chain \in Seq(Nodes), InvWith(chain), reset_last_node, UNCHANGED implementation
    PROVE  InvWith(chain)'
<1>1. /\ Types /\ Places /\ IsChain(chain) /\ Ends(chain) /\ HeadAt \in Nat
      /\ Popper \in QueueThreads /\ Popper \notin Pushers
      /\ \A q \in Pushers : q \in QueueThreads
  BY Facts
<1>2. /\ place[Popper] = "reset" /\ ending /\ \A q \in Pushers : place[q] = "idle"
      /\ place' = [place EXCEPT ![Popper] = "gone"]
      /\ head' = NoPointer /\ tail' = NoPointer /\ allocated' = allocated \ {head.node}
      /\ UNCHANGED <<next, headLock, tailLock, my, pushes, popped, ending, crashed>>
  BY <1>1 DEF reset_last_node, Places, MoveTo
<1>3. /\ place'[Popper] = "gone" /\ \A q \in Pushers : place'[q] = place[q]
      /\ place' \in [QueueThreads -> PlaceNames]
  BY <1>1, <1>2 DEF Types, PlaceNames
<1>4. HeadAt = Len(chain) /\ head.node = chain[HeadAt] /\ HeadAt \in 1..Len(chain)
  BY <1>1, <1>2, HeadInChain DEF Ends
<1>5. Types'
  BY <1>1, <1>2, <1>3, NodesAreTold DEF Types
<1>6. Places'
  <2>1. PusherPlaces' = PusherPlaces /\ PopperPlaces' = PopperPlaces /\ "gone" \in PopperPlaces
    BY DEF PusherPlaces, PopperPlaces
  <2>2. headLock = NullNode
    BY <1>1, <1>2 DEF Places
  <2> QED BY <1>1, <1>2, <1>3, <2>1, <2>2 DEF Places
<1>7. \A q \in Pushers : ~Unlinked(q) /\ ~Unlinked(q)'
  BY <1>2, <1>3 DEF Unlinked
<1>8. IsChain(chain)'
  BY <1>1, <1>2, <1>7, ChainKept
<1>9. Ends(chain)'
  <2> DEFINE mine == {MyNode(q) : q \in {r \in Pushers : Unlinked(r)}}
  <2>1. mine = {} /\ mine' = {}
    BY <1>7
  <2>2. {chain[i] : i \in HeadAt..Len(chain)} = {chain[HeadAt]}
    BY <1>4
  <2> HIDE DEF mine
  <2>3. allocated' = {}
    BY <1>1, <1>2, <1>4, <2>1, <2>2 DEF Ends, mine
  <2>4. head'.node = NullNode /\ HeadAt' = HeadAt
    BY <1>2 DEF NoPointer, Pointer, HeadAt
  <2> QED BY <1>1, <1>2, <1>3, <1>4, <2>1, <2>3, <2>4 DEF Ends, mine
<1>10. /\ GenericTail(chain)' /\ DcasTail(chain)' /\ DcasPopper(chain)'
       /\ \A q \in Pushers : DcasPusher(chain, q)'
  BY <1>2, <1>3 DEF GenericTail, DcasTail, DcasPopper, DcasPusher
<1> QED BY <1>5, <1>6, <1>8, <1>9, <1>10 DEF InvWith, QueueIs

-------------------------------------------------------------------------------
\* A null pointer that is followed leaves everything as it was.
LEMMA CrashHolds ==
    ASSUME NEW chain \in Seq(Nodes), InvWith(chain), Take, my[Popper].next.node = NullNode,
           UNCHANGED implementation
    PROVE  InvWith(chain)'
<1>1. UNCHANGED <<implementation, head, tail, next, allocated, headLock, tailLock, place, my,
                  pushes, popped, ending>>
  BY DEF Take
<1>2. Types' /\ Places'
  BY <1>1 DEF InvWith, Types, Places, PusherPlaces, PopperPlaces
<1>3. \A q \in Pushers : Unlinked(q)' <=> Unlinked(q)
  BY <1>1 DEF Unlinked
<1>4. GenericTail(chain)' /\ DcasTail(chain)'
  BY <1>1, Facts DEF GenericTail, DcasTail, MyNode, Position, HeadAt
<1>5. implementation = "dcas" => DcasPopper(chain)' /\ \A q \in Pushers : DcasPusher(chain, q)'
  BY <1>1, Facts DEF DcasPopper, DcasPusher, ReadFromTail, MyNode, Position, HeadAt
<1> QED BY <1>1, <1>2, <1>3, <1>4, <1>5, QuietStep

LEMMA StepHolds ==
    ASSUME NEW chain \in Seq(Nodes), InvWith(chain), TQNext
    PROVE  \E longer \in Seq(Nodes) : InvWith(longer)'
<1>1. UNCHANGED implementation
  BY DEF TQNext
<1>2. CASE \E p \in Pushers : push(p)
  BY <1>1, <1>2, PushHolds
<1>3. CASE \E p \in Pushers : PushStep(p)
  BY <1>1, <1>3, LockTailHolds, GenericLinkHolds, GenericSwingHolds, LoadTailHolds, LoadNextHolds,
     LinkHolds, HelpHolds, SwingReturns DEF PushStep
<1>4. CASE try_pop \/ PopStep
  BY <1>1, <1>4, PopBegins, GenericPopHolds, LoadHeadHolds, LoadHeadNextHolds,
     LoadTailAndCompareHolds, TakeHolds, CrashHolds, HelpPopHolds, ResetHolds DEF PopStep
<1>5. CASE destroy
  BY <1>1, <1>5, DestroyHolds
<1> QED BY <1>2, <1>3, <1>4, <1>5 DEF TQNext

LEMMA InvStep == Inv /\ [TQNext]_tqVars => Inv'
<1> SUFFICES ASSUME NEW chain \in Seq(Nodes), InvWith(chain), [TQNext]_tqVars
             PROVE  \E longer \in Seq(Nodes) : InvWith(longer)'
  BY DEF Inv
<1>1. CASE TQNext
  BY <1>1, StepHolds
<1>2. CASE UNCHANGED tqVars
  <2>1. UNCHANGED <<implementation, head, tail, next, allocated, headLock, tailLock, place, my,
                    pushes, popped, ending>>
    BY <1>2 DEF tqVars
  <2>2. Types' /\ Places'
    BY <2>1 DEF InvWith, Types, Places, PusherPlaces, PopperPlaces
  <2>3. \A q \in Pushers : Unlinked(q)' <=> Unlinked(q)
    BY <2>1 DEF Unlinked
  <2>4. GenericTail(chain)' /\ DcasTail(chain)'
    BY <2>1, Facts DEF GenericTail, DcasTail, MyNode, Position, HeadAt
  <2>5. implementation = "dcas" => DcasPopper(chain)' /\ \A q \in Pushers : DcasPusher(chain, q)'
    BY <2>1, Facts DEF DcasPopper, DcasPusher, ReadFromTail, MyNode, Position, HeadAt
  <2> QED BY <2>1, <2>2, <2>3, <2>4, <2>5, QuietStep
<1> QED BY <1>1, <1>2
-------------------------------------------------------------------------------
\* Following next pointers along a chain from one of its nodes visits the rest
\* of the chain: there is a function with this value that satisfies the
\* recursive equation, and going backwards from the last node no other does.
LEMMA FollowingChain ==
    ASSUME NEW links, NEW chain \in Seq(Nodes), Len(chain) > 0,
           \A i, j \in 1..Len(chain) : chain[i] = chain[j] => i = j,
           \A i \in 1..(Len(chain) - 1) : links[chain[i]].node = chain[i + 1],
           \A x \in Nodes : (\A i \in 1..(Len(chain) - 1) : chain[i] # x) => links[x] = NoPointer
    PROVE  \A i \in 1..Len(chain) : Following(links)[chain[i]] = SubSeq(chain, i, Len(chain))
<1> DEFINE n == Len(chain)
           pos(x) == CHOOSE i \in 1..n : chain[i] = x
           g == [x \in Nodes |-> IF \E i \in 1..n : chain[i] = x THEN SubSeq(chain, pos(x), n) ELSE <<x>>]
           f == Following(links)
<1>1. n \in Nat \ {0} /\ \A i \in 1..n : chain[i] \in Nodes
  OBVIOUS
<1>2. ASSUME NEW i \in 1..n PROVE g[chain[i]] = SubSeq(chain, i, n)
  <2>1. pos(chain[i]) \in 1..n /\ chain[pos(chain[i])] = chain[i]
    OBVIOUS
  <2>2. pos(chain[i]) = i
    <3> HIDE DEF pos
    <3> QED BY <2>1
  <2> HIDE DEF pos
  <2> QED BY <1>1, <2>2
<1>3. links[chain[n]] = NoPointer /\ NoPointer.node = NullNode
  <2>1. \A i \in 1..(n - 1) : i \in 1..n /\ i # n /\ n \in 1..n
    BY <1>1
  <2>2. \A i \in 1..(n - 1) : chain[i] # chain[n]
    BY <2>1
  <2>3. chain[n] \in Nodes
    BY <1>1
  <2> QED BY <2>2, <2>3 DEF NoPointer, Pointer
<1>4. SubSeq(chain, n, n) = <<chain[n]>>
  <2>1. n \in 1..n /\ n \in n..n /\ n + 1 \in Int /\ n < n + 1
    BY <1>1
  <2>2. SubSeq(chain, n, n) = <<chain[n]>> \o SubSeq(chain, n + 1, n)
    BY <2>1, SubSeqRecursiveFirst
  <2>3. SubSeq(chain, n + 1, n) = <<>>
    BY <2>1, SubSeqEmpty
  <2>4. <<chain[n]>> \in Seq(Nodes)
    BY <1>1
  <2> QED BY <2>2, <2>3, <2>4, ConcatEmptySeq
<1>5. ASSUME NEW i \in 1..(n - 1)
      PROVE  /\ SubSeq(chain, i, n) = <<chain[i]>> \o SubSeq(chain, i + 1, n)
             /\ links[chain[i]].node = chain[i + 1] /\ chain[i + 1] # NullNode /\ i + 1 \in 1..n /\ i \in 1..n
  <2>1. i \in 1..n /\ n \in i..n /\ i + 1 \in 1..n
    BY <1>1
  <2>2. SubSeq(chain, i, n) = <<chain[i]>> \o SubSeq(chain, i + 1, n)
    BY <2>1, SubSeqRecursiveFirst
  <2>3. chain[i + 1] # NullNode
    <3>1. NullNode \notin Nodes
      BY NodesAreTold
    <3> QED BY <1>1, <2>1, <3>1
  <2> QED BY <2>1, <2>2, <2>3
<1> HIDE DEF g
<1>6. ASSUME NEW x \in Nodes
      PROVE  g[x] = IF links[x].node = NullNode THEN <<x>> ELSE <<x>> \o g[links[x].node]
  <2>1. CASE x = chain[n]
    <3>1. n \in 1..n /\ links[x].node = NullNode
      BY <1>1, <1>3, <2>1
    <3>2. g[x] = <<x>>
      BY <1>2, <1>4, <2>1, <3>1
    <3> QED BY <3>1, <3>2
  <2>2. ASSUME NEW i \in 1..(n - 1), x = chain[i]
        PROVE  g[x] = IF links[x].node = NullNode THEN <<x>> ELSE <<x>> \o g[links[x].node]
    <3>1. /\ g[x] = SubSeq(chain, i, n) /\ g[chain[i + 1]] = SubSeq(chain, i + 1, n)
          /\ links[x].node = chain[i + 1] /\ links[x].node # NullNode
          /\ SubSeq(chain, i, n) = <<chain[i]>> \o SubSeq(chain, i + 1, n)
      BY <1>2, <1>5, <2>2
    <3> HIDE DEF n
    <3>2. g[x] = <<x>> \o g[links[x].node]
      BY <2>2, <3>1, Zenon
    <3> QED BY <3>1, <3>2
  <2>3. CASE \A i \in 1..n : chain[i] # x
    <3>1. links[x] = NoPointer
      BY <1>1, <2>3
    <3>2. g[x] = <<x>>
      BY <2>3 DEF g
    <3> QED BY <1>3, <3>1, <3>2
  <2>4. \A i \in 1..n : i = n \/ i \in 1..(n - 1)
    BY <1>1
  <2> QED BY <2>1, <2>2, <2>3, <2>4
<1>7. g = [x \in Nodes |-> IF links[x].node = NullNode THEN <<x>> ELSE <<x>> \o g[links[x].node]]
  <2>1. g = [x \in Nodes |-> g[x]]
    BY DEF g
  <2> QED BY <1>6, <2>1
<1>8. f = [x \in Nodes |-> IF links[x].node = NullNode THEN <<x>> ELSE <<x>> \o f[links[x].node]]
  <2> HIDE DEF f
  <2>1. f = CHOOSE h : h = [x \in Nodes |-> IF links[x].node = NullNode THEN <<x>> ELSE <<x>> \o h[links[x].node]]
    BY DEF f, Following
  <2> QED BY <1>7, <2>1
<1> HIDE DEF f
<1> DEFINE F == [i \in 1..n |-> f[chain[i]]]
           G == [i \in 1..n |-> SubSeq(chain, i, n)]
<1>9. F[n] = G[n]
  <2>1. chain[n] \in Nodes /\ links[chain[n]].node = NullNode /\ n \in 1..n
    BY <1>1, <1>3
  <2>2. f[chain[n]] = <<chain[n]>>
    BY <1>8, <2>1
  <2>3. F[n] = f[chain[n]] /\ G[n] = SubSeq(chain, n, n)
    BY <2>1
  <2> HIDE DEF F, G, n
  <2> QED BY <1>4, <2>2, <2>3
<1>10. ASSUME NEW i \in 1..(n - 1), F[i + 1] = G[i + 1] PROVE F[i] = G[i]
  <2>1. f[chain[i]] = <<chain[i]>> \o f[chain[i + 1]]
    <3>1. /\ chain[i] \in Nodes /\ links[chain[i]].node # NullNode
          /\ links[chain[i]].node = chain[i + 1]
      BY <1>1, <1>5
    <3>2. f[chain[i]] = <<chain[i]>> \o f[links[chain[i]].node]
      BY <1>8, <3>1
    <3> QED BY <3>1, <3>2
  <2>2. f[chain[i + 1]] = SubSeq(chain, i + 1, n)
    BY <1>5, <1>10
  <2>3. SubSeq(chain, i, n) = <<chain[i]>> \o SubSeq(chain, i + 1, n) /\ i \in 1..n
    BY <1>5
  <2>4. F[i] = f[chain[i]] /\ G[i] = SubSeq(chain, i, n)
    BY <2>3
  <2> HIDE DEF F, G, n
  <2> QED BY <2>1, <2>2, <2>3, <2>4, Zenon
<1>11. \A i \in 1..n : F[i] = G[i]
  <2>1. n \in Nat \ {0} /\ \A i \in 1..(n - 1) : F[i + 1] = G[i + 1] => F[i] = G[i]
    <3> HIDE DEF F, G, n
    <3> QED BY <1>1, <1>10
  <2> HIDE DEF F, G, n
  <2>2. AgreeFrom(F, G, n)
    BY <1>9, <2>1 DEF AgreeFrom
  <2> QED BY <2>1, <2>2, AgreeDownwards
<1> QED BY <1>11 DEF f
\* The members of a part of a sequence.
LEMMA ToSetOfSubSeq ==
    ASSUME NEW S, NEW s \in Seq(S), NEW m \in 1..Len(s)
    PROVE  ToSet(SubSeq(s, m, Len(s))) = {s[i] : i \in m..Len(s)}
<1> DEFINE n == Len(s)
           piece == SubSeq(s, m, n)
<1>1. n \in Nat /\ m \in Nat \ {0} /\ m <= n /\ \A i \in m..n : s[i] \in S
  OBVIOUS
<1>2. /\ piece \in Seq(S) /\ Len(piece) = n - m + 1
      /\ \A i \in 1..(n - m + 1) : piece[i] = s[m + i - 1]
  BY <1>1, SubSeqProperties
<1>3. DOMAIN piece = 1..(n - m + 1)
  BY <1>1, <1>2
<1> HIDE DEF piece
<1>4. ASSUME NEW x \in ToSet(piece) PROVE \E i \in m..n : x = s[i]
  <2>1. PICK i \in 1..(n - m + 1) : x = piece[i]
    BY <1>3 DEF ToSet
  <2>2. m + i - 1 \in m..n
    BY <1>1
  <2> QED BY <1>2, <2>1, <2>2
<1>5. ASSUME NEW i \in m..n PROVE s[i] \in ToSet(piece)
  <2>1. i - m + 1 \in 1..(n - m + 1) /\ m + (i - m + 1) - 1 = i
    BY <1>1
  <2>2. piece[i - m + 1] = s[i]
    BY <1>2, <2>1
  <2> QED BY <1>3, <2>1, <2>2 DEF ToSet
<1> QED BY <1>4, <1>5 DEF piece

\* What is linked now: the chain from m_Head on.
LEMMA LinkedNodesAre ==
    ASSUME NEW chain \in Seq(Nodes), InvWith(chain), place[Popper] # "gone"
    PROVE  LinkedNodes = SubSeq(chain, HeadAt, Len(chain))
<1>1. IsChain(chain) /\ HeadAt \in 1..Len(chain) /\ head.node = chain[HeadAt]
  BY Facts, HeadInChain
<1>2. \A i \in 1..Len(chain) : Following(next)[chain[i]] = SubSeq(chain, i, Len(chain))
  BY <1>1, FollowingChain DEF IsChain
<1> QED BY <1>1, <1>2 DEF LinkedNodes

\* The same after a step.
LEMMA LinkedNodesWillBe ==
    ASSUME NEW chain \in Seq(Nodes), InvWith(chain)', place'[Popper] # "gone"
    PROVE  LinkedNodes' = SubSeq(chain, HeadAt', Len(chain))
<1>1. /\ IsChain(chain)' /\ Ends(chain)'
      /\ HeadAt' \in Nat \ {0} /\ Len(chain) \in Nat
  BY DEF InvWith, QueueIs, Types, HeadAt
<1>2. HeadAt' \in 1..Len(chain) /\ head'.node = chain[HeadAt']
  BY <1>1 DEF Ends
<1>3. \A i \in 1..Len(chain) : Following(next')[chain[i]] = SubSeq(chain, i, Len(chain))
  BY <1>1, FollowingChain DEF IsChain
<1> QED BY <1>2, <1>3 DEF LinkedNodes

LEMMA NodesInUseHolds == Inv => NodesInUse
<1> SUFFICES ASSUME NEW chain \in Seq(Nodes), InvWith(chain) PROVE NodesInUse
  BY DEF Inv
<1> DEFINE mine == {MyNode(p) : p \in {q \in Pushers : Unlinked(q)}}
<1>1. Ends(chain) /\ NullNode \notin Nodes
  BY Facts, NodesAreTold
<1>2. mine = {MyNode(p) : p \in {q \in Pushers : place[q] \notin {"idle", "swing"}}}
  BY DEF Unlinked
<1>3. CASE place[Popper] = "gone"
  <2>1. head.node = NullNode /\ allocated = {} \cup mine
    BY <1>1, <1>3 DEF Ends
  <2> QED BY <1>2, <2>1 DEF NodesInUse
<1>4. CASE place[Popper] # "gone"
  <2>1. HeadAt \in 1..Len(chain) /\ head.node \in Nodes /\ LinkedNodes = SubSeq(chain, HeadAt, Len(chain))
    BY <1>4, HeadInChain, LinkedNodesAre
  <2>2. ToSet(LinkedNodes) = {chain[i] : i \in HeadAt..Len(chain)}
    BY <2>1, ToSetOfSubSeq
  <2>3. allocated = {chain[i] : i \in HeadAt..Len(chain)} \cup mine
    BY <1>1, <1>4 DEF Ends
  <2> QED BY <1>1, <1>2, <2>1, <2>2, <2>3 DEF NodesInUse
<1> QED BY <1>3, <1>4

\* Whatever the interleaving of any number of pushing threads with the popping
\* one, no node is leaked, and none is freed while it is linked or still to be
\* linked.
THEOREM NoNodeIsLeakedOrFreedEarly == TQSpec => []NodesInUse
<1>1. TQInit => Inv
  BY InitHolds
<1>2. Inv /\ [TQNext]_tqVars => Inv'
  BY InvStep
<1>3. Inv => NodesInUse
  BY NodesInUseHolds
<1> QED BY <1>1, <1>2, <1>3, PTL DEF TQSpec

-------------------------------------------------------------------------------
\* The elements in the queue are those behind m_Head.
Buffer == IF head.node = NullNode THEN <<>> ELSE Tail(LinkedNodes)

LEMMA BufferIs ==
    ASSUME NEW chain \in Seq(Nodes), InvWith(chain)
    PROVE  /\ place[Popper] = "gone" => Buffer = <<>>
           /\ place[Popper] # "gone" => Buffer = SubSeq(chain, HeadAt + 1, Len(chain))
<1>1. CASE place[Popper] = "gone"
  BY <1>1, Facts DEF Ends, Buffer
<1>2. CASE place[Popper] # "gone"
  <2>1. /\ HeadAt \in 1..Len(chain) /\ head.node \in Nodes /\ NullNode \notin Nodes
        /\ LinkedNodes = SubSeq(chain, HeadAt, Len(chain)) /\ Len(chain) \in HeadAt..Len(chain)
    BY <1>2, HeadInChain, LinkedNodesAre, NodesAreTold
  <2>2. Tail(SubSeq(chain, HeadAt, Len(chain))) = SubSeq(chain, HeadAt + 1, Len(chain))
    BY <2>1, HeadTailOfSubSeq
  <2> QED BY <1>2, <2>1, <2>2 DEF Buffer
<1> QED BY <1>1, <1>2

LEMMA BufferWillBe ==
    ASSUME NEW chain \in Seq(Nodes), InvWith(chain)'
    PROVE  /\ place'[Popper] = "gone" => Buffer' = <<>>
           /\ place'[Popper] # "gone" => Buffer' = SubSeq(chain, HeadAt' + 1, Len(chain))
<1>1. /\ IsChain(chain)' /\ Ends(chain)'
      /\ HeadAt' \in Nat \ {0} /\ Len(chain) \in Nat
  BY DEF InvWith, QueueIs, Types, HeadAt
<1>2. CASE place'[Popper] = "gone"
  BY <1>1, <1>2 DEF Ends, Buffer
<1>3. CASE place'[Popper] # "gone"
  <2>1. HeadAt' \in 1..Len(chain) /\ head'.node = chain[HeadAt'] /\ Len(chain) \in HeadAt'..Len(chain)
    BY <1>1, <1>3 DEF Ends
  <2>2. head'.node \in Nodes /\ NullNode \notin Nodes
    BY <2>1, NodesAreTold
  <2>3. LinkedNodes' = SubSeq(chain, HeadAt', Len(chain))
    BY <1>3, LinkedNodesWillBe
  <2>4. Tail(SubSeq(chain, HeadAt', Len(chain))) = SubSeq(chain, HeadAt' + 1, Len(chain))
    BY <2>1, HeadTailOfSubSeq
  <2> QED BY <1>3, <2>2, <2>3, <2>4 DEF Buffer
<1> QED BY <1>2, <1>3

QueueStep == Atomic!Next \/ UNCHANGED Atomic!channel
\* A step that pops nothing and links nothing is a stutter of the queue.
LEMMA StutterOfQueue ==
    ASSUME NEW chain \in Seq(Nodes), InvWith(chain), InvWith(chain)',
           UNCHANGED popped, place[Popper] = "gone" <=> place'[Popper] = "gone"
    PROVE  QueueStep
<1>1. Buffer' = Buffer
  <2>1. HeadAt' = HeadAt
    BY DEF HeadAt
  <2>2. CASE place[Popper] = "gone"
    BY <2>2, BufferIs, BufferWillBe
  <2>3. CASE place[Popper] # "gone"
    <3>1. Buffer = SubSeq(chain, HeadAt + 1, Len(chain))
      BY <2>3, BufferIs
    <3>2. Buffer' = SubSeq(chain, HeadAt' + 1, Len(chain))
      BY <2>3, BufferWillBe
    <3> QED BY <2>1, <3>1, <3>2
  <2> QED BY <2>2, <2>3
<1> QED BY <1>1 DEF QueueStep, Atomic!channel, Buffer

\* Linking the node of a push enters its element.
LEMMA LinkEnters ==
    ASSUME NEW chain \in Seq(Nodes), InvWith(chain), NEW p \in Pushers, place[p] = "link",
           NEW longer \in Seq(Nodes), longer = Append(chain, MyNode(p)), InvWith(longer)',
           UNCHANGED popped, place'[Popper] = place[Popper]
    PROVE  QueueStep
<1> DEFINE m == MyNode(p)
           n == Len(chain)
<1>1. /\ Types /\ Places /\ IsChain(chain) /\ Ends(chain) /\ place[Popper] # "gone" /\ HeadAt' = HeadAt
      /\ Len(popped) \in Nat /\ HeadAt = Len(popped) + 1
  <2>1. place[Popper] # "gone"
    BY Facts DEF Places
  <2> QED BY <2>1, Facts DEF HeadAt
<1>2. m \in Elements /\ m \in Nodes /\ \A i \in 1..n : chain[i] # m
  BY <1>1, MyNodeIsElement, NodesOfChain, NodesAreTold DEF Unlinked
<1>3. /\ n \in Nat \ {0} /\ HeadAt \in 1..n
      /\ Len(longer) = n + 1 /\ longer[n + 1] = m /\ \A i \in 1..n : longer[i] = chain[i] /\ chain[i] \in Nodes
      /\ n + 1 \in (HeadAt + 1)..(n + 1)
  <2>1. n \in Nat \ {0} /\ HeadAt \in 1..n /\ \A i \in 1..n : chain[i] \in Nodes
    BY <1>1, NodesOfChain, HeadInChain
  <2> QED BY <1>2, <2>1
<1>4. Buffer = SubSeq(chain, HeadAt + 1, n) /\ Buffer' = SubSeq(longer, HeadAt + 1, n + 1)
  BY <1>1, <1>3, BufferIs, BufferWillBe
<1> HIDE DEF m, n
<1>5. /\ SubSeq(chain, HeadAt + 1, n) \in Seq(Nodes)
      /\ Len(SubSeq(chain, HeadAt + 1, n)) = n - HeadAt
      /\ \A i \in 1..(n - HeadAt) : SubSeq(chain, HeadAt + 1, n)[i] = chain[HeadAt + i]
  BY <1>3, SubSeqProperties
<1>6. /\ SubSeq(longer, HeadAt + 1, n + 1) \in Seq(Nodes)
      /\ Len(SubSeq(longer, HeadAt + 1, n + 1)) = n - HeadAt + 1
      /\ \A i \in 1..(n - HeadAt + 1) : SubSeq(longer, HeadAt + 1, n + 1)[i] = longer[HeadAt + i]
  <2>1. \A i \in (HeadAt + 1)..(n + 1) : longer[i] \in Nodes
    BY <1>2, <1>3
  <2> QED BY <1>3, <2>1, SubSeqProperties
<1>7. Buffer' = Append(Buffer, m)
  <2> DEFINE old == SubSeq(chain, HeadAt + 1, n)
             new == SubSeq(longer, HeadAt + 1, n + 1)
  <2>1. /\ Append(old, m) \in Seq(Nodes) /\ Len(Append(old, m)) = n - HeadAt + 1
        /\ \A i \in 1..(n - HeadAt) : Append(old, m)[i] = old[i]
        /\ Append(old, m)[n - HeadAt + 1] = m
    BY <1>2, <1>3, <1>5
  <2>2. ASSUME NEW i \in 1..(n - HeadAt + 1) PROVE Append(old, m)[i] = new[i]
    <3>1. CASE i = n - HeadAt + 1
      BY <1>3, <1>6, <2>1, <3>1
    <3>2. CASE i \in 1..(n - HeadAt)
      <4>1. HeadAt + i \in 1..n
        BY <1>3, <3>2
      <4>2. Append(old, m)[i] = old[i] /\ old[i] = chain[HeadAt + i]
        BY <1>5, <2>1, <3>2
      <4>3. new[i] = longer[HeadAt + i]
        BY <1>6
      <4>4. longer[HeadAt + i] = chain[HeadAt + i]
        BY <1>3, <4>1
      <4> HIDE DEF old, new
      <4> QED BY <4>2, <4>3, <4>4
    <3>3. i = n - HeadAt + 1 \/ i \in 1..(n - HeadAt)
      <4>1. n \in Nat /\ HeadAt \in 1..n
        BY <1>3
      <4> HIDE DEF old, new
      <4> QED BY <4>1
    <3> QED BY <3>1, <3>2, <3>3
  <2>3. new \in Seq(Nodes) /\ Len(new) = n - HeadAt + 1
    BY <1>6
  <2> HIDE DEF old, new
  <2>4. Append(old, m) = new
    BY <2>1, <2>2, <2>3, SeqEqual
  <2> QED BY <1>4, <2>4 DEF old, new
<1>8. m \notin Range(Buffer) /\ m \notin Range(popped)
  <2>1. m \notin Range(Buffer)
    <3>1. DOMAIN SubSeq(chain, HeadAt + 1, n) = 1..(n - HeadAt)
      BY <1>5
    <3>2. \A i \in 1..(n - HeadAt) : HeadAt + i \in 1..n
      BY <1>3
    <3> QED BY <1>2, <1>4, <1>5, <3>1, <3>2 DEF Range, n
  <2>2. m \notin Range(popped)
    <3>1. DOMAIN popped = 1..Len(popped)
      BY <1>1 DEF Types
    <3>2. \A i \in 1..Len(popped) : popped[i] = chain[i + 1] /\ i + 1 \in 1..n
      BY <1>1, <1>3 DEF Ends
    <3> QED BY <1>2, <3>1, <3>2 DEF Range, n
  <2> QED BY <2>1, <2>2
<1>9. Atomic!Accept(m)
  BY <1>7, <1>8 DEF Atomic!Accept, Atomic!Seen, Atomic!Range, Range, Buffer
<1> QED BY <1>2, <1>9 DEF QueueStep, Atomic!Next

\* Moving m_Head delivers the element of the node it moves to.
LEMMA HeadDelivers ==
    ASSUME NEW chain \in Seq(Nodes), InvWith(chain), InvWith(chain)',
           place[Popper] # "gone", place'[Popper] # "gone",
           HeadAt < Len(chain), popped' = Append(popped, chain[HeadAt + 1])
    PROVE  QueueStep
<1> DEFINE n == Len(chain)
<1>1. /\ HeadAt \in 1..n /\ n \in Nat /\ Len(popped) \in Nat /\ HeadAt = Len(popped) + 1
      /\ chain[HeadAt + 1] \in Elements /\ popped \in Seq(Elements)
  BY Facts, HeadInChain DEF Types
<1>2. HeadAt' = HeadAt + 1
  BY <1>1 DEF HeadAt
<1>3. HeadAt + 1 \in 1..n /\ n \in (HeadAt + 1)..n
  BY <1>1
<1>4. Buffer = SubSeq(chain, HeadAt + 1, n) /\ Buffer' = SubSeq(chain, HeadAt + 2, n)
  <2>1. HeadAt' + 1 = HeadAt + 2
    BY <1>1, <1>2
  <2> QED BY <2>1, BufferIs, BufferWillBe
<1>5. Head(Buffer) = chain[HeadAt + 1] /\ Tail(Buffer) = SubSeq(chain, HeadAt + 2, n)
  <2>1. (HeadAt + 1) + 1 = HeadAt + 2
    BY <1>1
  <2>2. /\ Head(SubSeq(chain, HeadAt + 1, n)) = chain[HeadAt + 1]
        /\ Tail(SubSeq(chain, HeadAt + 1, n)) = SubSeq(chain, (HeadAt + 1) + 1, n)
    BY <1>3, HeadTailOfSubSeq
  <2> QED BY <1>4, <2>1, <2>2
<1>6. Buffer # <<>>
  <2>1. Len(Buffer) = n - HeadAt
    <3>1. \A i \in (HeadAt + 1)..n : chain[i] \in Nodes
      BY <1>1
    <3> QED BY <1>1, <1>3, <1>4, <3>1, SubSeqProperties
  <2> QED BY <1>1, <2>1
<1>7. Atomic!Deliver
  BY <1>4, <1>5, <1>6 DEF Atomic!Deliver, Buffer
<1> QED BY <1>7 DEF QueueStep, Atomic!Next

\* Every step is a step of the atomic queue, or changes nothing of it.
LEMMA QueueStepHolds ==
    ASSUME NEW chain \in Seq(Nodes), InvWith(chain), TQNext
    PROVE  QueueStep
<1>1. /\ Types /\ Places /\ Ends(chain) /\ Popper \in QueueThreads /\ Popper \notin Pushers
      /\ \A q \in Pushers : q \in QueueThreads /\ q # Popper
      /\ UNCHANGED implementation
  BY Facts DEF TQNext
<1>2. ASSUME NEW p \in Pushers, push(p) PROVE QueueStep
  <2>1. InvWith(chain)' /\ UNCHANGED popped
    BY <1>1, <1>2, PushHolds DEF push
  <2>2. place'[Popper] = place[Popper]
    BY <1>1, <1>2 DEF push, MoveTo, Types
  <2> QED BY <2>1, <2>2, StutterOfQueue
<1>3. ASSUME NEW p \in Pushers, PushStep(p) PROVE QueueStep
  <2>1. place'[Popper] = place[Popper] /\ UNCHANGED popped
    BY <1>1, <1>3 DEF PushStep, LockTail, GenericLink, GenericSwing, LoadTail, LoadNext, Link, Help,
                      Swing, Return, MoveTo, Types
  <2>2. CASE InvWith(chain)'
    BY <2>1, <2>2, StutterOfQueue
  <2>3. CASE GenericLink(p) \/ Link(p)
    <3>1. place[p] = "link"
      BY <2>3 DEF GenericLink, Link
    <3>2. \/ InvWith(chain)'
          \/ \E longer \in Seq(Nodes) : longer = Append(chain, MyNode(p)) /\ InvWith(longer)'
      BY <1>1, <2>3, GenericLinkHolds, LinkHolds
    <3> QED BY <2>1, <2>2, <3>1, <3>2, LinkEnters
  <2> QED BY <1>1, <1>3, <2>2, <2>3, LockTailHolds, GenericSwingHolds, LoadTailHolds, LoadNextHolds,
             HelpHolds, SwingReturns DEF PushStep
<1>4. CASE \/ try_pop \/ LockHead \/ LoadHead \/ LoadHeadNext \/ LoadTailAndCompare \/ HelpPop
  <2>1. InvWith(chain)' /\ UNCHANGED popped
    BY <1>1, <1>4, PopBegins, LoadHeadHolds, LoadHeadNextHolds, LoadTailAndCompareHolds, HelpPopHolds
       DEF try_pop, LockHead, LoadHead, LoadHeadNext, LoadTailAndCompare, HelpPop
  <2>2. place[Popper] # "gone" /\ place'[Popper] # "gone"
    BY <1>1, <1>4 DEF try_pop, LockHead, LoadHead, LoadHeadNext, LoadTailAndCompare, HelpPop, MoveTo, Types
  <2> QED BY <2>1, <2>2, StutterOfQueue
<1>5. CASE GenericPop
  <2>1. /\ InvWith(chain)' /\ place[Popper] = "pop" /\ place'[Popper] # "gone"
    BY <1>1, <1>5, GenericPopHolds DEF GenericPop, MoveTo, Types
  <2>2. CASE next[head.node].node = NullNode
    BY <1>5, <2>1, <2>2, StutterOfQueue DEF GenericPop
  <2>3. CASE next[head.node].node # NullNode
    <3>1. HeadAt < Len(chain) /\ next[head.node].node = chain[HeadAt + 1]
      BY <2>1, <2>3, HeadInChain
    <3>2. popped' = Append(popped, chain[HeadAt + 1])
      BY <1>5, <2>3, <3>1 DEF GenericPop, TakeElement
    <3> QED BY <2>1, <3>1, <3>2, HeadDelivers
  <2> QED BY <2>2, <2>3
<1>6. CASE Take
  <2>1. CASE my[Popper].next.node = NullNode
    <3>1. InvWith(chain)' /\ UNCHANGED <<popped, place>>
      BY <1>1, <1>6, <2>1, CrashHolds DEF Take
    <3> QED BY <3>1, StutterOfQueue
  <2>2. CASE my[Popper].next.node # NullNode
    <3>1. /\ InvWith(chain)' /\ place[Popper] = "take" /\ place'[Popper] # "gone"
      BY <1>1, <1>6, <2>2, TakeHolds DEF Take, Return, Types
    <3>2. DcasPopper(chain)
      BY <1>1, <3>1, Facts DEF Places, PopperPlaces
    <3>3. HeadAt < Len(chain) /\ my[Popper].next.node = chain[HeadAt + 1]
      BY <2>2, <3>1, <3>2 DEF DcasPopper
    <3>4. popped' = Append(popped, chain[HeadAt + 1])
      BY <1>6, <2>2, <3>3 DEF Take, TakeElement
    <3> QED BY <3>1, <3>3, <3>4, HeadDelivers
  <2> QED BY <2>1, <2>2
<1>7. CASE reset_last_node
  <2>1. InvWith(chain)' /\ UNCHANGED popped /\ place[Popper] = "reset" /\ place'[Popper] = "gone"
    BY <1>1, <1>7, ResetHolds DEF reset_last_node, MoveTo, Types
  <2>2. HeadAt = Len(chain) /\ HeadAt \in Nat
    BY <1>1, <2>1, Facts DEF Ends
  <2>3. Buffer = <<>>
    <3>1. Len(chain) < HeadAt + 1 /\ Len(chain) \in Int /\ HeadAt + 1 \in Int
      BY <2>2
    <3>2. SubSeq(chain, HeadAt + 1, Len(chain)) = <<>>
      BY <3>1, SubSeqEmpty
    <3> QED BY <2>1, <3>2, BufferIs
  <2>4. Buffer' = <<>>
    BY <2>1, BufferWillBe
  <2> QED BY <2>1, <2>3, <2>4 DEF QueueStep, Atomic!channel, Buffer
<1>8. CASE destroy
  <2>1. InvWith(chain)' /\ UNCHANGED popped
    BY <1>1, <1>8, DestroyHolds DEF destroy
  <2>2. place[Popper] # "gone" /\ place'[Popper] # "gone"
    BY <1>1, <1>8 DEF destroy, MoveTo, Types
  <2> QED BY <2>1, <2>2, StutterOfQueue
<1> QED BY <1>2, <1>3, <1>4, <1>5, <1>6, <1>7, <1>8 DEF TQNext, PopStep

\* Both implementations of threadsafe_queue are an atomic queue for any number
\* of pushers: each element is popped at most once, in the order in which the
\* nodes were linked.
THEOREM ThreadsafeQueueIsAtomic == TQSpec => ImplementsQueue
<1>1. TQInit => Inv
  BY InitHolds
<1>2. Inv /\ [TQNext]_tqVars => Inv'
  BY InvStep
<1>3. TQInit => Atomic!Init
  <2> SUFFICES ASSUME TQInit PROVE Atomic!Init
    OBVIOUS
  <2>1. popped = <<>> /\ place[Popper] = "idle"
    BY DEF TQInit, TQStart, QueueThreads
  <2>2. <<Dummy>> \in Seq(Nodes) /\ InvWith(<<Dummy>>)
    BY NodesAreTold, DummyAlone
  <2>3. Len(<<Dummy>>) = 1 /\ HeadAt = 1
    BY <2>1 DEF HeadAt
  <2>4. Buffer = SubSeq(<<Dummy>>, HeadAt + 1, Len(<<Dummy>>))
    BY <2>1, <2>2, BufferIs
  <2>5. SubSeq(<<Dummy>>, HeadAt + 1, Len(<<Dummy>>)) = <<>>
    BY <2>3, SubSeqEmpty
  <2> QED BY <2>1, <2>4, <2>5 DEF Atomic!Init, Buffer
<1>4. Inv /\ [TQNext]_tqVars => QueueStep
  <2>1. ASSUME Inv, TQNext PROVE QueueStep
    BY <2>1, QueueStepHolds DEF Inv
  <2>2. ASSUME UNCHANGED tqVars PROVE QueueStep
    <3>1. UNCHANGED <<head, next, popped>>
      BY <2>2 DEF tqVars
    <3>2. UNCHANGED LinkedNodes
      BY <3>1 DEF LinkedNodes
    <3> QED BY <3>1, <3>2 DEF QueueStep, Atomic!channel
  <2> QED BY <2>1, <2>2
<1>5. TQSpec => Atomic!Init /\ [][Atomic!Next]_(Atomic!channel)
  BY <1>1, <1>2, <1>3, <1>4, PTL DEF TQSpec, QueueStep
<1> QED BY <1>5 DEF ImplementsQueue
-------------------------------------------------------------------------------
(***************************************************************************)
(* The two FIFO queues inside the composition.  Their own modules prove    *)
(* what they do; here a step of the composition is shown to be a step of   *)
(* the queue that was picked, and to leave the other ones alone.           *)
(***************************************************************************)
U == INSTANCE UnboundedFifoQueue_proofs
D == INSTANCE BoundedFifoQueue_proofs

LEMMA FifoConstants == U!ConstantsAreSound
BY UnboundedAssumptions DEF U!ConstantsAreSound, Unbounded!ConstantsAreSound

LEMMA UnboundedInits == Init /\ Fifo => U!Init
<1> SUFFICES ASSUME Init, Fifo PROVE U!Init
  OBVIOUS
<1>1. ~Drop
  BY DEF Fifo, Drop
<1>2. Producers \cup Interrupters = U!Threads
  BY DEF U!Threads
<1>3. implementation \in Implementations
  BY <1>1 DEF Init, TQInit, TQStart
<1> QED BY <1>1, <1>2, <1>3 DEF Init, U!Init

LEMMA DroppingInits == Init /\ Drop => D!Init
BY DEF Init, D!Init

LEMMA UnboundedSteps == Unbounded!Next => U!Next
<1>1. ASSUME NEW p \in Producers, Unbounded!enqueue(p) PROVE U!enqueue(p)
  BY <1>1 DEF Unbounded!enqueue, U!enqueue
<1>2. ASSUME NEW i \in Interrupters, Unbounded!interrupt_dequeue(i) PROVE U!interrupt_dequeue(i)
  BY <1>2 DEF Unbounded!interrupt_dequeue, U!interrupt_dequeue
<1>3. ASSUME NEW t, Unbounded!TrySet(t) \/ Unbounded!SemPost(t) PROVE U!TrySet(t) \/ U!SemPost(t)
  BY <1>3 DEF Unbounded!TrySet, U!TrySet, Unbounded!SemPost, U!SemPost
<1>4. Unbounded!try_dequeue => U!try_dequeue
  BY DEF Unbounded!try_dequeue, U!try_dequeue, Unbounded!TryPop, U!TryPop,
         Unbounded!LockedInstruction, U!LockedInstruction
<1>5. Unbounded!dequeue_ready => U!dequeue_ready
  BY DEF Unbounded!dequeue_ready, U!dequeue_ready, Unbounded!TryPop, U!TryPop, Unbounded!TryPopEmpty,
         U!TryPopEmpty, Unbounded!LockedInstruction, U!LockedInstruction
<1>6. Unbounded!SemWait => U!SemWait
  BY DEF Unbounded!SemWait, U!SemWait, Unbounded!LockedInstruction, U!LockedInstruction
<1>7. \A v : Unbounded!Store(v) => U!Store(v)
  BY DEF Unbounded!Store, U!Store
<1>8. Unbounded!EventReset => U!EventReset
  BY <1>7 DEF Unbounded!EventReset, U!EventReset
<1>9. Unbounded!CheckInterruption => U!CheckInterruption
  BY DEF Unbounded!CheckInterruption, U!CheckInterruption
<1>10. Unbounded!ClearInterruption => U!ClearInterruption
  BY <1>7 DEF Unbounded!ClearInterruption, U!ClearInterruption
<1>11. Unbounded!Drain => U!Drain
  BY DEF Unbounded!Drain, U!Drain
<1> QED
  BY <1>1, <1>2, <1>3, <1>4, <1>5, <1>6, <1>8, <1>9, <1>10, <1>11
     DEF Unbounded!Next, U!Next, Unbounded!FeederStep, U!FeederStep, Unbounded!Threads, U!Threads


LEMMA DroppingSteps == Dropping!Next => D!Next
<1>1. \A p, r : Dropping!EnqueueLoop(p, r) => D!EnqueueLoop(p, r)
  BY DEF Dropping!EnqueueLoop, D!EnqueueLoop, Dropping!Push, D!Push, Dropping!NotifyFeeder, D!NotifyFeeder,
         Dropping!BlockOnOverflow, D!BlockOnOverflow, Dropping!DropOnOverflow, D!DropOnOverflow
<1>2. ASSUME NEW p \in Producers, Dropping!enqueue(p) PROVE D!enqueue(p)
  BY <1>1, <1>2 DEF Dropping!enqueue, D!enqueue, Dropping!Blocked, D!Blocked, Dropping!NextRecord, D!NextRecord
<1>3. ASSUME NEW p \in Producers, Dropping!on_overflow_return(p) PROVE D!on_overflow_return(p)
  BY <1>1, <1>3 DEF Dropping!on_overflow_return, D!on_overflow_return, Dropping!Blocked, D!Blocked,
         Dropping!Linked, D!Linked, Dropping!Range, D!Range, Dropping!Carried, D!Carried
<1>4. ASSUME NEW p \in Producers, Dropping!try_enqueue(p) PROVE D!try_enqueue(p)
  BY <1>4 DEF Dropping!try_enqueue, D!try_enqueue, Dropping!Blocked, D!Blocked, Dropping!Push, D!Push,
         Dropping!NotifyFeeder, D!NotifyFeeder, Dropping!NextRecord, D!NextRecord
<1>5. Dropping!Pop => D!Pop
  BY DEF Dropping!Pop, D!Pop, Dropping!OnQueueSpaceAvailable, D!OnQueueSpaceAvailable
<1>6. Dropping!try_dequeue => D!try_dequeue
  BY <1>5 DEF Dropping!try_dequeue, D!try_dequeue
<1>7. Dropping!dequeue_ready => D!dequeue_ready
  BY <1>5 DEF Dropping!dequeue_ready, D!dequeue_ready
<1>8. Dropping!SpuriousWakeup => D!SpuriousWakeup
  BY DEF Dropping!SpuriousWakeup, D!SpuriousWakeup
<1>9. Dropping!interrupt_dequeue => D!interrupt_dequeue
  BY DEF Dropping!interrupt_dequeue, D!interrupt_dequeue, Dropping!Linked, D!Linked, Dropping!Range, D!Range,
         Dropping!NotifyFeeder, D!NotifyFeeder
<1> QED
  BY <1>2, <1>3, <1>4, <1>6, <1>7, <1>8, <1>9 DEF Dropping!Next, D!Next

\* The invariants of the queue that was picked.
FifoInv ==
    /\ Fifo => U!IInv /\ U!Accounting
    /\ Drop => D!TInv /\ D!NeverSleepsOnRecords /\ D!Bounded /\ D!Accounting

LEMMA FifoInvInit == Init => FifoInv
<1> SUFFICES ASSUME Init PROVE FifoInv
  OBVIOUS
<1>1. Fifo => U!IInv /\ U!Accounting
  <2> SUFFICES ASSUME Fifo PROVE U!IInv /\ U!Accounting
    OBVIOUS
  <2>1. U!Init
    BY UnboundedInits
  <2>2. U!IInv
    BY <2>1, FifoConstants, U!IInvInit
  <2>3. U!Accounting
    BY <2>1 DEF U!Init, U!Accounting, U!Range
  <2> QED BY <2>2, <2>3
<1>2. Drop => D!TInv /\ D!NeverSleepsOnRecords /\ D!Bounded /\ D!Accounting
  <2> SUFFICES ASSUME Drop PROVE D!TInv /\ D!NeverSleepsOnRecords /\ D!Bounded /\ D!Accounting
    OBVIOUS
  <2>1. D!Init
    BY DroppingInits
  <2>2. D!TInv
    BY <2>1, DroppingAssumptions, D!TInvInit
  <2>3. D!NeverSleepsOnRecords /\ D!Bounded
    BY <2>1, DroppingAssumptions, EmptySeq DEF D!Init, D!NeverSleepsOnRecords, D!Bounded
  <2>4. D!Accounting
    BY <2>1 DEF D!Init, D!Accounting, D!Accounted, D!Blocked, D!Range
  <2> QED BY <2>2, <2>3, <2>4
<1> QED BY <1>1, <1>2 DEF FifoInv

\* A step of one queue changes nothing of the other one's, and the one that was
\* picked takes a step of its own.
LEMMA FifoSteps ==
    ASSUME [Next]_queueVars
    PROVE  /\ UNCHANGED part
           /\ Fifo => [U!Next]_(U!vars)
           /\ Drop => [D!Next]_(D!vars)
<1>1. ~(Fifo /\ Drop) /\ ~(Fifo /\ Threadsafe) /\ ~(Drop /\ Threadsafe)
  BY DEF Fifo, Drop, Threadsafe
<1>2. CASE UNCHANGED queueVars
  <2>1. UNCHANGED part /\ UNCHANGED tqVars /\ UNCHANGED fifoVars
    BY <1>2 DEF queueVars
  <2>2. UNCHANGED implementation
    BY <2>1 DEF tqVars
  <2> QED BY <2>1, <2>2 DEF fifoVars, ofUnbounded, ofDropping, U!vars, D!vars
<1>3. CASE Next
  BY <1>1, <1>3, UnboundedSteps, DroppingSteps DEF Next
<1> QED BY <1>2, <1>3

LEMMA FifoInvStep == FifoInv /\ [Next]_queueVars => FifoInv'
<1> SUFFICES ASSUME FifoInv, [Next]_queueVars PROVE FifoInv'
  OBVIOUS
<1>1. Fifo' = Fifo /\ Drop' = Drop
  BY FifoSteps DEF Fifo, Drop
<1>2. Fifo => U!IInv' /\ U!Accounting'
  <2> SUFFICES ASSUME Fifo PROVE U!IInv' /\ U!Accounting'
    OBVIOUS
  <2>1. U!IInv /\ U!TInv /\ U!Accounting /\ [U!Next]_(U!vars)
    BY FifoSteps DEF FifoInv, U!IInv
  <2>2. U!IInv'
    BY <2>1, FifoConstants, U!IInvStep
  <2>3. U!Accounting'
    BY <2>1, FifoConstants, U!RefinementStep
  <2> QED BY <2>2, <2>3
<1>3. Drop => D!TInv' /\ D!NeverSleepsOnRecords' /\ D!Bounded' /\ D!Accounting'
  <2> SUFFICES ASSUME Drop PROVE D!TInv' /\ D!NeverSleepsOnRecords' /\ D!Bounded' /\ D!Accounting'
    OBVIOUS
  <2>1. D!TInv /\ D!NeverSleepsOnRecords /\ D!Bounded /\ D!Accounting /\ [D!Next]_(D!vars)
    BY FifoSteps DEF FifoInv
  <2>2. D!TInv'
    BY <2>1, DroppingAssumptions, D!TInvStep
  <2>3. D!NeverSleepsOnRecords' /\ D!Bounded'
    BY <2>1, DroppingAssumptions, D!FeederStep
  <2>4. D!Accounting'
    BY <2>1, DroppingAssumptions, D!RefinementStep
  <2> QED BY <2>2, <2>3, <2>4
<1> QED BY <1>1, <1>2, <1>3 DEF FifoInv

\* For any number of threads and records, with the stores of the feeding thread
\* delayed: it never stays asleep over a record of the bounded queue, nor of the
\* unbounded one over the generic list.  Over the dcas list the next signal wakes
\* it, and in either build the event neither overflows nor gets stuck.
THEOREM TheFeederIsWoken == Spec => []FeederIsWoken
<1>1. FifoInv => FeederIsWoken
  <2> SUFFICES ASSUME FifoInv PROVE FeederIsWoken
    OBVIOUS
  <2>1. ASSUME Fifo
        PROVE  Unbounded!Wakes /\ Unbounded!SemaphoreIsBinary /\ Unbounded!SignalIsNeverStuck
    <3>1. U!Wakes /\ U!SemaphoreIsBinary /\ U!SignalIsNeverStuck
      BY <2>1, FifoConstants, U!IInvMeans DEF FifoInv
    <3> QED BY <3>1 DEF U!Wakes, Unbounded!Wakes, U!NextSignalWakes, Unbounded!NextSignalWakes,
                       U!SleepsOnlyWhenEmpty, Unbounded!SleepsOnlyWhenEmpty, U!Asleep, Unbounded!Asleep,
                       U!Signalling, Unbounded!Signalling, U!Threads, Unbounded!Threads,
                       U!SemaphoreIsBinary, Unbounded!SemaphoreIsBinary,
                       U!Range, Unbounded!Range,
                       U!SignalIsNeverStuck, Unbounded!SignalIsNeverStuck
  <2>2. Drop => Dropping!NeverSleepsOnRecords
    BY DEF FifoInv, D!NeverSleepsOnRecords, Dropping!NeverSleepsOnRecords
  <2> QED BY <2>1, <2>2 DEF FeederIsWoken
<1> QED BY <1>1, FifoInvInit, FifoInvStep, PTL DEF Spec

\* The steps that the instances of the two theories speak of are those of the
\* record channels the composition speaks of.
LEMMA ChannelSteps ==
    /\ U!ChannelStep => Unbounded!Channel!Next \/ UNCHANGED Unbounded!Channel!channel
    /\ D!ChannelStep => Dropping!Channel!Next \/ UNCHANGED Dropping!Channel!channel
<1>1. U!ChannelStep => Unbounded!Channel!Next \/ UNCHANGED Unbounded!Channel!channel
  BY DEF U!ChannelStep, U!Channel!Next, Unbounded!Channel!Next,
         U!Channel!channel, Unbounded!Channel!channel,
         U!Channel!Accept, Unbounded!Channel!Accept, U!Channel!GiveUp, Unbounded!Channel!GiveUp,
         U!Channel!Deliver, Unbounded!Channel!Deliver, U!Channel!Seen, Unbounded!Channel!Seen,
         U!Records, Unbounded!Records, U!Channel!Range, Unbounded!Channel!Range
<1>2. D!ChannelStep => Dropping!Channel!Next \/ UNCHANGED Dropping!Channel!channel
  BY DEF D!ChannelStep, D!Channel!Next, Dropping!Channel!Next,
         D!Channel!channel, Dropping!Channel!channel,
         D!Channel!Accept, Dropping!Channel!Accept, D!Channel!GiveUp, Dropping!Channel!GiveUp,
         D!Channel!Deliver, Dropping!Channel!Deliver, D!Channel!Seen, Dropping!Channel!Seen,
         D!Records, Dropping!Records, D!Channel!Range, Dropping!Channel!Range
<1> QED BY <1>1, <1>2

\* Whichever FIFO queue is picked, each of its steps accepts, delivers or, in
\* the dropping one, gives up one record, which none of them did with that
\* record before: for any number of threads and records.
THEOREM FifoQueuesAreChannels == Spec => FifosAreChannels
<1>. DEFINE A == /\ Fifo => Unbounded!Channel!Next \/ UNCHANGED Unbounded!Channel!channel
                 /\ Drop => Dropping!Channel!Next \/ UNCHANGED Dropping!Channel!channel
<1>1. FifoInv /\ [Next]_queueVars => A
  <2> SUFFICES ASSUME FifoInv, [Next]_queueVars PROVE A
    OBVIOUS
  <2>1. ASSUME Fifo PROVE U!ChannelStep
    <3>1. U!IInv /\ U!TInv /\ U!Accounting /\ [U!Next]_(U!vars)
      BY <2>1, FifoSteps DEF FifoInv, U!IInv
    <3> QED BY <3>1, FifoConstants, U!RefinementStep
  <2>2. ASSUME Drop PROVE D!ChannelStep
    <3>1. D!TInv /\ D!Accounting /\ [D!Next]_(D!vars)
      BY <2>2, FifoSteps DEF FifoInv
    <3> QED BY <3>1, DroppingAssumptions, D!RefinementStep
  <2> QED BY <2>1, <2>2, ChannelSteps
<1> HIDE DEF A
<1>2. Spec => [][A]_<<queue, fed, discarded>>
  BY <1>1, FifoInvInit, FifoInvStep, PTL DEF Spec
<1> QED BY <1>2 DEF A, FifosAreChannels
===============================================================================
