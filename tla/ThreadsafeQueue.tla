---------------------------- MODULE ThreadsafeQueue -----------------------------
(***************************************************************************)
(* threadsafe_queue, the queue under the unbounded FIFO queue: a linked    *)
(* list with a dummy node at its head, in the two implementations of the   *)
(* library.  "generic" has a mutex for each end; "dcas" changes pointers   *)
(* together with a counter by one compare-and-swap (the algorithm of       *)
(* Michael and Scott).  Several threads push, one pops.  An action is one  *)
(* access to shared memory.                                                *)
(*                                                                         *)
(* A node that was freed is not allocated again, and reading it returns    *)
(* what it held: the comments of push and try_pop say that the code relies *)
(* on it.                                                                  *)
(***************************************************************************)
EXTENDS Integers, Sequences, SequencesExt

CONSTANTS
    Pushers,         \* threads that push
    Popper,          \* the thread that pops, and destroys the queue at last
    NullNode, Dummy, \* a null pointer, and the node the queue is created with
    Implementations, \* which of "generic" and "dcas" may be selected
    MaxPushes        \* bound: elements each thread pushes

\* Threads and nodes are told apart; the library has these two implementations.
ASSUME QueueAssumptions ==
    /\ Popper \notin Pushers
    /\ NullNode \notin Pushers \cup {Popper, Dummy} \cup (Pushers \X (1..MaxPushes))
    /\ Dummy \notin Pushers \X (1..MaxPushes)
    /\ MaxPushes \in Nat
    /\ Implementations \subseteq {"generic", "dcas"}

VARIABLES
    implementation,  \* what threadsafe_queue_impl::create returned
    running,         \* the threads that the scheduler does not suspend for ever
    head, tail,      \* m_Head and m_Tail: a pointer and its counter
    next,            \* of each node: a pointer and its counter
    allocated,       \* nodes not deallocated
    headLock,        \* who holds the mutex of m_Head (generic)
    tailLock,        \* who holds the mutex of m_Tail (generic)
    place,           \* where each thread stands
    my,              \* its local copies of head, tail and a next pointer
    pushes,          \* how many elements each thread has pushed
    popped,          \* history: the elements popped, in order
    ending,          \* is the destructor running?
    crashed          \* history: was a null pointer followed?

tqVars == <<implementation, running, head, tail, next, allocated, headLock, tailLock,
            place, my, pushes, popped, ending, crashed>>

QueueThreads == Pushers \cup {Popper}
Elements == Pushers \X (1..MaxPushes)
Nodes == Elements \cup {Dummy}
Pointer(node, counter) == [node |-> node, counter |-> counter]
NoPointer == Pointer(NullNode, 0)

QueueTypeOK ==
    /\ head.node \in Nodes \cup {NullNode} /\ head.counter \in Nat
    /\ tail.node \in Nodes \cup {NullNode} /\ tail.counter \in Nat
    /\ \A n \in Nodes : next[n].node \in Elements \cup {NullNode} /\ next[n].counter \in 0..1
    /\ allocated \subseteq Nodes
    /\ headLock \in {NullNode, Popper} /\ tailLock \in Pushers \cup {NullNode}

\* has_dcas selects the implementation once; the list starts with one node.
TQStart(impl) ==
    /\ implementation = impl
    /\ running \in (IF implementation = "dcas" THEN {{p} : p \in Pushers} \cup {QueueThreads}
                    ELSE {QueueThreads})
    /\ head = Pointer(Dummy, 0)
    /\ tail = Pointer(Dummy, 0)
    /\ next = [n \in Nodes |-> NoPointer]
    /\ allocated = {Dummy}
    /\ headLock = NullNode /\ tailLock = NullNode
    /\ place = [t \in QueueThreads |-> "idle"]
    /\ my = [t \in QueueThreads |-> [head |-> NoPointer, tail |-> NoPointer, next |-> NoPointer]]
    /\ pushes = [p \in Pushers |-> 0]
    /\ popped = <<>>
    /\ ending = FALSE
    /\ crashed = FALSE

TQInit == \E impl \in Implementations : TQStart(impl)

-------------------------------------------------------------------------------
MoveTo(t, location) == place' = [place EXCEPT ![t] = location]
Return(t) == place' = [place EXCEPT ![t] = "idle"] /\ my' = [my EXCEPT ![t] =
    [head |-> NoPointer, tail |-> NoPointer, next |-> NoPointer]]
MyNode(p) == <<p, pushes[p]>>

\* threadsafe_queue::push: a node with the element and a null next pointer.
push(p) ==
    /\ place[p] = "idle" /\ pushes[p] < MaxPushes /\ ~ending
    /\ pushes' = [pushes EXCEPT ![p] = @ + 1]
    /\ allocated' = allocated \cup {<<p, pushes[p] + 1>>}
    /\ next' = [next EXCEPT ![<<p, pushes[p] + 1>>] = NoPointer]
    /\ MoveTo(p, IF implementation = "dcas" THEN "load_tail" ELSE "lock_tail")
    /\ UNCHANGED <<head, tail, headLock, tailLock, my, popped, ending, crashed>>

\* threadsafe_queue::try_pop.
try_pop ==
    /\ place[Popper] = "idle"
    /\ MoveTo(Popper, IF implementation = "dcas" THEN "load_head" ELSE "lock_head")
    /\ UNCHANGED <<head, tail, next, allocated, headLock, tailLock, my, pushes,
                   popped, ending, crashed>>

\* What try_pop of the template does with the two nodes it got: the element is
\* moved out and its node becomes the dummy, the old dummy is deallocated.
TakeElement(dealloc, destr) ==
    /\ popped' = Append(popped, destr)
    /\ allocated' = allocated \ {dealloc}

-------------------------------------------------------------------------------
\* threadsafe_queue_impl_generic

\* Mutant: the mutex of the other end is taken.
LockNothing(p) ==
    /\ place[p] = "lock_tail"
    /\ tailLock' = p
    /\ MoveTo(p, "link")
    /\ UNCHANGED <<head, tail, next, allocated, headLock, my, pushes, popped, ending, crashed>>

LockTail(p) ==
    /\ place[p] = "lock_tail" /\ tailLock = NullNode
    /\ tailLock' = p
    /\ MoveTo(p, "link")
    /\ UNCHANGED <<head, tail, next, allocated, headLock, my, pushes, popped, ending, crashed>>

GenericLink(p) ==
    /\ place[p] = "link" /\ implementation = "generic"
    /\ next' = [next EXCEPT ![tail.node] = Pointer(MyNode(p), 0)]
    /\ MoveTo(p, "swing")
    /\ UNCHANGED <<head, tail, allocated, headLock, tailLock, my, pushes, popped, ending, crashed>>

GenericSwing(p) ==
    /\ place[p] = "swing" /\ implementation = "generic"
    /\ tail' = Pointer(MyNode(p), 0)
    /\ tailLock' = NullNode
    /\ MoveTo(p, "idle")
    /\ UNCHANGED <<head, next, allocated, headLock, my, pushes, popped, ending, crashed>>

LockHead ==
    /\ place[Popper] = "lock_head" /\ headLock = NullNode
    /\ headLock' = Popper
    /\ MoveTo(Popper, "pop")
    /\ UNCHANGED <<head, tail, next, allocated, tailLock, my, pushes, popped, ending, crashed>>

\* The next pointer of the dummy tells whether there is an element; the mutex
\* of the tail is not needed.
GenericPop ==
    /\ place[Popper] = "pop"
    /\ headLock' = NullNode
    /\ IF next[head.node].node # NullNode
       THEN /\ TakeElement(head.node, next[head.node].node)
            /\ head' = Pointer(next[head.node].node, 0)
            /\ MoveTo(Popper, "idle")
       ELSE MoveTo(Popper, IF ending THEN "reset" ELSE "idle") /\ UNCHANGED <<head, allocated, popped>>
    /\ UNCHANGED <<tail, next, tailLock, my, pushes, ending, crashed>>

-------------------------------------------------------------------------------
\* threadsafe_queue_impl_dcas::push

LoadTail(p) ==
    /\ place[p] = "load_tail"
    /\ my' = [my EXCEPT ![p].tail = tail]
    /\ MoveTo(p, "load_next")
    /\ UNCHANGED <<head, tail, next, allocated, headLock, tailLock, pushes, popped, ending, crashed>>

LoadNext(p) ==
    /\ place[p] = "load_next"
    /\ my' = [my EXCEPT ![p].next = next[my[p].tail.node]]
    /\ MoveTo(p, IF next[my[p].tail.node].node = NullNode THEN "link" ELSE "help")
    /\ UNCHANGED <<head, tail, next, allocated, headLock, tailLock, pushes, popped, ending, crashed>>

\* Mutant: a plain store instead of the compare-and-swap.
LinkUncompared(p) ==
    /\ place[p] = "link" /\ implementation = "dcas"
    /\ next' = [next EXCEPT ![my[p].tail.node] = Pointer(MyNode(p), my[p].next.counter + 1)]
    /\ MoveTo(p, "swing")
    /\ UNCHANGED <<head, tail, allocated, headLock, tailLock, my, pushes, popped, ending, crashed>>

\* The node goes behind the last one, if it still is the last one.
Link(p) ==
    /\ place[p] = "link" /\ implementation = "dcas"
    /\ IF next[my[p].tail.node] = my[p].next
       THEN /\ next' = [next EXCEPT ![my[p].tail.node] = Pointer(MyNode(p), my[p].next.counter + 1)]
            /\ MoveTo(p, "swing")
       ELSE MoveTo(p, "load_tail") /\ UNCHANGED next
    /\ UNCHANGED <<head, tail, allocated, headLock, tailLock, my, pushes, popped, ending, crashed>>

\* The compare-and-swap of m_Tail by a thread that knows the node behind it.
SwingTail(t, node) ==
    tail' = IF tail = my[t].tail THEN Pointer(node, my[t].tail.counter + 1) ELSE tail

\* Mutant: a thread that finds the tail one node back waits for its pusher.
DoNotHelp(p) ==
    /\ place[p] = "help"
    /\ MoveTo(p, "load_tail")
    /\ UNCHANGED <<head, tail, next, allocated, headLock, tailLock, my, pushes, popped, ending, crashed>>

\* The tail is one node back: move it for the thread that has not done so yet.
Help(p) ==
    /\ place[p] = "help"
    /\ SwingTail(p, my[p].next.node)
    /\ MoveTo(p, "load_tail")
    /\ UNCHANGED <<head, next, allocated, headLock, tailLock, my, pushes, popped, ending, crashed>>

Swing(p) ==
    /\ place[p] = "swing" /\ implementation = "dcas"
    /\ SwingTail(p, MyNode(p))
    /\ Return(p)
    /\ UNCHANGED <<head, next, allocated, headLock, tailLock, pushes, popped, ending, crashed>>

\* threadsafe_queue_impl_dcas::try_pop reads m_Head, the next pointer of its
\* node and m_Tail, in this order.
LoadHead ==
    /\ place[Popper] = "load_head"
    /\ my' = [my EXCEPT ![Popper].head = head]
    /\ MoveTo(Popper, "load_head_next")
    /\ UNCHANGED <<head, tail, next, allocated, headLock, tailLock, pushes, popped, ending, crashed>>

LoadHeadNext ==
    /\ place[Popper] = "load_head_next"
    /\ my' = [my EXCEPT ![Popper].next = next[my[Popper].head.node]]
    /\ MoveTo(Popper, "compare")
    /\ UNCHANGED <<head, tail, next, allocated, headLock, tailLock, pushes, popped, ending, crashed>>

LoadTailAndCompare ==
    /\ place[Popper] = "compare"
    /\ my' = [my EXCEPT ![Popper].tail = tail]
    /\ MoveTo(Popper, IF my[Popper].head.node # tail.node THEN "take"
                    ELSE IF my[Popper].next.node # NullNode THEN "help_pop"
                    ELSE IF ending THEN "reset" ELSE "idle")
    /\ UNCHANGED <<head, tail, next, allocated, headLock, tailLock, pushes, popped, ending, crashed>>

\* Mutant: the node that holds the element is deallocated, not the old dummy.
TakeFreesElement ==
    /\ place[Popper] = "take"
    /\ IF my[Popper].next.node = NullNode
       THEN crashed' = TRUE /\ UNCHANGED <<head, place, my, popped, allocated>>
       ELSE /\ head' = Pointer(my[Popper].next.node, my[Popper].head.counter + 1)
            /\ TakeElement(my[Popper].next.node, my[Popper].next.node)
            /\ Return(Popper)
            /\ UNCHANGED crashed
    /\ UNCHANGED <<tail, next, headLock, tailLock, pushes, ending>>

\* m_Head moves to the node with the element.  When the next pointer was read
\* before an element was pushed and the tail after it, that node is null, and
\* the element is read through a null pointer.  No other thread moves m_Head,
\* so the compare-and-swap succeeds.
Take ==
    /\ place[Popper] = "take"
    /\ IF my[Popper].next.node = NullNode
       THEN crashed' = TRUE /\ UNCHANGED <<head, place, my, popped, allocated>>
       ELSE /\ head' = Pointer(my[Popper].next.node, my[Popper].head.counter + 1)
            /\ TakeElement(my[Popper].head.node, my[Popper].next.node)
            /\ Return(Popper)
            /\ UNCHANGED crashed
    /\ UNCHANGED <<tail, next, headLock, tailLock, pushes, ending>>

HelpPop ==
    /\ place[Popper] = "help_pop"
    /\ SwingTail(Popper, my[Popper].next.node)
    /\ MoveTo(Popper, "load_head")
    /\ UNCHANGED <<head, next, allocated, headLock, tailLock, my, pushes, popped, ending, crashed>>

-------------------------------------------------------------------------------
\* The destructor, when no thread uses the queue any more: unsafe_empty looks
\* (and moves a tail that lags), then everything is popped.
destroy ==
    /\ ~ending
    /\ \A t \in QueueThreads : place[t] = "idle"
    /\ \A p \in Pushers : pushes[p] = MaxPushes
    /\ ending' = TRUE
    /\ IF head.node = tail.node /\ next[tail.node].node = NullNode
       THEN MoveTo(Popper, "reset") /\ UNCHANGED tail
       ELSE /\ tail' = IF head.node = tail.node THEN Pointer(next[tail.node].node, tail.counter + 1)
                       ELSE tail
            /\ UNCHANGED place
    /\ UNCHANGED <<head, next, allocated, headLock, tailLock, my, pushes, popped, crashed>>

\* reset_last_node and the deallocation of the dummy.
reset_last_node ==
    /\ place[Popper] = "reset"
    /\ head' = NoPointer /\ tail' = NoPointer
    /\ allocated' = allocated \ {head.node}
    /\ MoveTo(Popper, "gone")
    /\ UNCHANGED <<next, headLock, tailLock, my, pushes, popped, ending, crashed>>

PushStep(p) ==
    \/ LockTail(p) \/ GenericLink(p) \/ GenericSwing(p)
    \/ LoadTail(p) \/ LoadNext(p) \/ Link(p) \/ Help(p) \/ Swing(p)

PopStep ==
    \/ LockHead \/ GenericPop
    \/ LoadHead \/ LoadHeadNext \/ LoadTailAndCompare \/ Take \/ HelpPop
    \/ reset_last_node

TQNext ==
    /\ ~crashed
    /\ \/ \E p \in Pushers : push(p) \/ PushStep(p)
       \/ try_pop \/ PopStep
       \/ destroy
    /\ UNCHANGED <<implementation, running>>

\* Threads that run finish their calls.  With two locks all must run; without
\* locks any thread may be suspended for ever at any point.
TQFairness ==
    /\ \A p \in Pushers : WF_tqVars(p \in running /\ ~crashed /\ PushStep(p)
                                      /\ UNCHANGED <<implementation, running>>)
    /\ WF_tqVars(Popper \in running /\ ~crashed /\ PopStep /\ UNCHANGED <<implementation, running>>)

TQSpec == TQInit /\ [][TQNext]_tqVars /\ TQFairness

-------------------------------------------------------------------------------
\* From each node, the nodes that one reaches by following next pointers.
Following(links) ==
    LET from[n \in Nodes] ==
            IF links[n].node = NullNode THEN <<n>> ELSE <<n>> \o from[links[n].node]
    IN  from

\* The nodes from the dummy on.
LinkedNodes == Following(next)[head.node]

\* Both implementations are an atomic queue: an element is in it from the step
\* that links its node, and out of it when m_Head moves.
Atomic == INSTANCE RecordChannel WITH
    buffer <- IF head.node = NullNode THEN <<>> ELSE Tail(LinkedNodes),
    output <- popped, lost <- {}, Lossy <- FALSE, Records <- Elements
ImplementsQueue == Atomic!Init /\ [][Atomic!Next]_(Atomic!channel)

\* The nodes in use are the dummy, those linked behind it, and those of pushes
\* under way; whatever the interleaving, none is leaked or freed while it is
\* linked, and when the queue is destroyed none is left.
NodesInUse ==
    allocated = (IF head.node = NullNode THEN {} ELSE ToSet(LinkedNodes))
                  \cup {MyNode(p) : p \in {q \in Pushers : place[q] \notin {"idle", "swing"}}}

\* A push returns although any other thread is suspended for ever in the
\* middle of its own call (with two locks: if no thread is).
PushReturns ==
    \A p \in Pushers : p \in running /\ place[p] # "idle" ~> place[p] = "idle" \/ crashed

\* "Thread-safe, can be called concurrently with the push operation": try_pop
\* never follows a null pointer.
PopIsThreadSafe == ~crashed
===============================================================================
