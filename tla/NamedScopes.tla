------------------------------ MODULE NamedScopes -------------------------------
(***************************************************************************)
(* The named scopes of one thread.  The scope stack of the thread is a     *)
(* list of nodes that live on its call stack; the program copies, swaps    *)
(* and destroys lists of its own, whose nodes are allocated in one block;  *)
(* the value of the attribute points to the stack of the thread until it   *)
(* is detached, which copies the stack.  The circular links of all these   *)
(* lists are the state; what the lists promise is kept beside them.        *)
(***************************************************************************)
EXTENDS Integers, FiniteSets, Sequences

CONSTANTS
    ScopeNames,
    UserLists,       \* lists of the program
    MaxScopes,       \* bound: scopes inside one another
    MaxScopeCalls    \* bound: calls

\* A node is a scope on the call stack, an element of a block that the copy of a
\* list allocated, or the root of a list.
Lists == {"scopes", "detached"} \cup UserLists
Blocks == 0..(MaxScopeCalls)
Root(list) == [of |-> "root", list |-> list]
OnStack(depth) == [of |-> "stack", depth |-> depth]
InBlock(b, i) == [of |-> "block", block |-> b, i |-> i]

ASSUME NamedScopesAssumptions ==
    /\ UserLists \cap {"scopes", "detached"} = {}
    /\ MaxScopes \in Nat /\ MaxScopeCalls \in Nat

VARIABLES
    links,           \* [prev, next, name] of the nodes that exist
    m_Size,
    needToDeallocate,\* m_fNeedToDeallocate of each list
    pushed,          \* whether the record with the attribute value was opened,
                     \* and whether it has been detached
    contents,        \* history: the scopes each list promises to hold
    nsCalls          \* history: calls so far

nsVars == <<links, m_Size, needToDeallocate, pushed, contents, nsCalls>>

EmptyRoot(list) == [prev |-> Root(list), next |-> Root(list), name |-> "root"]
Roots == {Root(list) : list \in Lists}

NSInit ==
    /\ links = [r \in Roots |-> EmptyRoot(r.list)]
    /\ m_Size = [list \in Lists |-> 0]
    /\ needToDeallocate = [list \in Lists |-> FALSE]
    /\ pushed = "no"
    /\ contents = [list \in Lists |-> <<>>]
    /\ nsCalls = 0

-------------------------------------------------------------------------------
(* Helpers on the memory, a function from nodes to links.                  *)
Assign(mem, n, field, value) == [mem EXCEPT ![n] = [@ EXCEPT ![field] = value]]
Freed(mem, nodes) == [n \in DOMAIN mem \ nodes |-> mem[n]]

\* The node that an iterator is at after each of k steps.
Walk(mem, from, field, k) ==
    LET at[i \in 0..k] == IF i = 0 THEN from ELSE mem[at[i - 1]][field]
    IN  at

\* The copy constructor: the elements of the source, in one block.
CopyOf(mem, b, to, from) ==
    LET k == m_Size[from]
        source == Walk(mem, Root(from), "next", k)
        node(i) == IF i = 0 \/ i = k + 1 THEN Root(to) ELSE InBlock(b, i)
        copied == {InBlock(b, i) : i \in 1..k}
    IN  [n \in DOMAIN mem \cup copied |->
           IF n \in copied THEN [prev |-> node(n.i - 1), next |-> node(n.i + 1), name |-> mem[source[n.i]].name]
           ELSE IF n = Root(to) THEN [prev |-> node(k), next |-> node(1), name |-> "root"]
           ELSE mem[n]]

\* The destructor deallocates the block that the first element begins.
Destroyed(mem, list) ==
    LET first == mem[Root(list)].next
    IN  IF needToDeallocate[list]
        THEN Freed(mem, {n \in DOMAIN mem : n.of = "block" /\ n.block = first.block})
        ELSE mem

\* Mutant: the last element keeps the root of its former list.
MovedHalf(mem, full, empty) ==
    LET f == mem[Root(full)]
        relinked == Assign(mem, f.next, "prev", Root(empty))
    IN  [relinked EXCEPT ![Root(empty)] = f, ![Root(full)] = EmptyRoot(full)]

\* swap of a list that has elements with an empty one.
Moved(mem, full, empty) ==
    LET f == mem[Root(full)]
        relinked == Assign(Assign(mem, f.next, "prev", Root(empty)), f.prev, "next", Root(empty))
    IN  [relinked EXCEPT ![Root(empty)] = f, ![Root(full)] = EmptyRoot(full)]

\* swap of two lists that both have elements.
Exchanged(mem, a, b) ==
    LET ra == mem[Root(a)]  rb == mem[Root(b)]
        heads == Assign(Assign(mem, ra.next, "prev", Root(b)), rb.next, "prev", Root(a))
        tails == Assign(Assign(heads, ra.prev, "next", Root(b)), rb.prev, "next", Root(a))
    IN  [tails EXCEPT ![Root(a)] = rb, ![Root(b)] = ra]

Swapped(mem, a, b) ==
    IF m_Size[a] > 0 /\ m_Size[b] > 0 THEN Exchanged(mem, a, b)
    ELSE IF m_Size[a] > 0 THEN Moved(mem, a, b)
    ELSE IF m_Size[b] > 0 THEN Moved(mem, b, a)
    ELSE mem

-------------------------------------------------------------------------------
(* The calls.                                                              *)
NSCall == nsCalls < MaxScopeCalls /\ nsCalls' = nsCalls + 1

\* push_back of the thread's list.
push_scope(name) ==
    /\ NSCall /\ m_Size["scopes"] < MaxScopes
    /\ LET entry == OnStack(m_Size["scopes"] + 1)
           root == Root("scopes")
           top == links[root].prev
           withEntry == [n \in DOMAIN links \cup {entry} |->
                            IF n = entry THEN [prev |-> top, next |-> root, name |-> name] ELSE links[n]]
       IN  links' = Assign(Assign(withEntry, root, "prev", entry), top, "next", entry)
    /\ m_Size' = [m_Size EXCEPT !["scopes"] = @ + 1]
    /\ contents' = [contents EXCEPT !["scopes"] = Append(@, name)]
    /\ UNCHANGED <<needToDeallocate, pushed>>

\* pop_back; the sentry with the entry is then destroyed.
pop_scope ==
    /\ NSCall /\ m_Size["scopes"] > 0
    /\ LET top == links[Root("scopes")].prev
           unlinked == Assign(Assign(links, links[top].prev, "next", links[top].next),
                              links[top].next, "prev", links[top].prev)
       IN  links' = Freed(unlinked, {top})
    /\ m_Size' = [m_Size EXCEPT !["scopes"] = @ - 1]
    /\ contents' = [contents EXCEPT !["scopes"] = SubSeq(@, 1, Len(@) - 1)]
    /\ UNCHANGED <<needToDeallocate, pushed>>

\* A record is opened and its value acquired: it points to the thread's list.
get_value ==
    /\ NSCall /\ pushed = "no"
    /\ pushed' = "open"
    /\ UNCHANGED <<links, m_Size, needToDeallocate, contents>>

\* detach_from_thread copies the list once, into m_DetachedValue.
detach_from_thread ==
    /\ NSCall /\ pushed = "open"
    /\ pushed' = "detached"
    /\ links' = CopyOf(links, nsCalls, "detached", "scopes")
    /\ m_Size' = [m_Size EXCEPT !["detached"] = m_Size["scopes"]]
    /\ needToDeallocate' = [needToDeallocate EXCEPT !["detached"] = m_Size["scopes"] > 0]
    /\ contents' = [contents EXCEPT !["detached"] = contents["scopes"]]

\* The destructor of the value; another record may be opened.
release_value ==
    /\ NSCall /\ pushed # "no"
    /\ pushed' = "no"
    /\ links' = [Destroyed(links, "detached") EXCEPT ![Root("detached")] = EmptyRoot("detached")]
    /\ m_Size' = [m_Size EXCEPT !["detached"] = 0]
    /\ needToDeallocate' = [needToDeallocate EXCEPT !["detached"] = FALSE]
    /\ contents' = [contents EXCEPT !["detached"] = <<>>]

\* list = source: a temporary copy is swapped with the list, whose old elements
\* go with it.
assign(list, source) ==
    /\ NSCall /\ list # source /\ (source = "detached" => pushed = "detached")
    /\ LET old == Destroyed(links, list)
           cleared == [old EXCEPT ![Root(list)] = EmptyRoot(list)]
       IN  links' = CopyOf(cleared, nsCalls, list, source)
    /\ m_Size' = [m_Size EXCEPT ![list] = m_Size[source]]
    /\ needToDeallocate' = [needToDeallocate EXCEPT ![list] = m_Size[source] > 0]
    /\ contents' = [contents EXCEPT ![list] = contents[source]]
    /\ UNCHANGED pushed

\* swap of two lists of the program.
swap_lists(a, b) ==
    /\ NSCall /\ a # b
    /\ links' = Swapped(links, a, b)
    /\ m_Size' = [m_Size EXCEPT ![a] = m_Size[b], ![b] = m_Size[a]]
    /\ needToDeallocate' = [needToDeallocate EXCEPT ![a] = needToDeallocate[b], ![b] = needToDeallocate[a]]
    /\ contents' = [contents EXCEPT ![a] = contents[b], ![b] = contents[a]]
    /\ UNCHANGED pushed

NSNext ==
    \/ \E name \in ScopeNames : push_scope(name)
    \/ pop_scope \/ get_value \/ detach_from_thread \/ release_value
    \/ \E list \in UserLists : \E source \in Lists : assign(list, source)
    \/ \E a, b \in UserLists : swap_lists(a, b)

NSSpec == NSInit /\ [][NSNext]_nsVars

-------------------------------------------------------------------------------
\* Whatever is pushed, popped, copied, detached, swapped and destroyed, every
\* list holds the scopes it promises, read forwards and backwards and no node of
\* a popped scope among them - a detached value the scopes of its record - and
\* every allocated block belongs to one list, which will deallocate it.
ScopeListsAreIntact ==
    /\ \A list \in Lists :
          LET k == m_Size[list]
              forth == Walk(links, Root(list), "next", k + 1)
              back == Walk(links, Root(list), "prev", k + 1)
          IN  /\ k = Len(contents[list])
              /\ forth[k + 1] = Root(list) /\ back[k + 1] = Root(list)
              /\ \A i \in 1..k : /\ links[forth[i]].name = contents[list][i]
                                 /\ back[i] = forth[k + 1 - i]
    /\ \A b \in {n.block : n \in {x \in DOMAIN links : x.of = "block"}} :
          Cardinality({list \in Lists : /\ needToDeallocate[list]
                                        /\ links[Root(list)].next = InBlock(b, 1)}) = 1

================================================================================
