---------------------------- MODULE RecordChannel ----------------------------
(***************************************************************************)
(* What every record queue of an asynchronous sink promises to the threads *)
(* that log and to the thread that feeds the backend: a record is accepted *)
(* at most once, records leave in the order they were accepted, and only a *)
(* lossy queue may give a record up instead of accepting it.               *)
(***************************************************************************)
EXTENDS Sequences, Functions

CONSTANTS
    Records,      \* everything the program may log
    Lossy         \* may the queue give a record up?  (a Boolean)



VARIABLES
    buffer,       \* the records accepted and not yet fed
    output,       \* the records handed to the feeding thread, in order
    lost          \* the records given up

channel == <<buffer, output, lost>>

Seen == Range(buffer) \cup Range(output) \cup lost

Init == buffer = <<>> /\ output = <<>> /\ lost = {}

Accept(r) ==
    /\ r \notin Seen
    /\ buffer' = Append(buffer, r)
    /\ UNCHANGED <<output, lost>>

Deliver ==
    /\ buffer # <<>>
    /\ output' = Append(output, Head(buffer))
    /\ buffer' = Tail(buffer)
    /\ UNCHANGED lost

GiveUp(r) ==
    /\ Lossy
    /\ r \notin Seen
    /\ lost' = lost \cup {r}
    /\ UNCHANGED <<buffer, output>>

Next ==
    \/ \E r \in Records : Accept(r) \/ GiveUp(r)
    \/ Deliver

Spec == Init /\ [][Next]_channel
===============================================================================
