------------------------------ MODULE Core_proofs -----------------------------
(***************************************************************************)
(* Proofs about the two ends of a log statement, the loggers and the core. *)
(* For the core, with any threads, sinks and bounds, the inductive         *)
(* invariant says of every thread what its begin to end range holds: the   *)
(* sinks it has locked, less those that got the record or threw on it,     *)
(* each once.  For the loggers it says by the place of a thread what it    *)
(* has locked.                                                             *)
(***************************************************************************)
EXTENDS Core, Loggers, SequenceLemmas, FiniteSetTheorems

-------------------------------------------------------------------------------
(***************************************************************************)
(* What the operations on ranges do.                                       *)
(***************************************************************************)

\* A subsequence has elements of the sequence only, and none twice unless the
\* sequence has.
LEMMA SubsequenceFacts ==
    ASSUME NEW S, NEW seq \in Seq(S), NEW sub \in Subsequences(seq)
    PROVE  /\ sub \in Seq(S)
           /\ Range(sub) \subseteq Range(seq)
           /\ IsInjective(seq) => IsInjective(sub)
<1>0. PICK n \in 0..Len(seq) :
          \E pick \in [1..n -> DOMAIN seq] :
             /\ \A i, j \in 1..n : i < j => pick[i] < pick[j]
             /\ sub = [i \in 1..n |-> seq[pick[i]]]
  BY Zenon DEF Subsequences
<1>1. PICK pick \in [1..n -> DOMAIN seq] :
          /\ \A i, j \in 1..n : i < j => pick[i] < pick[j]
          /\ sub = [i \in 1..n |-> seq[pick[i]]]
  BY <1>0
<1>2. n \in Nat /\ DOMAIN seq = 1..Len(seq) /\ DOMAIN sub = 1..n
  BY <1>1
<1>3. \A i \in 1..n : seq[pick[i]] \in S
  BY <1>1, <1>2
<1>4. sub \in Seq(S)
  BY <1>1, <1>2, <1>3
<1>5. Range(sub) \subseteq Range(seq)
  BY <1>1, <1>2 DEF Range
<1>6. ASSUME IsInjective(seq) PROVE IsInjective(sub)
  <2>1. SUFFICES ASSUME NEW i \in 1..n, NEW j \in 1..n, sub[i] = sub[j] PROVE i = j
    BY <1>2 DEF IsInjective
  <2>2. pick[i] = pick[j]
    BY <1>1, <1>2, <1>6, <2>1 DEF IsInjective
  <2>. QED BY <1>1, <1>2, <2>2
<1>. QED BY <1>4, <1>5, <1>6

\* Swapping an element behind the end takes that element away and no other.
LEMMA SwapOutFacts ==
    ASSUME NEW S, NEW seq \in Seq(S), NEW i \in 1..Len(seq), IsInjective(seq)
    PROVE  /\ SwapOut(seq, i) \in Seq(S)
           /\ Len(SwapOut(seq, i)) = Len(seq) - 1
           /\ Range(SwapOut(seq, i)) = Range(seq) \ {seq[i]}
           /\ IsInjective(SwapOut(seq, i))
<1>. DEFINE n == Len(seq)
            out == SwapOut(seq, i)
<1>1. n \in Nat /\ n >= 1 /\ DOMAIN seq = 1..n
  OBVIOUS
<1>2. [seq EXCEPT ![i] = seq[n]] \in Seq(S)
  BY <1>1
<1>3. /\ out \in Seq(S) /\ Len(out) = n - 1
      /\ \A j \in 1..(n - 1) : out[j] = IF j = i THEN seq[n] ELSE seq[j]
  BY <1>1, <1>2 DEF SwapOut
<1>4. DOMAIN out = 1..(n - 1)
  BY <1>1, <1>3
<1>5. \A j, k \in 1..n : seq[j] = seq[k] => j = k
  BY <1>1 DEF IsInjective
<1>6. Range(out) \subseteq Range(seq) \ {seq[i]}
  BY <1>1, <1>3, <1>4, <1>5 DEF Range
<1>7. ASSUME NEW j \in 1..n, seq[j] # seq[i] PROVE seq[j] \in Range(out)
  <2>1. CASE j = n
    <3>1. i \in DOMAIN out /\ out[i] = seq[j]
      BY <1>1, <1>3, <1>4, <1>7, <2>1
    <3>. QED BY <3>1 DEF Range
  <2>2. CASE j # n
    <3>1. j # i
      BY <1>7
    <3>2. j \in 1..(n - 1)
      <4>. HIDE DEF n, out
      <4>1. n \in Nat
        BY <1>1
      <4>. QED BY <2>2, <4>1
    <3>3. j \in DOMAIN out /\ out[j] = seq[j]
      BY <3>1, <3>2, <1>3, <1>4
    <3>. QED BY <3>3 DEF Range
  <2>. QED BY <2>1, <2>2
<1>8. Range(seq) \ {seq[i]} \subseteq Range(out)
  BY <1>1, <1>7 DEF Range
<1>9. IsInjective(out)
  BY <1>1, <1>3, <1>4, <1>5 DEF IsInjective
<1>. QED BY <1>3, <1>6, <1>8, <1>9

\* A shuffle changes the order only.
LEMMA ShuffleFacts ==
    ASSUME NEW S, NEW seq \in Seq(S), IsInjective(seq),
           NEW order \in Bijection(DOMAIN seq, DOMAIN seq)
    PROVE  LET shuffle == [i \in DOMAIN seq |-> seq[order[i]]]
           IN  /\ shuffle \in Seq(S)
               /\ Len(shuffle) = Len(seq)
               /\ Range(shuffle) = Range(seq)
               /\ IsInjective(shuffle)
<1>. DEFINE n == Len(seq)
            shuffle == [i \in DOMAIN seq |-> seq[order[i]]]
<1>1. n \in Nat /\ DOMAIN seq = 1..n
  OBVIOUS
<1>2. /\ order \in [1..n -> 1..n]
      /\ \A i, j \in 1..n : order[i] = order[j] => i = j
      /\ \A j \in 1..n : \E i \in 1..n : order[i] = j
  BY <1>1 DEF Bijection, Injection, Surjection, IsInjective
<1>3. ASSUME NEW i \in 1..n PROVE seq[order[i]] \in S
  <2>1. order[i] \in 1..n
    BY <1>2, Zenon
  <2>. HIDE DEF n, shuffle
  <2>2. \A j \in 1..n : seq[j] \in S
    BY <1>1 DEF n
  <2>. QED BY <2>1, <2>2, Zenon
<1>4. shuffle \in Seq(S) /\ Len(shuffle) = n
  BY <1>1, <1>3
<1>5. Range(shuffle) = Range(seq)
  <2>1. ASSUME NEW i \in 1..n PROVE shuffle[i] \in Range(seq)
    BY <1>1, <1>2 DEF Range
  <2>2. ASSUME NEW j \in 1..n PROVE seq[j] \in Range(shuffle)
    <3>1. PICK i \in 1..n : order[i] = j
      BY <1>2
    <3>2. i \in DOMAIN shuffle /\ shuffle[i] = seq[j]
      BY <1>1, <3>1
    <3>. QED BY <3>2 DEF Range
  <2>. HIDE DEF shuffle
  <2>3. DOMAIN shuffle = 1..n
    BY <1>1 DEF shuffle
  <2>. QED BY <1>1, <2>1, <2>2, <2>3 DEF Range
<1>6. IsInjective(shuffle)
  <2>1. \A i, j \in 1..n : seq[i] = seq[j] => i = j
    BY <1>1 DEF IsInjective
  <2>2. ASSUME NEW i \in 1..n, NEW j \in 1..n, seq[order[i]] = seq[order[j]]
        PROVE  i = j
    <3>1. order[i] \in 1..n /\ order[j] \in 1..n
      BY <1>2, Zenon
    <3>. QED BY <1>2, <2>1, <2>2, <3>1, Zenon
  <2>. QED BY <1>1, <2>2 DEF IsInjective
<1>. QED BY <1>4, <1>5, <1>6

-------------------------------------------------------------------------------
(***************************************************************************)
(* Types and ranges.                                                       *)
(***************************************************************************)

\* Where the iterator of a thread stands in its range.
Located(t) ==
    /\ IsInjective(list[t])
    /\ it[t] <= Len(list[t]) + 1
    /\ pc[t] \in {"block", "feedTry", "feed", "catch"} => it[t] <= Len(list[t])
    /\ pc[t] \in {"idle", "filter", "openCatch", "opened"} => it[t] = 1

Shape == TypeOK /\ \A t \in Loggers : Located(t)

LEMMA ShapeInit == Init => Shape
<1>. SUFFICES ASSUME Init PROVE Shape
  OBVIOUS
<1>1. TypeOK
  <2>1. <<>> \in Seq(AllSinks)
    OBVIOUS
  <2>2. it \in [Loggers -> Nat \ {0}]
    BY DEF Init
  <2>3. failed \in [Loggers -> SUBSET AllSinks] /\ held \in [Loggers -> SUBSET AllSinks]
    BY DEF Init
  <2>4. allLocked \in [Loggers -> BOOLEAN] /\ shuffled \in [Loggers -> BOOLEAN]
    BY Zenon DEF Init
  <2>. QED
    BY <2>1, <2>2, <2>3, <2>4, InitialAssumption, BoundsAssumption
    DEF Init, TypeOK, Locations, Pushing
<1>2. ASSUME NEW t \in Loggers PROVE Located(t)
  BY DEF Init, Located, IsInjective
<1>. QED BY <1>1, <1>2 DEF Shape

\* The ranges, the iterators and the locations have their types.
RangeShape ==
    /\ list \in [Loggers -> Seq(AllSinks)]
    /\ it \in [Loggers -> Nat \ {0}]
    /\ pc \in [Loggers -> Locations]
    /\ \A u \in Loggers : Located(u)

\* The range and the iterator of one thread change and nothing else does that
\* Shape speaks of, but its location.
LEMMA ShapeOfRange ==
    ASSUME Shape, NEW t \in Loggers, NEW range \in Seq(AllSinks), IsInjective(range),
           NEW i \in 1..(Len(range) + 1), SetRange(t, range, i),
           NEW location \in Locations, GoTo(t, location),
           location \in {"block", "feedTry", "feed", "catch"} => i <= Len(range),
           location \in {"idle", "filter", "openCatch", "opened"} => i = 1
    PROVE  RangeShape'
<1>. USE DEF Shape, TypeOK, SetRange, GoTo
<1>1. /\ list' \in [Loggers -> Seq(AllSinks)]
      /\ it' \in [Loggers -> Nat \ {0}]
      /\ pc' \in [Loggers -> Locations]
  OBVIOUS
<1>2. ASSUME NEW u \in Loggers PROVE Located(u)'
  <2>1. CASE u = t
    <3>1. list'[t] = range /\ pc'[t] = location /\ it'[t] = i
      OBVIOUS
    <3>. QED BY <2>1, <3>1 DEF Located
  <2>2. CASE u # t
    <3>1. list'[u] = list[u] /\ pc'[u] = pc[u] /\ it'[u] = it[u]
      BY <2>2
    <3>. QED BY <3>1 DEF Located
  <2>. QED BY <2>1, <2>2
<1>. QED BY <1>1, <1>2 DEF RangeShape

\* The rest of Shape.
OtherTypes ==
    /\ enabled \in BOOLEAN
    /\ sinks \in Seq(Sinks) /\ IsInjective(sinks)
    /\ swallows \in BOOLEAN
    /\ flushIt \in 0..Len(sinks)
    /\ backend \in [AllSinks -> Owners \cup {Nobody}]
    /\ destroyed \in SUBSET Sinks
    /\ opened \in [Loggers -> 0..NumRecords]
    /\ allLocked \in [Loggers -> BOOLEAN]
    /\ shuffled \in [Loggers -> BOOLEAN]
    /\ held \in [Loggers -> SUBSET AllSinks]
    /\ failed \in [Loggers -> SUBSET AllSinks]
    /\ got \in [AllSinks -> [Records -> Nat]]
    /\ changes \in 0..MaxChanges
    /\ flushes \in 0..MaxFlushes

LEMMA ShapeParts == /\ Shape <=> RangeShape /\ OtherTypes
                    /\ Shape' <=> RangeShape' /\ OtherTypes'
BY DEF Shape, TypeOK, RangeShape, OtherTypes

LEMMA LeaveShape ==
    ASSUME Shape, NEW t \in Loggers, Leave(t)
    PROVE  /\ RangeShape'
           /\ held' \in [Loggers -> SUBSET AllSinks]
           /\ failed' \in [Loggers -> SUBSET AllSinks]
           /\ allLocked' \in [Loggers -> BOOLEAN]
           /\ shuffled' \in [Loggers -> BOOLEAN]
<1>1. <<>> \in Seq(AllSinks) /\ IsInjective(<<>>) /\ 1 \in 1..(Len(<<>>) + 1)
  BY DEF IsInjective
<1>2. "idle" \in Locations
  BY DEF Locations
<1>3. GoTo(t, "idle") /\ SetRange(t, <<>>, 1)
  BY DEF Leave
<1>4. RangeShape'
  BY <1>1, <1>2, <1>3, ShapeOfRange
<1>5. held' \in [Loggers -> SUBSET AllSinks] /\ failed' \in [Loggers -> SUBSET AllSinks]
  BY DEF Leave, Shape, TypeOK
<1>6. allLocked' \in [Loggers -> BOOLEAN] /\ shuffled' \in [Loggers -> BOOLEAN]
  BY Zenon DEF Leave, Shape, TypeOK
<1>. QED BY <1>4, <1>5, <1>6

\* The sinks that are asked form a sequence without duplicates.
LEMMA CandidatesShape ==
    Shape => Candidates \in Seq(AllSinks) /\ IsInjective(Candidates)
<1>. SUFFICES ASSUME Shape PROVE Candidates \in Seq(AllSinks) /\ IsInjective(Candidates)
  OBVIOUS
<1>1. CASE sinks = <<>>
  BY <1>1 DEF Candidates, AllSinks, IsInjective
<1>2. CASE sinks # <<>>
  BY <1>2 DEF Candidates, AllSinks, Shape, TypeOK
<1>. QED BY <1>1, <1>2

\* The steps of open_record and the loop of push_record that move a range.
LEMMA RangeSteps ==
    ASSUME Shape, NEW t \in Loggers,
           \/ open_record(t) \/ ApplyFilters(t) \/ OpenCatch(t) \/ push_record(t)
           \/ TryBusy(t) \/ TryConsume(t) \/ EndRound(t) \/ Consume(t)
           \/ FeedReturns(t) \/ FeedThrows(t) \/ Catch(t) \/ OuterCatch(t)
    PROVE  RangeShape'
<1>. DEFINE range == list[t]
<1>0. /\ range \in Seq(AllSinks) /\ Len(range) \in Nat /\ IsInjective(range)
      /\ it[t] \in 1..(Len(range) + 1)
      /\ list = [list EXCEPT ![t] = range] /\ it = [it EXCEPT ![t] = it[t]]
  BY DEF Shape, TypeOK, Located
<1>. HIDE DEF range
<1>. USE DEF Locations, Pushing
\* A step that leaves the range alone.
<1>. DEFINE Moves(location) == /\ GoTo(t, location)
                               /\ UNCHANGED <<list, it>>
<1>1. ASSUME NEW location \in Locations, Moves(location),
             location \in {"block", "feedTry", "feed", "catch"} => it[t] <= Len(range),
             location \in {"idle", "filter", "openCatch", "opened"} => it[t] = 1
      PROVE  RangeShape'
  <2>1. SetRange(t, range, it[t])
    BY <1>0, <1>1 DEF SetRange
  <2>. QED BY <1>0, <1>1, <2>1, ShapeOfRange
<1>. HIDE DEF Moves
<1>2. CASE open_record(t)
  <2>1. Moves("filter") /\ it[t] = 1
    BY <1>2 DEF open_record, Moves, loopVars, Shape, Located
  <2>. QED BY <1>1, <2>1
<1>3. CASE ApplyFilters(t)
  <2>1. it[t] = 1 /\ it' = [it EXCEPT ![t] = 1]
    BY <1>0, <1>3 DEF ApplyFilters, Shape, Located
  <2>2. CASE Moves("idle")
    BY <1>1, <2>1, <2>2
  <2>3. ASSUME NEW accepting \in Subsequences(Candidates),
               list' = [list EXCEPT ![t] = accepting],
               NEW location \in {"idle", "opened", "openCatch"}, GoTo(t, location)
        PROVE  RangeShape'
    <3>1. accepting \in Seq(AllSinks) /\ IsInjective(accepting)
      BY CandidatesShape, SubsequenceFacts
    <3>2. SetRange(t, accepting, 1)
      BY <2>1, <2>3 DEF SetRange
    <3>3. 1 \in 1..(Len(accepting) + 1)
      BY <3>1
    <3>. QED BY <2>3, <3>1, <3>2, <3>3, ShapeOfRange
  <2>. QED BY <1>3, <2>2, <2>3 DEF ApplyFilters, Moves
<1>4. CASE OpenCatch(t)
  <2>1. CASE Leave(t)
    BY <2>1, LeaveShape
  <2>2. CASE ~Leave(t)
    <3>1. Moves("opened") /\ it[t] = 1
      BY <1>4, <2>2 DEF OpenCatch, Moves, loopVars, Shape, Located
    <3>. QED BY <1>1, <3>1
  <2>. QED BY <2>1, <2>2
<1>5. CASE push_record(t)
  <2>1. PICK locked \in Subsequences(list[t]) : SetRange(t, locked, 1)
    BY <1>5 DEF push_record
  <2>2. locked \in Seq(AllSinks) /\ IsInjective(locked)
    BY <1>0, SubsequenceFacts DEF range
  <2>3. 1 \in 1..(Len(locked) + 1)
    BY <2>2
  <2>4. GoTo(t, "try")
    BY <1>5 DEF push_record
  <2>. QED BY <2>1, <2>2, <2>3, <2>4, ShapeOfRange
<1>6. CASE TryBusy(t)
  <2>1. SetRange(t, range, it[t] + 1) /\ GoTo(t, "try") /\ it[t] <= Len(range)
    BY <1>0, <1>6 DEF TryBusy, SetRange, GoTo, range, Shape, TypeOK
  <2>2. it[t] + 1 \in 1..(Len(range) + 1)
    BY <1>0, <2>1
  <2>. QED BY <1>0, <2>1, <2>2, ShapeOfRange
<1>7. CASE TryConsume(t)
  <2>1. Moves("feedTry") /\ it[t] <= Len(range)
    BY <1>7 DEF TryConsume, Moves, loopVars, range
  <2>. QED BY <1>1, <2>1
<1>8. CASE EndRound(t)
  <2>1. CASE Leave(t)
    BY <2>1, LeaveShape
  <2>2. CASE /\ SetRange(t, list[t], 1) /\ UNCHANGED pc /\ pc[t] = "try"
    <3>1. GoTo(t, "try") /\ 1 \in 1..(Len(range) + 1)
      BY <1>0, <2>2 DEF GoTo, Shape, TypeOK
    <3>. QED BY <1>0, <2>2, <3>1, ShapeOfRange DEF range
  <2>3. ASSUME NEW order \in Bijection(DOMAIN range, DOMAIN range), range # <<>>,
               SetRange(t, [i \in DOMAIN range |-> range[order[i]]], 1), GoTo(t, "block")
        PROVE  RangeShape'
    <3>. DEFINE shuffle == [i \in DOMAIN range |-> range[order[i]]]
    <3>1. shuffle \in Seq(AllSinks) /\ IsInjective(shuffle) /\ Len(shuffle) = Len(range)
      BY <1>0, ShuffleFacts
    <3>2. Len(range) # 0
      BY <1>0, <2>3
    <3>. HIDE DEF shuffle
    <3>3. 1 \in 1..(Len(shuffle) + 1) /\ 1 <= Len(shuffle)
      BY <1>0, <3>1, <3>2
    <3>. QED BY <2>3, <3>1, <3>3, ShapeOfRange DEF shuffle
  <2>. QED BY <1>8, <2>1, <2>2, <2>3 DEF EndRound, range
<1>9. CASE Consume(t)
  <2>1. Moves("feed") /\ it[t] <= Len(range)
    BY <1>9 DEF Consume, Moves, loopVars, range, Shape, Located
  <2>. QED BY <1>1, <2>1
\* The element at the iterator is swapped out of the range.
<1>10. ASSUME it[t] <= Len(range), SetRange(t, SwapOut(range, it[t]), it[t]), GoTo(t, "try")
       PROVE  RangeShape'
  <2>1. it[t] \in 1..Len(range)
    BY <1>0, <1>10
  <2>2. /\ SwapOut(range, it[t]) \in Seq(AllSinks) /\ IsInjective(SwapOut(range, it[t]))
        /\ Len(SwapOut(range, it[t])) = Len(range) - 1
    BY <1>0, <2>1, SwapOutFacts
  <2>3. it[t] \in 1..(Len(SwapOut(range, it[t])) + 1)
    BY <1>0, <2>1, <2>2
  <2>. QED BY <1>10, <2>2, <2>3, ShapeOfRange
<1>11. CASE FeedReturns(t)
  BY <1>10, <1>11 DEF FeedReturns, range, Shape, Located
<1>12. CASE FeedThrows(t)
  <2>1. Moves("catch") /\ it[t] <= Len(range)
    BY <1>12 DEF FeedThrows, Moves, loopVars, range, Shape, Located
  <2>. QED BY <1>1, <2>1
<1>13. CASE Catch(t)
  <2>1. CASE swallows
    BY <1>10, <1>13, <2>1 DEF Catch, range, Shape, Located
  <2>2. CASE ~swallows
    <3>1. Moves("outerCatch")
      BY <1>13, <2>2 DEF Catch, Moves
    <3>. QED BY <1>1, <3>1
  <2>. QED BY <2>1, <2>2
<1>14. CASE OuterCatch(t)
  BY <1>14, LeaveShape DEF OuterCatch
<1>. QED BY <1>2, <1>3, <1>4, <1>5, <1>6, <1>7, <1>8, <1>9, <1>11, <1>12, <1>13, <1>14

\* A step that SetRange has no part in.
LEMMA SameRanges ==
    ASSUME Shape, UNCHANGED <<list, it, pc>> PROVE RangeShape'
BY DEF Shape, TypeOK, RangeShape, Located

LEMMA SharedTypes ==
    ASSUME Shape, NEW t \in Loggers,
           \/ open_record(t) \/ ApplyFilters(t) \/ OpenCatch(t) \/ push_record(t)
           \/ TryBusy(t) \/ TryConsume(t) \/ EndRound(t) \/ Consume(t)
           \/ FeedReturns(t) \/ FeedThrows(t) \/ Catch(t) \/ OuterCatch(t)
    PROVE  OtherTypes'
<1>. DEFINE range == list[t]
            Flags == /\ allLocked' \in [Loggers -> BOOLEAN]
                     /\ shuffled' \in [Loggers -> BOOLEAN]
            Sets == /\ held' \in [Loggers -> SUBSET AllSinks]
                    /\ failed' \in [Loggers -> SUBSET AllSinks]
            Counts == opened' \in [Loggers -> 0..NumRecords]
            Fed == /\ backend' \in [AllSinks -> Owners \cup {Nobody}]
                   /\ got' \in [AllSinks -> [Records -> Nat]]
<1>0. OtherTypes
  BY ShapeParts
<1>1. range \in Seq(AllSinks)
  BY DEF Shape, TypeOK
<1>2. UNCHANGED <<configVars, flushVars, destroyed>>
  BY DEF open_record, ApplyFilters, OpenCatch, push_record, TryBusy, TryConsume,
         EndRound, Consume, FeedReturns, FeedThrows, Catch, OuterCatch
<1>3. ASSUME Flags, Sets, Counts, Fed PROVE OtherTypes'
  BY <1>0, <1>2, <1>3 DEF OtherTypes, configVars, flushVars
<1>4. ASSUME UNCHANGED <<allLocked, shuffled>> PROVE Flags
  BY <1>0, <1>4, Zenon DEF OtherTypes
<1>5. ASSUME UNCHANGED <<held, failed>> PROVE Sets
  BY <1>0, <1>5 DEF OtherTypes
<1>6. ASSUME UNCHANGED opened PROVE Counts
  BY <1>0, <1>6 DEF OtherTypes
<1>7. ASSUME UNCHANGED <<backend, got>> PROVE Fed
  BY <1>0, <1>7 DEF OtherTypes
<1>8. ASSUME Leave(t) PROVE Flags /\ Sets
  BY <1>8, LeaveShape
<1>9. ASSUME NEW v \in BOOLEAN,
             allLocked' = [allLocked EXCEPT ![t] = v], UNCHANGED shuffled
      PROVE  Flags
  BY <1>0, <1>9, Zenon DEF OtherTypes
<1>10. ASSUME NEW s \in AllSinks, NEW owner \in Owners \cup {Nobody},
              backend' = [backend EXCEPT ![s] = owner],
              \/ UNCHANGED got
              \/ got' = [got EXCEPT ![s][Record(t)] = @ + 1]
       PROVE  Fed
  <2>1. backend' \in [AllSinks -> Owners \cup {Nobody}]
    BY <1>0, <1>10 DEF OtherTypes
  <2>2. got' \in [AllSinks -> [Records -> Nat]]
    <3>1. got[s] \in [Records -> Nat]
      BY <1>0 DEF OtherTypes
    <3>2. [got[s] EXCEPT ![Record(t)] = @ + 1] \in [Records -> Nat]
      <4>. HIDE DEF Records
      <4>. DEFINE f == got[s]
                  r == Record(t)
      <4>1. f \in [Records -> Nat]
        BY <3>1
      <4>. HIDE DEF f, r
      <4>2. [f EXCEPT ![r] = f[r] + 1] \in [Records -> Nat]
        <5>1. CASE r \in Records
          <6>1. f[r] + 1 \in Nat
            BY <4>1, <5>1
          <6>. QED BY <4>1, <6>1, Zenon
        <5>2. CASE r \notin Records
          <6>1. [f EXCEPT ![r] = f[r] + 1] = f
            BY <4>1, <5>2
          <6>. QED BY <4>1, <6>1
        <5>. QED BY <5>1, <5>2
      <4>. QED BY <4>2 DEF f, r
    <3>. QED BY <1>0, <1>10, <3>2 DEF OtherTypes
  <2>. QED BY <2>1, <2>2
<1>11. t \in Owners \cup {Nobody} /\ Nobody \in Owners \cup {Nobody}
  BY DEF Owners
<1>12. pc[t] \in {"block", "feedTry", "feed"} \/ it[t] <= Len(range) => Current(t) \in AllSinks
  <2>1. SUFFICES ASSUME pc[t] \in {"block", "feedTry", "feed"} \/ it[t] <= Len(range)
                 PROVE  Current(t) \in AllSinks
    OBVIOUS
  <2>2. it[t] \in 1..Len(range)
    BY <1>1, <2>1 DEF Shape, TypeOK, Located
  <2>. QED BY <1>1, <2>2 DEF Current
<1>. HIDE DEF Flags, Sets, Counts, Fed
<1>13. CASE open_record(t)
  <2>1. Counts
    BY <1>0, <1>13, BoundsAssumption DEF open_record, OtherTypes, Counts
  <2>. QED BY <1>3, <1>4, <1>5, <1>7, <1>13, <2>1 DEF open_record, loopVars
<1>14. CASE ApplyFilters(t)
  BY <1>3, <1>4, <1>5, <1>6, <1>7, <1>14 DEF ApplyFilters
<1>15. CASE OpenCatch(t)
  BY <1>3, <1>4, <1>5, <1>6, <1>7, <1>8, <1>15 DEF OpenCatch, loopVars
<1>16. CASE push_record(t)
  <2>1. Sets
    <3>1. PICK locked \in Subsequences(range) : held' = [held EXCEPT ![t] = Range(locked)]
      BY <1>16 DEF push_record
    <3>2. Range(locked) \subseteq AllSinks
      BY <1>1, SubsequenceFacts DEF Range
    <3>. QED BY <1>0, <1>16, <3>1, <3>2 DEF push_record, OtherTypes, Sets
  <2>2. Flags
    <3>1. PICK v \in BOOLEAN : shuffled' = [shuffled EXCEPT ![t] = v]
      <4>1. PICK locked : shuffled' = [shuffled EXCEPT ![t] = (Len(locked) <= 1)]
        BY <1>16 DEF push_record
      <4>2. (Len(locked) <= 1) \in BOOLEAN
        OBVIOUS
      <4>. QED BY <4>1, <4>2, Zenon
    <3>2. allLocked' = [allLocked EXCEPT ![t] = TRUE]
      BY <1>16 DEF push_record
    <3>. QED BY <1>0, <3>1, <3>2, Zenon DEF OtherTypes, Flags
  <2>. QED BY <1>3, <1>6, <1>7, <1>16, <2>1, <2>2 DEF push_record
<1>17. CASE TryBusy(t)
  BY <1>3, <1>4, <1>5, <1>6, <1>7, <1>17 DEF TryBusy
<1>18. CASE TryConsume(t)
  <2>1. Fed
    BY <1>10, <1>11, <1>12, <1>18 DEF TryConsume
  <2>. QED BY <1>3, <1>4, <1>5, <1>6, <1>18, <2>1 DEF TryConsume, loopVars
<1>19. CASE EndRound(t)
  <2>1. Flags /\ Sets
    <3>1. CASE Leave(t)
      BY <1>8, <3>1
    <3>2. CASE /\ allLocked' = [allLocked EXCEPT ![t] = TRUE]
               /\ UNCHANGED <<pc, shuffled, held, failed>>
      BY <1>5, <1>9, <3>2
    <3>3. CASE /\ shuffled' = [shuffled EXCEPT ![t] = TRUE]
               /\ UNCHANGED <<allLocked, held, failed>>
      <4>1. Flags
        BY <1>0, <3>3, Zenon DEF OtherTypes, Flags
      <4>. QED BY <1>5, <3>3, <4>1
    <3>. QED BY <1>19, <3>1, <3>2, <3>3 DEF EndRound
  <2>. QED BY <1>3, <1>6, <1>7, <1>19, <2>1 DEF EndRound
<1>20. CASE Consume(t)
  <2>1. Fed
    BY <1>10, <1>11, <1>12, <1>20 DEF Consume
  <2>. QED BY <1>3, <1>4, <1>5, <1>6, <1>20, <2>1 DEF Consume, loopVars
<1>21. CASE FeedReturns(t)
  <2>1. Fed
    BY <1>10, <1>11, <1>12, <1>21 DEF FeedReturns
  <2>2. PICK v \in BOOLEAN : allLocked' = [allLocked EXCEPT ![t] = v]
    BY <1>21 DEF FeedReturns
  <2>3. Flags
    BY <1>9, <1>21, <2>2 DEF FeedReturns
  <2>. QED BY <1>3, <1>5, <1>6, <1>21, <2>1, <2>3 DEF FeedReturns
<1>22. CASE FeedThrows(t)
  <2>1. Fed
    BY <1>10, <1>11, <1>12, <1>22 DEF FeedThrows
  <2>2. Sets
    BY <1>0, <1>12, <1>22 DEF FeedThrows, OtherTypes, Sets
  <2>. QED BY <1>3, <1>4, <1>6, <1>22, <2>1, <2>2 DEF FeedThrows, loopVars
<1>23. CASE Catch(t)
  <2>1. Flags
    BY <1>4, <1>9, <1>23 DEF Catch
  <2>. QED BY <1>3, <1>5, <1>6, <1>7, <1>23, <2>1 DEF Catch
<1>24. CASE OuterCatch(t)
  BY <1>3, <1>6, <1>7, <1>8, <1>24 DEF OuterCatch
<1>. QED BY <1>13, <1>14, <1>15, <1>16, <1>17, <1>18, <1>19, <1>20, <1>21, <1>22, <1>23, <1>24

\* What the flushing thread and the configuration do.
LEMMA ConfigTypes ==
    ASSUME Shape,
           \/ flush \/ FlushStep
           \/ \E s \in Sinks : add_sink(s) \/ remove_sink(s) \/ DestroySink(s)
           \/ remove_all_sinks \/ set_logging_enabled \/ set_exception_handler
           \/ UNCHANGED vars
    PROVE  Shape'
<1>. DEFINE Own == /\ enabled' \in BOOLEAN /\ swallows' \in BOOLEAN
                   /\ sinks' \in Seq(Sinks) /\ IsInjective(sinks')
                   /\ flushIt' \in 0..Len(sinks')
                   /\ changes' \in 0..MaxChanges /\ flushes' \in 0..MaxFlushes
                   /\ backend' \in [AllSinks -> Owners \cup {Nobody}]
                   /\ destroyed' \in SUBSET Sinks
<1>0. OtherTypes
  BY ShapeParts
<1>1. UNCHANGED <<pc, opened, loopVars, held, failed, got>>
  BY DEF flush, FlushStep, FlushSink, FlushSinkReturns, add_sink, remove_sink,
         DestroySink, remove_all_sinks, set_logging_enabled, set_exception_handler,
         Change, vars
<1>2. RangeShape'
  BY <1>1, SameRanges DEF loopVars
<1>3. SUFFICES Own
  <2>1. ASSUME Own PROVE OtherTypes'
    <3>1. allLocked' \in [Loggers -> BOOLEAN] /\ shuffled' \in [Loggers -> BOOLEAN]
      BY <1>0, <1>1, Zenon DEF OtherTypes, loopVars
    <3>. QED BY <1>0, <1>1, <2>1, <3>1 DEF OtherTypes
  <2>. QED BY <1>2, <2>1, ShapeParts
<1>. USE BoundsAssumption
<1>4. Len(sinks) \in Nat
  BY <1>0 DEF OtherTypes
<1>5. CASE flush
  <2>1. Len(sinks) # 0
    BY <1>0, <1>5 DEF flush, OtherTypes
  <2>2. flushIt' \in 0..Len(sinks')
    BY <1>4, <1>5, <2>1 DEF flush, configVars
  <2>. QED BY <1>0, <1>5, <2>2 DEF flush, OtherTypes, configVars
<1>6. CASE FlushStep
  <2>1. sinks[flushIt] \in AllSinks
    <3>1. flushIt \in 1..Len(sinks)
      BY <1>0, <1>4, <1>6 DEF FlushStep, FlushSink, FlushSinkReturns, Flushing, OtherTypes
    <3>. QED BY <1>0, <3>1 DEF OtherTypes, AllSinks
  <2>2. PICK owner \in Owners \cup {Nobody} : backend' = [backend EXCEPT ![sinks[flushIt]] = owner]
    BY <1>6 DEF FlushStep, FlushSink, FlushSinkReturns, Owners
  <2>3. backend' \in [AllSinks -> Owners \cup {Nobody}]
    BY <1>0, <2>1, <2>2 DEF OtherTypes
  <2>4. flushIt' \in 0..Len(sinks)
    BY <1>0, <1>4, <1>6 DEF FlushStep, FlushSink, FlushSinkReturns, NextFlushed,
                            OtherTypes, flushVars
  <2>. QED BY <1>0, <1>6, <2>3, <2>4 DEF FlushStep, FlushSink, FlushSinkReturns,
                                          OtherTypes, configVars, flushVars
<1>7. ASSUME Change, enabled' \in BOOLEAN, swallows' \in BOOLEAN,
             sinks' \in Seq(Sinks), IsInjective(sinks')
      PROVE  Own
  <2>1. flushIt = 0 /\ 0 \in 0..Len(sinks')
    BY <1>7 DEF Change, Flushing
  <2>2. changes' \in 0..MaxChanges
    BY <1>0, <1>7 DEF Change, OtherTypes
  <2>. QED BY <1>0, <1>7, <2>1, <2>2 DEF Change, OtherTypes, flushVars
<1>8. ASSUME NEW s \in Sinks, add_sink(s) PROVE Own
  <2>1. IsInjective(Append(sinks, s))
    BY <1>0, <1>4, <1>8 DEF OtherTypes, add_sink, IsInjective, Range
  <2>2. Append(sinks, s) \in Seq(Sinks)
    BY <1>0 DEF OtherTypes
  <2>. QED BY <1>0, <1>7, <1>8, <2>1, <2>2 DEF add_sink, OtherTypes
<1>9. ASSUME NEW s \in Sinks, remove_sink(s) PROVE Own
  <2>1. sinks' \in Seq(Sinks) /\ IsInjective(sinks')
    BY <1>0, <1>9, SubsequenceFacts DEF OtherTypes, remove_sink
  <2>. QED BY <1>0, <1>7, <1>9, <2>1 DEF remove_sink, OtherTypes
<1>10. ASSUME NEW s \in Sinks, DestroySink(s) PROVE Own
  BY <1>0, <1>10 DEF DestroySink, OtherTypes, configVars, flushVars
<1>11. CASE remove_all_sinks
  <2>1. <<>> \in Seq(Sinks) /\ IsInjective(<<>>)
    BY DEF IsInjective
  <2>. QED BY <1>0, <1>7, <1>11, <2>1 DEF remove_all_sinks, OtherTypes
<1>12. CASE set_logging_enabled
  BY <1>0, <1>7, <1>12 DEF set_logging_enabled, OtherTypes
<1>13. CASE set_exception_handler
  BY <1>0, <1>7, <1>13 DEF set_exception_handler, OtherTypes
<1>14. CASE UNCHANGED vars
  BY <1>0, <1>14 DEF vars, OtherTypes, configVars, flushVars
<1>. QED BY <1>5, <1>6, <1>8, <1>9, <1>10, <1>11, <1>12, <1>13, <1>14

LEMMA ShapeNext == Shape /\ [Next]_vars => Shape'
<1>. SUFFICES ASSUME Shape, [Next]_vars PROVE Shape'
  OBVIOUS
<1>1. ASSUME NEW t \in Loggers, open_record(t) \/ Step(t) PROVE Shape'
  BY <1>1, RangeSteps, SharedTypes, ShapeParts DEF Step
<1>. QED BY <1>1, ConfigTypes DEF Next

\* Every variable of the core keeps its type, no sink is registered twice, and
\* flush stands at a registered sink.
THEOREM TypeCorrect == Spec => []TypeOK
<1>1. Shape => TypeOK
  BY DEF Shape
<1>. QED BY <1>1, ShapeInit, ShapeNext, PTL DEF Spec

-------------------------------------------------------------------------------
(***************************************************************************)
(* Who holds the backends.                                                 *)
(***************************************************************************)

\* A step of a thread leaves what belongs to the other threads alone.
LEMMA OthersKeepTheirs ==
    ASSUME Shape, NEW t \in Loggers, NEW u \in Loggers \ {t}, open_record(t) \/ Step(t)
    PROVE  /\ pc'[u] = pc[u] /\ opened'[u] = opened[u]
           /\ list'[u] = list[u] /\ it'[u] = it[u]
           /\ held'[u] = held[u] /\ failed'[u] = failed[u]
           /\ \A s \in AllSinks, n \in 1..NumRecords :
                 got'[s][<<u, n>>] = got[s][<<u, n>>]
<1>1. \/ UNCHANGED got
      \/ got' = [got EXCEPT ![Current(t)][Record(t)] = @ + 1]
  BY DEF open_record, Step, ApplyFilters, OpenCatch, push_record, TryBusy, TryConsume,
         EndRound, Consume, FeedReturns, FeedThrows, Catch, OuterCatch
<1>2. ASSUME NEW s \in AllSinks, NEW n \in 1..NumRecords
      PROVE  got'[s][<<u, n>>] = got[s][<<u, n>>]
  <2>1. <<u, n>> # Record(t) /\ <<u, n>> \in Records
    BY DEF Record, Records
  <2>2. got[s] \in [Records -> Nat] /\ DOMAIN got = AllSinks
    BY DEF Shape, TypeOK
  <2>. HIDE DEF Records
  <2>3. CASE got' = [got EXCEPT ![Current(t)][Record(t)] = @ + 1]
    <3>1. got'[s] \in {got[s], [got[s] EXCEPT ![Record(t)] = @ + 1]}
      BY <2>2, <2>3
    <3>2. [got[s] EXCEPT ![Record(t)] = @ + 1][<<u, n>>] = got[s][<<u, n>>]
      BY <2>1, <2>2
    <3>. QED BY <3>1, <3>2
  <2>. QED BY <1>1, <2>3
<1>3. /\ \E a : pc' = [pc EXCEPT ![t] = a]
      /\ \E a : list' = [list EXCEPT ![t] = a]
      /\ \E a : it' = [it EXCEPT ![t] = a]
      /\ \E a : held' = [held EXCEPT ![t] = a]
      /\ \E a : failed' = [failed EXCEPT ![t] = a]
      /\ \E a : opened' = [opened EXCEPT ![t] = a]
  <2>. DEFINE Moves == /\ \E a : pc' = [pc EXCEPT ![t] = a]
                       /\ \E a : list' = [list EXCEPT ![t] = a]
                       /\ \E a : it' = [it EXCEPT ![t] = a]
              Marks == /\ \E a : held' = [held EXCEPT ![t] = a]
                       /\ \E a : failed' = [failed EXCEPT ![t] = a]
                       /\ \E a : opened' = [opened EXCEPT ![t] = a]
  <2>0. \A f : f \in {pc, list, it, held, failed, opened} => f = [f EXCEPT ![t] = f[t]]
    BY DEF Shape, TypeOK
  <2>1. UNCHANGED opened \/ open_record(t)
    BY DEF Step, ApplyFilters, OpenCatch, push_record, TryBusy, TryConsume,
           EndRound, Consume, FeedReturns, FeedThrows, Catch, OuterCatch
  <2>2. CASE open_record(t)
    BY <2>0, <2>2 DEF open_record, GoTo, loopVars
  <2>3. ASSUME Leave(t), UNCHANGED opened PROVE Moves /\ Marks
    BY <2>0, <2>3 DEF Leave, GoTo, SetRange
  <2>4. CASE ApplyFilters(t)
    BY <2>0, <2>4 DEF ApplyFilters, GoTo
  <2>5. CASE OpenCatch(t)
    BY <2>0, <2>3, <2>5 DEF OpenCatch, GoTo, loopVars
  <2>6. CASE push_record(t)
    BY <2>0, <2>6 DEF push_record, GoTo, SetRange
  <2>7. CASE TryBusy(t)
    BY <2>0, <2>7 DEF TryBusy
  <2>8. CASE TryConsume(t) \/ Consume(t)
    BY <2>0, <2>8 DEF TryConsume, Consume, GoTo, loopVars
  <2>9. CASE EndRound(t)
    BY <2>0, <2>3, <2>9 DEF EndRound, GoTo, SetRange
  <2>10. CASE FeedReturns(t)
    BY <2>0, <2>10 DEF FeedReturns, GoTo, SetRange
  <2>11. CASE FeedThrows(t)
    BY <2>0, <2>11 DEF FeedThrows, GoTo, loopVars
  <2>12. CASE Catch(t)
    BY <2>0, <2>12 DEF Catch, GoTo, SetRange
  <2>13. CASE OuterCatch(t)
    BY <2>3, <2>13 DEF OuterCatch
  <2>. QED BY <2>2, <2>4, <2>5, <2>6, <2>7, <2>8, <2>9, <2>10, <2>11, <2>12, <2>13 DEF Step
<1>4. /\ pc'[u] = pc[u] /\ opened'[u] = opened[u]
      /\ list'[u] = list[u] /\ it'[u] = it[u]
      /\ held'[u] = held[u] /\ failed'[u] = failed[u]
  BY <1>3 DEF Shape, TypeOK
<1>. QED BY <1>2, <1>4

\* Nobody but the thread inside a backend changes who holds it.
LEMMA HeldInit == Init => BackendHeldWhileFed
BY OwnersAssumption DEF Init, BackendHeldWhileFed, Owners

LEMMA HeldByThread ==
    ASSUME Shape, BackendHeldWhileFed, NEW t \in Loggers, open_record(t) \/ Step(t)
    PROVE  BackendHeldWhileFed'
<1>. DEFINE Owned(u) == \A s \in AllSinks :
                           backend[s] = u <=> pc[u] \in {"feedTry", "feed"} /\ Current(u) = s
<1>0. /\ \A u \in Loggers : Owned(u)
      /\ Nobody \notin Loggers
      /\ pc \in [Loggers -> Locations] /\ backend \in [AllSinks -> Owners \cup {Nobody}]
  BY OwnersAssumption DEF BackendHeldWhileFed, Shape, TypeOK, Owners
<1>1. ASSUME \A u \in Loggers : Owned(u)' PROVE BackendHeldWhileFed'
  BY <1>1 DEF BackendHeldWhileFed
<1>2. ASSUME NEW u \in Loggers \ {t} PROVE pc'[u] = pc[u] /\ Current(u)' = Current(u)
  BY OthersKeepTheirs DEF Current
<1>3. ASSUME UNCHANGED backend,
             pc[t] \notin {"feedTry", "feed"}, pc'[t] \notin {"feedTry", "feed"}
      PROVE  BackendHeldWhileFed'
  BY <1>0, <1>1, <1>2, <1>3
<1>4. ASSUME backend[Current(t)] = Nobody, backend' = [backend EXCEPT ![Current(t)] = t],
             UNCHANGED <<list, it>>,
             pc[t] \notin {"feedTry", "feed"}, pc'[t] \in {"feedTry", "feed"}
      PROVE  BackendHeldWhileFed'
  <2>1. Current(t)' = Current(t)
    BY <1>4 DEF Current
  <2>. QED BY <1>0, <1>1, <1>2, <1>4, <2>1
<1>5. ASSUME pc[t] \in {"feedTry", "feed"}, pc'[t] \notin {"feedTry", "feed"},
             backend' = [backend EXCEPT ![Current(t)] = Nobody]
      PROVE  BackendHeldWhileFed'
  BY <1>0, <1>1, <1>2, <1>5
<1>. HIDE DEF Owned
<1>. USE <1>0
<1>6. CASE open_record(t)
  BY <1>3, <1>6 DEF open_record, GoTo
<1>7. CASE ApplyFilters(t)
  BY <1>3, <1>7 DEF ApplyFilters, GoTo
<1>8. CASE OpenCatch(t)
  BY <1>3, <1>8 DEF OpenCatch, GoTo, Leave
<1>9. CASE push_record(t)
  BY <1>3, <1>9 DEF push_record, GoTo
<1>10. CASE TryBusy(t)
  BY <1>3, <1>10 DEF TryBusy
<1>11. CASE TryConsume(t)
  BY <1>4, <1>11 DEF TryConsume, GoTo, loopVars
<1>12. CASE EndRound(t)
  BY <1>3, <1>12 DEF EndRound, GoTo, Leave
<1>13. CASE Consume(t)
  BY <1>4, <1>13 DEF Consume, GoTo, loopVars
<1>14. CASE FeedReturns(t)
  BY <1>5, <1>14 DEF FeedReturns, GoTo
<1>15. CASE FeedThrows(t)
  BY <1>5, <1>15 DEF FeedThrows, GoTo
<1>16. CASE Catch(t)
  BY <1>3, <1>16 DEF Catch, GoTo
<1>17. CASE OuterCatch(t)
  BY <1>3, <1>17 DEF OuterCatch, GoTo, Leave
<1>. QED BY <1>6, <1>7, <1>8, <1>9, <1>10, <1>11, <1>12, <1>13, <1>14, <1>15, <1>16, <1>17 DEF Step

LEMMA HeldNext == Shape /\ BackendHeldWhileFed /\ [Next]_vars => BackendHeldWhileFed'
<1>. SUFFICES ASSUME Shape, BackendHeldWhileFed, [Next]_vars PROVE BackendHeldWhileFed'
  OBVIOUS
<1>1. ASSUME UNCHANGED <<pc, loopVars>>, UNCHANGED backend PROVE BackendHeldWhileFed'
  BY <1>1 DEF BackendHeldWhileFed, Current, loopVars
<1>2. CASE FlushStep
  <2>1. UNCHANGED <<pc, loopVars>>
    BY <1>2 DEF FlushStep, FlushSink, FlushSinkReturns
  <2>2. \A u \in Loggers : Current(u)' = Current(u)
    BY <2>1 DEF Current, loopVars
  <2>3. \/ /\ backend[sinks[flushIt]] = Nobody
           /\ backend' = [backend EXCEPT ![sinks[flushIt]] = Flusher]
        \/ /\ backend[sinks[flushIt]] = Flusher
           /\ backend' = [backend EXCEPT ![sinks[flushIt]] = Nobody]
    BY <1>2 DEF FlushStep, FlushSink, FlushSinkReturns
  <2>4. Flusher \notin Loggers /\ Nobody \notin Loggers
    BY OwnersAssumption DEF Owners
  <2>5. backend \in [AllSinks -> Owners \cup {Nobody}]
    BY DEF Shape, TypeOK
  <2>. QED BY <2>1, <2>2, <2>3, <2>4, <2>5 DEF BackendHeldWhileFed
<1>3. CASE \/ flush \/ remove_all_sinks \/ set_logging_enabled \/ set_exception_handler
           \/ \E s \in Sinks : add_sink(s) \/ remove_sink(s) \/ DestroySink(s)
           \/ UNCHANGED vars
  BY <1>1, <1>3 DEF flush, add_sink, remove_sink, DestroySink, remove_all_sinks,
                    set_logging_enabled, set_exception_handler, Change, vars
<1>. QED BY <1>2, <1>3, HeldByThread DEF Next

\* For any sinks and threads the mutex of a backend is held exactly by the
\* thread that is inside the backend, across exceptions and shuffles.
THEOREM OneThreadInEachBackend == Spec => []BackendHeldWhileFed
BY ShapeInit, ShapeNext, HeldInit, HeldNext, PTL DEF Spec

-------------------------------------------------------------------------------
(***************************************************************************)
(* Whom a record is served to.                                             *)
(***************************************************************************)
GotBy(t, s) == got[s][Record(t)]

\* The range holds locked sinks that have not got the record, and a locked sink
\* that is not in the range any more has got it or has thrown.
Served(t) ==
    /\ pc[t] # "idle" => opened[t] \in 1..NumRecords
    /\ \A s \in AllSinks, n \in 1..NumRecords :
          /\ got[s][<<t, n>>] <= 1
          /\ n > opened[t] => got[s][<<t, n>>] = 0
    /\ pc[t] \in {"filter", "openCatch", "opened"} => \A s \in AllSinks : GotBy(t, s) = 0
    /\ pc[t] \in Pushing =>
          /\ Range(list[t]) \subseteq held[t]
          /\ \A s \in Range(list[t]) : GotBy(t, s) = 0
          /\ \A s \in held[t] :
                s \in Range(list[t]) \/ s \in failed[t] \/ GotBy(t, s) = 1
    /\ pc[t] = "catch" => Current(t) \in failed[t]

\* The sinks that a thread has locked exist.
HeldExist == \A t \in Loggers : held[t] \cap destroyed = {}

Serving == HeldExist /\ \A t \in Loggers : Served(t)

LEMMA ServingInit == Init => Serving
<1>. SUFFICES ASSUME Init PROVE Serving
  OBVIOUS
<1>1. ASSUME NEW t \in Loggers PROVE Served(t)
  BY <1>1 DEF Init, Served, Records, Pushing
<1>. QED BY <1>1 DEF Init, Serving, HeldExist

\* A thread that keeps what Served speaks of is served as before.
LEMMA SameServed ==
    ASSUME NEW t \in Loggers, Served(t),
           pc'[t] = pc[t], opened'[t] = opened[t], list'[t] = list[t], it'[t] = it[t],
           held'[t] = held[t], failed'[t] = failed[t],
           opened[t] \in 0..NumRecords, held[t] \subseteq AllSinks, NumRecords \in Nat,
           \A s \in AllSinks, n \in 1..NumRecords : got'[s][<<t, n>>] = got[s][<<t, n>>]
    PROVE  Served(t)'
<1>1. Record(t)' = Record(t) /\ Record(t) = <<t, opened[t]>> /\ Current(t)' = Current(t)
  BY DEF Record, Current
<1>2. ASSUME pc[t] # "idle", NEW s \in AllSinks PROVE GotBy(t, s)' = GotBy(t, s)
  BY <1>1, <1>2 DEF Served, GotBy
<1>3. pc[t] \in Pushing => Range(list[t]) \subseteq AllSinks /\ pc[t] # "idle"
  BY DEF Served, Pushing
<1>. QED BY <1>1, <1>2, <1>3 DEF Served

\* The sinks a thread has locked are not dropped under its feet.
LEMMA HeldExistNext == Shape /\ HeldExist /\ [Next]_vars => HeldExist'
<1>. SUFFICES ASSUME Shape, HeldExist, [Next]_vars PROVE HeldExist'
  OBVIOUS
<1>1. ASSUME NEW t \in Loggers, open_record(t) \/ Step(t) PROVE HeldExist'
  <2>1. UNCHANGED destroyed
    BY <1>1 DEF open_record, Step, ApplyFilters, OpenCatch, push_record, TryBusy, TryConsume,
           EndRound, Consume, FeedReturns, FeedThrows, Catch, OuterCatch
  <2>2. \/ UNCHANGED held
        \/ held' = [held EXCEPT ![t] = {}]
        \/ held' = [held EXCEPT ![t] = Range(list'[t])] /\ push_record(t)
    <3>1. CASE push_record(t)
      BY <3>1 DEF push_record, SetRange, Shape, TypeOK
    <3>2. CASE ~push_record(t)
      BY <1>1, <3>2 DEF open_record, Step, ApplyFilters, OpenCatch, TryBusy, TryConsume,
           EndRound, Consume, FeedReturns, FeedThrows, Catch, OuterCatch, Leave
    <3>. QED BY <3>1, <3>2
  <2>3. CASE push_record(t)
    <3>1. PICK locked : /\ Range(locked) = Range(list[t]) \ destroyed
                        /\ held' = [held EXCEPT ![t] = Range(locked)]
      BY <2>3 DEF push_record
    <3>. QED BY <2>1, <3>1 DEF HeldExist, Shape, TypeOK
  <2>. QED BY <2>1, <2>2, <2>3 DEF HeldExist, Shape, TypeOK
<1>2. ASSUME NEW s \in Sinks, DestroySink(s) PROVE HeldExist'
  BY <1>2 DEF DestroySink, HeldExist
<1>3. ASSUME UNCHANGED <<held, destroyed>> PROVE HeldExist'
  BY <1>3 DEF HeldExist
<1>4. CASE \/ flush \/ FlushStep \/ remove_all_sinks \/ set_logging_enabled
           \/ set_exception_handler \/ \E s \in Sinks : add_sink(s) \/ remove_sink(s)
           \/ UNCHANGED vars
  BY <1>3, <1>4 DEF flush, FlushStep, FlushSink, FlushSinkReturns, add_sink, remove_sink,
         remove_all_sinks, set_logging_enabled, set_exception_handler, Change, vars
<1>. QED BY <1>1, <1>2, <1>4 DEF Next

\* Leaving ends the account of the record.
LEMMA ServedLeave ==
    ASSUME NEW t \in Loggers, Shape, Served(t), Leave(t), UNCHANGED <<opened, got>>
    PROVE  Served(t)'
<1>1. pc'[t] = "idle"
  BY DEF Leave, GoTo, Shape, TypeOK
<1>. QED BY <1>1 DEF Served, Pushing

\* The record of the thread in the actions that do not feed anything.
LEMMA ServedOpening ==
    ASSUME NEW t \in Loggers, Shape, Serving,
           open_record(t) \/ ApplyFilters(t) \/ OpenCatch(t) \/ push_record(t)
    PROVE  Served(t)'
<1>. USE BoundsAssumption
<1>0. /\ Served(t) /\ opened[t] \in 0..NumRecords
      /\ pc \in [Loggers -> Locations] /\ list \in [Loggers -> Seq(AllSinks)]
      /\ held \in [Loggers -> SUBSET AllSinks]
  BY DEF Serving, Shape, TypeOK
<1>1. CASE open_record(t)
  <2>1. opened'[t] = opened[t] + 1 /\ pc'[t] = "filter" /\ got' = got
    BY <1>0, <1>1 DEF open_record, GoTo, Shape, TypeOK
  <2>2. opened'[t] \in 1..NumRecords
    BY <1>0, <1>1, <2>1 DEF open_record
  <2>3. ASSUME NEW s \in AllSinks, NEW n \in 1..NumRecords
        PROVE  /\ got'[s][<<t, n>>] <= 1
               /\ n >= opened'[t] => got'[s][<<t, n>>] = 0
    BY <1>0, <2>1 DEF Served
  <2>4. \A s \in AllSinks : GotBy(t, s)' = 0
    BY <1>0, <2>2, <2>3 DEF GotBy, Record
  <2>. QED BY <1>0, <2>1, <2>2, <2>3, <2>4 DEF Served, Pushing
\* The record is not fed yet.
<1>2. ASSUME UNCHANGED <<opened, got>>, pc[t] \in {"filter", "openCatch", "opened"},
             pc'[t] \in {"filter", "openCatch", "opened", "idle"}
      PROVE  Served(t)'
  <2>1. \A s \in AllSinks : GotBy(t, s)' = GotBy(t, s)
    BY <1>2 DEF GotBy, Record
  <2>. QED BY <1>0, <1>2, <2>1 DEF Served, Pushing
<1>3. CASE ApplyFilters(t)
  BY <1>0, <1>2, <1>3 DEF ApplyFilters, GoTo
<1>4. CASE OpenCatch(t)
  BY <1>0, <1>2, <1>4 DEF OpenCatch, GoTo, Leave
<1>5. CASE push_record(t)
  <2>1. UNCHANGED <<opened, got>> /\ pc[t] = "opened" /\ pc'[t] = "try"
    BY <1>0, <1>5 DEF push_record, GoTo
  <2>2. list'[t] \in Seq(AllSinks) /\ held'[t] = Range(list'[t])
    <3>1. PICK locked \in Subsequences(list[t]) :
              SetRange(t, locked, 1) /\ held' = [held EXCEPT ![t] = Range(locked)]
      BY <1>5 DEF push_record
    <3>2. locked \in Seq(AllSinks)
      BY <1>0, SubsequenceFacts
    <3>. QED BY <1>0, <3>1, <3>2 DEF SetRange
  <2>3. Range(list'[t]) \subseteq AllSinks
    BY <2>2 DEF Range
  <2>4. \A s \in AllSinks : GotBy(t, s)' = GotBy(t, s)
    BY <2>1 DEF GotBy, Record
  <2>5. \A s \in AllSinks : GotBy(t, s) = 0
    BY <1>0, <2>1 DEF Served
  <2>. QED BY <1>0, <2>1, <2>2, <2>3, <2>4, <2>5 DEF Served, Pushing
<1>. QED BY <1>1, <1>3, <1>4, <1>5
\* The loop of push_record.
LEMMA ServedPushing ==
    ASSUME NEW t \in Loggers, Shape, Serving,
           \/ TryBusy(t) \/ TryConsume(t) \/ EndRound(t) \/ Consume(t)
           \/ FeedReturns(t) \/ FeedThrows(t) \/ Catch(t) \/ OuterCatch(t)
    PROVE  Served(t)'
<1>. DEFINE range == list[t]
<1>0. /\ Served(t) /\ opened[t] \in 0..NumRecords /\ Located(t)
      /\ pc \in [Loggers -> Locations] /\ list \in [Loggers -> Seq(AllSinks)]
      /\ held \in [Loggers -> SUBSET AllSinks] /\ failed \in [Loggers -> SUBSET AllSinks]
      /\ it \in [Loggers -> Nat \ {0}]
  BY DEF Serving, Shape, TypeOK
<1>1. range \in Seq(AllSinks) /\ Range(range) \subseteq AllSinks /\ IsInjective(range)
  BY <1>0 DEF Range, Located
<1>2. UNCHANGED opened /\ Record(t)' = Record(t)
  BY DEF TryBusy, TryConsume, EndRound, Consume, FeedReturns, FeedThrows, Catch,
         OuterCatch, Record
<1>3. pc[t] \in {"try", "block", "feedTry", "feed", "catch", "outerCatch"}
  BY DEF TryBusy, TryConsume, EndRound, Consume, FeedReturns, FeedThrows, Catch, OuterCatch
<1>4. ASSUME it[t] \in 1..Len(range)
      PROVE  /\ Range(SwapOut(range, it[t])) = Range(range) \ {Current(t)}
             /\ Current(t) \in Range(range)
  <2>1. Current(t) \in Range(range)
    BY <1>1, <1>4 DEF Current, Range
  <2>. QED BY <1>1, <1>4, <2>1, SwapOutFacts DEF Current
<1>5. pc[t] \in {"block", "feedTry", "feed", "catch"} => it[t] \in 1..Len(range)
  BY <1>0, <1>1 DEF Located
\* The range holds the same sinks as before.
<1>6. ASSUME pc[t] \in Pushing, UNCHANGED <<got, held, failed>>,
             Range(list'[t]) = Range(range),
             pc'[t] \in Pushing \ {"catch"}
      PROVE  Served(t)'
  <2>1. \A s \in AllSinks : GotBy(t, s)' = GotBy(t, s)
    BY <1>2, <1>6 DEF GotBy
  <2>. QED BY <1>0, <1>1, <1>2, <1>3, <1>6, <2>1 DEF Served, Pushing
<1>. HIDE DEF range
<1>7. CASE TryBusy(t)
  BY <1>0, <1>6, <1>7 DEF TryBusy, Pushing, range
<1>8. CASE TryConsume(t)
  BY <1>0, <1>6, <1>8 DEF TryConsume, GoTo, Pushing, loopVars, range
<1>9. CASE Consume(t)
  BY <1>0, <1>6, <1>9 DEF Consume, GoTo, Pushing, loopVars, range
<1>10. CASE EndRound(t)
  <2>1. CASE Leave(t)
    BY <1>0, <1>10, <2>1, ServedLeave DEF EndRound
  <2>2. CASE SetRange(t, list[t], 1) /\ UNCHANGED <<pc, held, failed>>
    BY <1>0, <1>6, <1>10, <2>2 DEF EndRound, SetRange, Pushing, range
  <2>3. ASSUME NEW order \in Bijection(DOMAIN range, DOMAIN range),
               SetRange(t, [i \in DOMAIN range |-> range[order[i]]], 1),
               GoTo(t, "block"), UNCHANGED <<held, failed>>
        PROVE  Served(t)'
    <3>1. Range([i \in DOMAIN range |-> range[order[i]]]) = Range(range)
      BY <1>1, ShuffleFacts
    <3>2. list'[t] = [i \in DOMAIN range |-> range[order[i]]] /\ pc'[t] = "block"
      BY <1>0, <2>3 DEF SetRange, GoTo
    <3>. QED BY <1>6, <1>10, <2>3, <3>1, <3>2 DEF EndRound, Pushing
  <2>. QED BY <1>10, <2>1, <2>2, <2>3 DEF EndRound, range
<1>11. CASE FeedReturns(t)
  <2>. DEFINE new == Range(list'[t])
  <2>1. /\ pc[t] \in {"feedTry", "feed"} /\ pc'[t] = "try"
        /\ got' = [got EXCEPT ![Current(t)][Record(t)] = @ + 1]
        /\ held' = held /\ failed' = failed
        /\ new = Range(range) \ {Current(t)} /\ Current(t) \in Range(range)
    BY <1>0, <1>4, <1>5, <1>11 DEF FeedReturns, GoTo, SetRange, range
  <2>2. opened[t] \in 1..NumRecords /\ Record(t) = <<t, opened[t]>> /\ Record(t) \in Records
    BY <1>0, <2>1 DEF Served, Record, Records
  <2>3. got \in [AllSinks -> [Records -> Nat]] /\ Current(t) \in AllSinks
    BY <1>1, <2>1 DEF Shape, TypeOK
  <2>4. ASSUME NEW s \in AllSinks, NEW r \in Records
        PROVE  got'[s][r] = IF s = Current(t) /\ r = Record(t) THEN got[s][r] + 1 ELSE got[s][r]
    <3>1. got'[s] = IF s = Current(t) THEN [got[s] EXCEPT ![Record(t)] = @ + 1] ELSE got[s]
      BY <2>1, <2>3
    <3>2. [got[s] EXCEPT ![Record(t)] = @ + 1][r]
             = IF r = Record(t) THEN got[s][r] + 1 ELSE got[s][r]
      BY <2>3
    <3>. QED BY <3>1, <3>2
  <2>5. GotBy(t, Current(t)) = 0
    BY <1>0, <2>1 DEF Served, Pushing, range
  <2>6. \A s \in AllSinks : GotBy(t, s)' = IF s = Current(t) THEN 1 ELSE GotBy(t, s)
    BY <1>2, <2>2, <2>4, <2>5 DEF GotBy
  <2>7. ASSUME NEW s \in AllSinks, NEW n \in 1..NumRecords
        PROVE  /\ got'[s][<<t, n>>] <= 1
               /\ n > opened[t] => got'[s][<<t, n>>] = 0
    <3>1. <<t, n>> \in Records
      BY DEF Records
    <3>2. CASE n = opened[t]
      <4>1. got'[s][<<t, n>>] = GotBy(t, s)'
        BY <1>2, <2>2, <3>2 DEF GotBy
      <4>2. GotBy(t, s) <= 1
        BY <1>0, <2>2 DEF Served, GotBy
      <4>3. GotBy(t, s)' <= 1
        BY <2>6, <4>2
      <4>4. ~(n > opened[t])
        BY <2>2, <3>2
      <4>. QED BY <4>1, <4>3, <4>4
    <3>3. CASE n # opened[t]
      <4>1. got'[s][<<t, n>>] = got[s][<<t, n>>]
        BY <2>2, <2>4, <3>1, <3>3
      <4>. QED BY <1>0, <4>1 DEF Served
    <3>. QED BY <3>2, <3>3
  <2>. HIDE DEF new
  <2>8. /\ new \subseteq held'[t]
        /\ \A s \in new : GotBy(t, s)' = 0
        /\ \A s \in held'[t] : s \in new \/ s \in failed'[t] \/ GotBy(t, s)' = 1
    BY <1>0, <1>1, <2>1, <2>6 DEF Served, Pushing, range
  <2>. QED BY <1>2, <2>1, <2>2, <2>7, <2>8 DEF Served, Pushing, new
\* The range stays and one more sink may have failed.
<1>12. CASE FeedThrows(t)
  <2>1. /\ pc[t] \in {"feedTry", "feed"} /\ pc'[t] = "catch"
        /\ UNCHANGED <<got, held, list, it>>
        /\ failed'[t] = failed[t] \cup {Current(t)}
    BY <1>0, <1>12 DEF FeedThrows, GoTo, loopVars
  <2>2. Current(t)' = Current(t)
    BY <2>1 DEF Current
  <2>3. \A s \in AllSinks : GotBy(t, s)' = GotBy(t, s)
    BY <1>2, <2>1 DEF GotBy
  <2>. QED BY <1>0, <1>1, <1>2, <2>1, <2>2, <2>3 DEF Served, Pushing, range
<1>13. CASE Catch(t)
  <2>1. pc[t] = "catch" /\ UNCHANGED <<got, held, failed>>
    BY <1>13 DEF Catch
  <2>2. \A s \in AllSinks : GotBy(t, s)' = GotBy(t, s)
    BY <1>2, <2>1 DEF GotBy
  <2>3. CASE swallows
    <3>1. /\ pc'[t] = "try" /\ Current(t) \in failed[t]
          /\ Range(list'[t]) = Range(range) \ {Current(t)}
      BY <1>0, <1>4, <1>5, <1>13, <2>1, <2>3 DEF Catch, GoTo, SetRange, Served, range
    <3>. QED BY <1>0, <1>1, <1>2, <2>1, <2>2, <3>1 DEF Served, Pushing, range
  <2>4. CASE ~swallows
    <3>1. pc'[t] = "outerCatch"
      BY <1>0, <1>13, <2>4 DEF Catch, GoTo
    <3>. QED BY <1>0, <1>2, <2>1, <2>2, <3>1 DEF Served, Pushing
  <2>. QED BY <2>3, <2>4
<1>14. CASE OuterCatch(t)
  BY <1>0, <1>14, ServedLeave DEF OuterCatch
<1>. QED BY <1>7, <1>8, <1>9, <1>10, <1>11, <1>12, <1>13, <1>14

LEMMA ServingNext == Shape /\ Serving /\ [Next]_vars => Serving'
<1>. SUFFICES ASSUME Shape, Serving, [Next]_vars PROVE Serving'
  OBVIOUS
<1>1. HeldExist'
  BY HeldExistNext DEF Serving
<1>2. ASSUME NEW u \in Loggers PROVE Served(u)'
  <2>0. /\ Served(u) /\ opened[u] \in 0..NumRecords /\ held[u] \subseteq AllSinks
        /\ NumRecords \in Nat
    BY BoundsAssumption DEF Serving, Shape, TypeOK
  <2>1. ASSUME NEW t \in Loggers \ {u}, open_record(t) \/ Step(t) PROVE Served(u)'
    BY <2>0, <2>1, OthersKeepTheirs, SameServed
  <2>2. CASE open_record(u) \/ Step(u)
    BY <2>2, ServedOpening, ServedPushing DEF Step
  <2>3. ASSUME UNCHANGED <<pc, opened, loopVars, held, failed, got>> PROVE Served(u)'
    BY <2>0, <2>3, SameServed DEF loopVars
  <2>4. CASE \/ flush \/ FlushStep \/ remove_all_sinks \/ set_logging_enabled
             \/ set_exception_handler
             \/ \E s \in Sinks : add_sink(s) \/ remove_sink(s) \/ DestroySink(s)
             \/ UNCHANGED vars
    BY <2>3, <2>4 DEF flush, FlushStep, FlushSink, FlushSinkReturns, add_sink, remove_sink,
         DestroySink, remove_all_sinks, set_logging_enabled, set_exception_handler, Change, vars
  <2>. QED BY <2>1, <2>2, <2>4 DEF Next
<1>. QED BY <1>1, <1>2 DEF Serving

LEMMA ServingInvariant == Spec => [](Shape /\ Serving)
BY ShapeInit, ShapeNext, ServingInit, ServingNext, PTL DEF Spec

\* For any threads, sinks and bounds no backend gets a record twice, and
\* push_record feeds sinks that exist only.
THEOREM ExistingSinksAreServedOnce == Spec => []ServedOnceWhileTheyExist
<1>1. Shape /\ Serving => ServedOnce
  BY DEF Serving, Served, ServedOnce, Records
<1>2. Shape /\ Serving => FedSinksExist
  BY DEF Serving, Served, HeldExist, FedSinksExist
<1>. QED BY <1>1, <1>2, ServingInvariant, PTL DEF ServedOnceWhileTheyExist

\* For any threads, sinks and bounds a push_record that comes to its end has
\* served every sink it had locked, but for those that threw.
THEOREM EverySinkIsServed == Spec => PushServesEverySink
<1>. DEFINE Ends == \A t \in Loggers :
                       pc[t] = "try" /\ pc'[t] = "idle" =>
                           \A s \in held[t] : s \in failed[t] \/ got[s][Record(t)] = 1
<1>1. Shape /\ Serving /\ [Next]_vars => [Ends]_vars
  <2>. SUFFICES ASSUME Shape, Serving, [Next]_vars,
                       NEW t \in Loggers, pc[t] = "try", pc'[t] = "idle"
                PROVE  \A s \in held[t] : s \in failed[t] \/ got[s][Record(t)] = 1
    OBVIOUS
  <2>0. pc \in [Loggers -> Locations]
    BY DEF Shape, TypeOK
  <2>1. list[t] = <<>>
    <3>1. PICK u \in Loggers : open_record(u) \/ Step(u)
      BY DEF Next, flush, FlushStep, FlushSink, FlushSinkReturns, add_sink, remove_sink,
         DestroySink, remove_all_sinks, set_logging_enabled, set_exception_handler, Change, vars
    <3>2. u = t
      BY <3>1, OthersKeepTheirs
    <3>3. EndRound(t)
      BY <2>0, <3>1, <3>2 DEF open_record, Step, ApplyFilters, OpenCatch, push_record, TryBusy,
             TryConsume, Consume, FeedReturns, FeedThrows, Catch, OuterCatch, GoTo
    <3>. QED BY <2>0, <3>3 DEF EndRound, GoTo
  <2>2. Range(list[t]) = {}
    BY <2>1 DEF Range
  <2>. QED BY <2>2 DEF Serving, Served, Pushing, GotBy
<1>. QED BY <1>1, ServingInvariant, PTL DEF Spec, PushServesEverySink

(* The loggers.                                                            *)

\* The calls a thread can be in.
LogPlaces == {"open", "set", "core", "message", "handle_open", "handle_push", "handled_in_open",
              "handled_in_push"}
CellOrNone == Addresses \cup {NoOne}
Severities == {a.severity : a \in Arguments}
Named == {a.channel : a \in Arguments} \cup {NoOne}

Statements == [at : LogPlaces, l : Addresses, severity : Severities, channel : Named, read : Named,
               alone : BOOLEAN, nested : BOOLEAN]
ChannelCalls == [at : {"lock", "change"}, op : {"channel"}, l : Addresses, channel : Named]
RemoveCalls == [at : {"lock", "change"}, op : {"remove_all_attributes"}, l : Addresses]
SetCalls == [at : {"get", "got", "lock", "change"}, op : {"set_attributes"}, l : Addresses,
             from : Addresses, set : CellOrNone]
Copies == [at : {"copy", "copied"}, op : {"assign"}, l : Addresses, from : Addresses,
           cell : CellOrNone, set : CellOrNone]
Assignments == [at : {"lock", "change"}, op : {"assign"}, l : Addresses, from : Addresses,
                cell : Addresses, set : CellOrNone]
Swaps == [at : {"lock_first", "lock_second", "swap"}, op : {"swap"}, l : Addresses, from : Addresses]
OtherCalls == ChannelCalls \cup RemoveCalls \cup SetCalls \cup Copies \cup Assignments \cup Swaps

\* A statement is in the message of the one below it, and calls of other kinds
\* nest in nothing.
IsStack(stack) ==
    /\ stack \in Seq(Statements \cup OtherCalls)
    /\ \A i \in 1..Len(stack) :
          /\ i < Len(stack) => stack[i].at = "message"
          /\ stack[i] \in OtherCalls => i = 1
          /\ stack[i] \in Swaps => stack[i].l # stack[i].from
          /\ stack[i] \in Statements /\ ~ChannelFeature => stack[i].channel = NoOne

Mutexes == [exclusive : Callers \cup {NoOne}, shared : Seq(Callers), barrier : BOOLEAN]

LGTypes ==
    /\ ChannelFeature \in BOOLEAN
    /\ m_ChannelAttr \in [Addresses -> Addresses]
    /\ m_Attributes \in [Addresses -> CellOrNone]
    /\ m_Value \in [Addresses -> Named]
    /\ g_Severity \in [Callers -> Severities]
    /\ DOMAIN frames = Callers
    /\ \A t \in Callers : IsStack(frames[t])

\* What a thread has locked, by the place where it stands; this is about loggers
\* with the channel feature, where a statement takes an exclusive lock.
HasExclusively(t, l) ==
    \/ (At(t, "set") \/ At(t, "core") \/ At(t, "handle_open") \/ At(t, "change")) /\ Top(t).l = l
    \/ At(t, "lock_second") /\ First(Top(t)) = l
    \/ At(t, "swap") /\ l \in {Top(t).l, Top(t).from}
Reads(t, l) ==
    \/ (At(t, "got") \/ At(t, "copied")) /\ Top(t).from = l
    \/ At(t, "handled_in_push") /\ Top(t).l = l

IsReader(t, m) == \E i \in 1..Len(m.shared) : m.shared[i] = t

LocksExclude ==
    /\ mutex_of \in [Addresses -> Mutexes]
    /\ \A l \in Addresses : mutex_of[l].exclusive # NoOne => mutex_of[l].shared = <<>>
    /\ \A t \in Callers, l \in Addresses :
          /\ HasExclusively(t, l) => mutex_of[l].exclusive = t
          /\ Reads(t, l) => IsReader(t, mutex_of[l])
          /\ ~At(t, "handled_in_open")

\* What a statement relies on between the opening of its record and the message,
\* and from then on.
Keeps(t, f) ==
    /\ f.at \in {"core", "message"} /\ ~f.nested => g_Severity[t] = f.severity
    /\ f.at = "core" /\ f.alone /\ f.channel # NoOne
          => Alone(f.l) /\ m_Value[m_ChannelAttr[f.l]] = f.channel
    /\ f.at = "message" /\ f.alone /\ f.channel # NoOne => f.read = f.channel

KeepsAll ==
    \A t \in Callers : \A i \in 1..Len(frames[t]) :
        frames[t][i] \in Statements => Keeps(t, frames[t][i])

LGInv == LGTypes /\ (ChannelFeature => LocksExclude) /\ KeepsAll /\ WrittenAsOpened

\* Whatever a thread does, it changes its own calls: the innermost one, or it
\* leaves it, or enters another one.
OthersStay(t) == DOMAIN frames' = Callers /\ \A u \in Callers \ {t} : frames'[u] = frames[u]

LEMMA InnermostIsCall ==
    ASSUME LGTypes, NEW t \in Callers, frames[t] # <<>>
    PROVE  /\ Len(frames[t]) \in Nat /\ Len(frames[t]) >= 1 /\ Top(t) \in Statements \cup OtherCalls
           /\ Top(t) \in OtherCalls => Len(frames[t]) = 1
           /\ Top(t) \in Swaps => Top(t).l # Top(t).from
           /\ Top(t) \in Statements /\ ~ChannelFeature => Top(t).channel = NoOne
<1>1. IsStack(frames[t])
  BY DEF LGTypes
<1>2. frames[t] \in Seq(Statements \cup OtherCalls)
  BY <1>1 DEF IsStack
<1>3. Len(frames[t]) \in Nat /\ Len(frames[t]) # 0
  BY <1>2, EmptySeq
<1>4. Len(frames[t]) >= 1 /\ Len(frames[t]) \in 1..Len(frames[t])
  BY <1>3
<1>5. Top(t) \in Statements \cup OtherCalls
  BY <1>2, <1>4 DEF Top
<1> QED BY <1>1, <1>3, <1>4, <1>5 DEF IsStack, Top

LEMMA InnermostChanges ==
    ASSUME LGTypes, NEW t \in Callers, frames[t] # <<>>, UNCHANGED ChannelFeature,
           NEW g \in Statements \cup OtherCalls,
           g \in OtherCalls => Top(t) \in OtherCalls,
           g \in Swaps => g.l # g.from,
           g \in Statements /\ ~ChannelFeature => g.channel = NoOne,
           frames' = [frames EXCEPT ![t] = [frames[t] EXCEPT ![Len(frames[t])] = g]]
    PROVE  /\ OthersStay(t) /\ frames'[t] # <<>> /\ Top(t)' = g
           /\ IsStack(frames[t])'
           /\ Len(frames'[t]) = Len(frames[t])
           /\ \A i \in 1..(Len(frames[t]) - 1) : frames'[t][i] = frames[t][i]
<1> DEFINE n == Len(frames[t])
           S == Statements \cup OtherCalls
<1>1. n \in Nat /\ n >= 1 /\ (g \in OtherCalls => n = 1)
  BY InnermostIsCall
<1>2. IsStack(frames[t]) /\ frames[t] \in Seq(S) /\ DOMAIN frames = Callers
  BY DEF LGTypes, IsStack
<1> HIDE DEF S
<1>3. OthersStay(t) /\ frames'[t] = [frames[t] EXCEPT ![n] = g]
  BY <1>2 DEF OthersStay
<1>4. /\ frames'[t] \in Seq(S) /\ Len(frames'[t]) = n /\ frames'[t][n] = g
      /\ \A i \in 1..(n - 1) : frames'[t][i] = frames[t][i]
  <2>1. g \in S
    BY DEF S
  <2> QED BY <1>1, <1>2, <1>3, <2>1
<1>5. frames'[t] # <<>>
  BY <1>1, <1>4, EmptySeq
<1>6. Top(t)' = g
  BY <1>4 DEF Top
<1>7. ASSUME NEW i \in 1..n
      PROVE  /\ i < n => frames'[t][i].at = "message"
             /\ frames'[t][i] \in OtherCalls => i = 1
             /\ frames'[t][i] \in Swaps => frames'[t][i].l # frames'[t][i].from
             /\ frames'[t][i] \in Statements /\ ~ChannelFeature => frames'[t][i].channel = NoOne
  <2>1. CASE i = n
    BY <1>1, <1>4, <2>1
  <2>2. CASE i # n
    <3>1. i \in 1..(n - 1) /\ i < n
      BY <1>1, <2>2
    <3>2. frames'[t][i] = frames[t][i]
      BY <1>4, <3>1
    <3> QED BY <1>2, <3>1, <3>2 DEF IsStack
  <2> QED BY <2>1, <2>2
<1>8. IsStack(frames[t])'
  BY <1>4, <1>7 DEF IsStack, S
<1> QED BY <1>3, <1>4, <1>5, <1>6, <1>8

\* After a call is left there is the message of the statement below it.
LEMMA CallIsLeft ==
    ASSUME LGTypes, NEW t \in Callers, frames[t] # <<>>, UNCHANGED ChannelFeature, LeaveCall(t)
    PROVE  /\ OthersStay(t) /\ IsStack(frames[t])'
           /\ frames'[t] # <<>> => Top(t)'.at = "message"
           /\ Len(frames'[t]) = Len(frames[t]) - 1
           /\ \A i \in 1..(Len(frames[t]) - 1) : frames'[t][i] = frames[t][i]
<1> DEFINE n == Len(frames[t])
           S == Statements \cup OtherCalls
<1>1. n \in Nat /\ n >= 1
  BY InnermostIsCall
<1>2. IsStack(frames[t]) /\ frames[t] \in Seq(S) /\ DOMAIN frames = Callers
  BY DEF LGTypes, IsStack
<1> HIDE DEF S
<1>3. OthersStay(t) /\ frames'[t] = SubSeq(frames[t], 1, n - 1)
  BY <1>2 DEF OthersStay, LeaveCall
<1>4. /\ frames'[t] \in Seq(S) /\ Len(frames'[t]) = n - 1
      /\ \A i \in 1..(n - 1) : frames'[t][i] = frames[t][i]
  <2> DEFINE m == n - 1
  <2>1. m \in Int /\ 1 \in Int /\ m - 1 + 1 = m /\ (1 <= m \/ m = 0) /\ m \in Nat
    <3> HIDE DEF n
    <3> QED BY <1>1
  <2>2. \A i \in 1..m : i \in 1..n /\ 1 + i - 1 = i
    BY <1>1
  <2>3. \A i \in 1..m : frames[t][i] \in S
    BY <1>2, <2>2
  <2> HIDE DEF m
  <2>4. /\ SubSeq(frames[t], 1, m) \in Seq(S)
        /\ Len(SubSeq(frames[t], 1, m)) = IF 1 <= m THEN m - 1 + 1 ELSE 0
        /\ \A i \in 1..m - 1 + 1 : SubSeq(frames[t], 1, m)[i] = frames[t][1 + i - 1]
    BY <2>1, <2>3, SubSeqProperties
  <2>5. Len(SubSeq(frames[t], 1, m)) = m /\ \A i \in 1..m : SubSeq(frames[t], 1, m)[i] = frames[t][i]
    BY <2>1, <2>2, <2>4
  <2> QED BY <1>3, <2>4, <2>5 DEF m
<1>5. ASSUME NEW i \in 1..(n - 1) PROVE i \in 1..n /\ i < n
  BY <1>1
<1>6. IsStack(frames[t])'
  BY <1>2, <1>4, <1>5 DEF IsStack, S
<1>7. frames'[t] # <<>> => Top(t)'.at = "message"
  <2> SUFFICES ASSUME frames'[t] # <<>> PROVE Top(t)'.at = "message"
    OBVIOUS
  <2>1. n - 1 # 0
    BY <1>4, EmptySeq
  <2>2. n - 1 \in 1..(n - 1)
    <3>1. \A k \in Nat : k >= 1 /\ k - 1 # 0 => k - 1 \in 1..(k - 1)
      OBVIOUS
    <3> HIDE DEF n
    <3> QED BY <1>1, <2>1, <3>1
  <2> QED BY <1>2, <1>4, <1>5, <2>2 DEF Top, IsStack
<1> QED BY <1>3, <1>4, <1>6, <1>7

LEMMA CallIsEntered ==
    ASSUME LGTypes, NEW t \in Callers, UNCHANGED ChannelFeature,
           NEW g \in Statements \cup OtherCalls,
           frames[t] # <<>> => At(t, "message") /\ g \in Statements,
           g \in Swaps => g.l # g.from,
           g \in Statements /\ ~ChannelFeature => g.channel = NoOne,
           frames' = [frames EXCEPT ![t] = Append(@, g)]
    PROVE  /\ OthersStay(t) /\ frames'[t] # <<>> /\ Top(t)' = g
           /\ IsStack(frames[t])'
           /\ Len(frames'[t]) = Len(frames[t]) + 1
           /\ \A i \in 1..Len(frames[t]) : frames'[t][i] = frames[t][i]
<1> DEFINE n == Len(frames[t])
           S == Statements \cup OtherCalls
<1>1. IsStack(frames[t]) /\ frames[t] \in Seq(S) /\ DOMAIN frames = Callers
  BY DEF LGTypes, IsStack
<1>2. n \in Nat /\ (frames[t] = <<>> => n = 0)
  BY <1>1, EmptySeq
<1> HIDE DEF S
<1>3. OthersStay(t) /\ frames'[t] = Append(frames[t], g)
  BY <1>1 DEF OthersStay
<1>4. /\ frames'[t] \in Seq(S) /\ Len(frames'[t]) = n + 1 /\ frames'[t][n + 1] = g
      /\ \A i \in 1..n : frames'[t][i] = frames[t][i]
  <2>1. g \in S
    BY DEF S
  <2> QED BY <1>1, <1>3, <2>1, AppendProperties
<1>5. frames'[t] # <<>> /\ Top(t)' = g
  BY <1>2, <1>4, EmptySeq DEF Top
<1>6. ASSUME NEW i \in 1..(n + 1)
      PROVE  /\ i < n + 1 => frames'[t][i].at = "message"
             /\ frames'[t][i] \in OtherCalls => i = 1
             /\ frames'[t][i] \in Swaps => frames'[t][i].l # frames'[t][i].from
             /\ frames'[t][i] \in Statements /\ ~ChannelFeature => frames'[t][i].channel = NoOne
  <2>1. CASE i = n + 1
    <3>1. g \in OtherCalls => frames[t] = <<>>
      <4>1. g \in Statements => g \notin OtherCalls
        BY DEF Statements, OtherCalls, ChannelCalls, RemoveCalls, SetCalls, Copies, Assignments, Swaps, LogPlaces
      <4> QED BY <4>1
    <3>2. g \in OtherCalls => i = 1
      BY <1>2, <2>1, <3>1
    <3> QED BY <1>2, <1>4, <2>1, <3>2
  <2>2. CASE i = n /\ i # n + 1
    <3>1. n # 0 /\ i \in 1..n
      BY <1>2, <2>2
    <3>2. frames[t][n].at = "message"
      BY <1>1, <1>2, <3>1, EmptySeq DEF At, Top
    <3> QED BY <1>1, <1>4, <2>2, <3>1, <3>2 DEF IsStack
  <2>3. CASE i \in 1..(n - 1)
    <3>1. i \in 1..n /\ i < n
      BY <1>2, <2>3
    <3>2. frames'[t][i] = frames[t][i]
      BY <1>4, <3>1
    <3> QED BY <1>1, <3>1, <3>2 DEF IsStack
  <2> QED BY <1>2, <2>1, <2>2, <2>3
<1>7. IsStack(frames[t])'
  BY <1>4, <1>6 DEF IsStack, S
<1> QED BY <1>3, <1>4, <1>5, <1>7

\* What a step leaves alone: the mutexes keep readers and writers apart, and a
\* thread keeps what it has locked.
StillApart ==
    /\ mutex_of' \in [Addresses -> Mutexes]
    /\ \A l \in Addresses : mutex_of'[l].exclusive # NoOne => mutex_of'[l].shared = <<>>
StillHeld(u, l) ==
    /\ mutex_of[l].exclusive = u => mutex_of'[l].exclusive = u
    /\ IsReader(u, mutex_of[l]) => IsReader(u, mutex_of'[l])

LEMMA ExclusiveLock ==
    ASSUME LocksExclude, NEW t \in Callers, NEW l \in Addresses, exclusive_lock(t, l)
    PROVE  StillApart /\ \A u \in Callers, k \in Addresses : StillHeld(u, k)
<1> DEFINE m == mutex_of[l]
           free == m.exclusive = NoOne /\ m.shared = <<>>
<1>1. m \in Mutexes /\ mutex_of \in [Addresses -> Mutexes] /\ NoOne \notin Callers
  BY LoggerAssumptions DEF LocksExclude
<1>2. \A k \in Addresses \ {l} : mutex_of'[k] = mutex_of[k]
  BY <1>1 DEF exclusive_lock, CanLock
<1>3. CASE free
  <2>1. mutex_of'[l] = [m EXCEPT !.exclusive = t]
    BY <1>1, <1>3 DEF exclusive_lock, CanLock
  <2>2. mutex_of'[l] \in Mutexes /\ mutex_of'[l].exclusive = t /\ mutex_of'[l].shared = <<>>
    BY <1>1, <1>3, <2>1 DEF Mutexes
  <2>3. mutex_of' \in [Addresses -> Mutexes]
    BY <1>1, <1>3, <2>2 DEF exclusive_lock, CanLock
  <2>4. \A u \in Callers : StillHeld(u, l)
    BY <1>1, <1>3, <2>2 DEF StillHeld, IsReader
  <2> QED BY <1>2, <2>2, <2>3, <2>4 DEF StillApart, StillHeld, LocksExclude
<1>4. CASE ~free
  <2>1. mutex_of'[l] = [m EXCEPT !.barrier = TRUE]
    BY <1>1, <1>4 DEF exclusive_lock, CanLock
  <2>2. mutex_of'[l] \in Mutexes /\ mutex_of'[l].exclusive = m.exclusive /\ mutex_of'[l].shared = m.shared
    BY <1>1, <2>1 DEF Mutexes
  <2>3. mutex_of' \in [Addresses -> Mutexes]
    BY <1>1, <1>4, <2>2 DEF exclusive_lock, CanLock
  <2> QED BY <1>2, <2>2, <2>3 DEF StillApart, StillHeld, LocksExclude, IsReader
<1> QED BY <1>3, <1>4

LEMMA SharedLock ==
    ASSUME LocksExclude, NEW t \in Callers, NEW l \in Addresses, lock_shared(t, l)
    PROVE  /\ StillApart /\ \A u \in Callers, k \in Addresses : StillHeld(u, k)
           /\ IsReader(t, mutex_of'[l])
<1> DEFINE m == mutex_of[l]
<1>1. m \in Mutexes /\ mutex_of \in [Addresses -> Mutexes] /\ m.exclusive = NoOne
  BY DEF LocksExclude, lock_shared, CanShare
<1>2. \A k \in Addresses \ {l} : mutex_of'[k] = mutex_of[k]
  BY <1>1 DEF lock_shared, CanShare
<1>3. mutex_of'[l] = [m EXCEPT !.shared = Append(m.shared, t)]
  BY <1>1 DEF lock_shared, CanShare
<1>4. m.shared \in Seq(Callers)
  BY <1>1 DEF Mutexes
<1>5. /\ Append(m.shared, t) \in Seq(Callers) /\ Len(Append(m.shared, t)) = Len(m.shared) + 1
      /\ Append(m.shared, t)[Len(m.shared) + 1] = t
      /\ \A i \in 1..Len(m.shared) : Append(m.shared, t)[i] = m.shared[i]
      /\ Len(m.shared) \in Nat
  BY <1>4, AppendProperties
<1>6. /\ mutex_of'[l] \in Mutexes /\ mutex_of'[l].exclusive = NoOne
      /\ mutex_of'[l].shared = Append(m.shared, t)
  BY <1>1, <1>3, <1>5 DEF Mutexes
<1>7. mutex_of' \in [Addresses -> Mutexes]
  BY <1>1, <1>6 DEF lock_shared, CanShare
<1>8. IsReader(t, mutex_of'[l])
  BY <1>5, <1>6 DEF IsReader
<1>9. \A u \in Callers : StillHeld(u, l)
  BY <1>1, <1>5, <1>6, LoggerAssumptions DEF StillHeld, IsReader
<1> QED BY <1>2, <1>6, <1>7, <1>8, <1>9 DEF StillApart, StillHeld, LocksExclude

\* A reader leaves without taking somebody else out.
LEMMA ReaderLeaves ==
    ASSUME NEW m \in Mutexes, NEW t \in Callers, IsReader(t, m)
    PROVE  /\ WithoutReader(m, t) \in Mutexes /\ WithoutReader(m, t).exclusive = m.exclusive
           /\ \A u \in Callers \ {t} : IsReader(u, m) => IsReader(u, WithoutReader(m, t))
<1> DEFINE s == m.shared
           n == Len(s)
           i == CHOOSE j \in DOMAIN s : s[j] = t
           r == RemoveAt(s, i)
<1>1. s \in Seq(Callers)
  BY DEF Mutexes
<1>2. n \in Nat /\ DOMAIN s = 1..n
  BY <1>1
<1>3. i \in 1..n /\ s[i] = t
  BY <1>2 DEF IsReader
<1> HIDE DEF i
<1>4. /\ r \in Seq(Callers) /\ Len(r) = n - 1
      /\ \A j \in 1..(i - 1) : r[j] = s[j]
      /\ \A j \in i..(n - 1) : r[j] = s[j + 1]
  BY <1>1, <1>3, RemoveAtProperties
<1> DEFINE b == m.barrier /\ r # <<>>
<1>5. WithoutReader(m, t) = [m EXCEPT !.shared = r, !.barrier = b]
  BY DEF WithoutReader, i
<1> HIDE DEF r, s, b
<1>6. b \in BOOLEAN
  BY DEF b
<1>7. /\ WithoutReader(m, t) \in Mutexes /\ WithoutReader(m, t).exclusive = m.exclusive
      /\ WithoutReader(m, t).shared = r
  BY <1>4, <1>5, <1>6 DEF Mutexes
<1>8. ASSUME NEW u \in Callers \ {t}, IsReader(u, m) PROVE IsReader(u, WithoutReader(m, t))
  <2>1. PICK j \in 1..n : s[j] = u
    BY <1>8 DEF IsReader, s
  <2>2. j # i
    BY <1>3, <2>1
  <2>3. CASE j \in 1..(i - 1)
    <3>1. j \in 1..Len(r) /\ r[j] = u
      BY <1>2, <1>3, <1>4, <2>1, <2>3
    <3> QED BY <1>7, <3>1 DEF IsReader
  <2>4. CASE j - 1 \in i..(n - 1)
    <3>1. r[j - 1] = s[j - 1 + 1] /\ j - 1 + 1 = j /\ j - 1 \in 1..Len(r)
      BY <1>2, <1>3, <1>4, <2>1, <2>4
    <3> QED BY <1>7, <2>1, <3>1 DEF IsReader
  <2> QED BY <1>2, <1>3, <2>1, <2>2, <2>3, <2>4
<1> QED BY <1>7, <1>8

\* A thread that releases what it holds takes nothing from the others, and it
\* keeps what else it holds.
LEMMA Release ==
    ASSUME LocksExclude, NEW t \in Callers, NEW l \in Addresses,
           mutex_of[l].exclusive = t \/ IsReader(t, mutex_of[l]),
           mutex_of' = [mutex_of EXCEPT ![l] = Unlocked(t, l)]
    PROVE  StillApart /\ \A u \in Callers \ {t}, k \in Addresses : StillHeld(u, k)
<1> DEFINE m == mutex_of[l]
<1>1. m \in Mutexes /\ mutex_of \in [Addresses -> Mutexes] /\ NoOne \notin Callers
  BY LoggerAssumptions DEF LocksExclude
<1>2. mutex_of'[l] = Unlocked(t, l) /\ \A k \in Addresses \ {l} : mutex_of'[k] = mutex_of[k]
  BY <1>1
<1>3. CASE m.exclusive = t
  <2>1. mutex_of'[l] = [m EXCEPT !.exclusive = NoOne, !.barrier = FALSE]
    BY <1>2, <1>3 DEF Unlocked, WithoutWriter
  <2>2. mutex_of'[l] \in Mutexes /\ mutex_of'[l].exclusive = NoOne /\ mutex_of'[l].shared = m.shared
    BY <1>1, <2>1 DEF Mutexes
  <2>3. mutex_of' \in [Addresses -> Mutexes]
    BY <1>1, <1>2, <2>2
  <2> QED BY <1>2, <1>3, <2>2, <2>3 DEF StillApart, StillHeld, IsReader, LocksExclude
<1>4. CASE m.exclusive # t
  <2>1. IsReader(t, m)
    BY <1>4
  <2>2. mutex_of'[l] = WithoutReader(m, t)
    BY <1>2, <1>4 DEF Unlocked
  <2>3. /\ mutex_of'[l] \in Mutexes /\ mutex_of'[l].exclusive = m.exclusive
        /\ \A u \in Callers \ {t} : IsReader(u, m) => IsReader(u, mutex_of'[l])
    BY <1>1, <2>1, <2>2, ReaderLeaves
  <2>4. m.exclusive = NoOne
    <3>1. m.shared # <<>>
      BY <2>1, EmptySeq DEF IsReader
    <3> QED BY <3>1 DEF LocksExclude
  <2>5. mutex_of' \in [Addresses -> Mutexes]
    BY <1>1, <1>2, <2>3
  <2> QED BY <1>1, <1>2, <2>3, <2>4, <2>5 DEF StillApart, StillHeld, LocksExclude
<1> QED BY <1>3, <1>4

\* The locks exclude one another after a step in which the other threads stay
\* where they are with what they hold, and the thread holds what its place asks
\* for.
LEMMA LocksKept ==
    ASSUME LocksExclude, NEW t \in Callers, OthersStay(t), StillApart,
           \A u \in Callers \ {t}, l \in Addresses : StillHeld(u, l),
           \A l \in Addresses : HasExclusively(t, l)' => mutex_of'[l].exclusive = t,
           \A l \in Addresses : Reads(t, l)' => IsReader(t, mutex_of'[l]),
           ~At(t, "handled_in_open")'
    PROVE  LocksExclude'
<1>1. ASSUME NEW u \in Callers \ {t}, NEW l \in Addresses
      PROVE  /\ HasExclusively(u, l)' => HasExclusively(u, l)
             /\ Reads(u, l)' => Reads(u, l)
             /\ At(u, "handled_in_open")' => At(u, "handled_in_open")
  BY <1>1 DEF OthersStay, HasExclusively, Reads, At, Top
<1>2. ASSUME NEW u \in Callers, NEW l \in Addresses
      PROVE  /\ HasExclusively(u, l)' => mutex_of'[l].exclusive = u
             /\ Reads(u, l)' => IsReader(u, mutex_of'[l])
             /\ ~At(u, "handled_in_open")'
  BY <1>1, <1>2 DEF LocksExclude, StillHeld
<1> QED BY <1>2 DEF StillApart, LocksExclude

\* An assignment under way carries a cell.
LEMMA AssigningIs ==
    ASSUME NEW g \in Statements \cup OtherCalls, g.at \in {"lock", "change"}, g.op = "assign"
    PROVE  g \in Assignments
<1>1. g \notin Statements
  BY DEF Statements, LogPlaces
<1>2. g \notin ChannelCalls /\ g \notin RemoveCalls /\ g \notin SetCalls /\ g \notin Copies /\ g \notin Swaps
  BY DEF ChannelCalls, RemoveCalls, SetCalls, Copies, Swaps
<1> QED BY <1>1, <1>2 DEF OtherCalls

\* A logger stays the only one with its cell.
LEMMA StaysAlone ==
    ASSUME NEW t \in Callers, NEW l \in Addresses, Alone(l), OthersStay(t),
           m_Attributes'[l] = m_Attributes[l], m_ChannelAttr'[l] = m_ChannelAttr[l],
           \A k \in Addresses \ {l} : m_ChannelAttr'[k] # m_ChannelAttr[l],
           Assigning(t)' => Top(t)'.cell # m_ChannelAttr[l]
    PROVE  Alone(l)'
<1>1. ASSUME NEW u \in Callers, Assigning(u)' PROVE Top(u)'.cell # m_ChannelAttr[l]
  <2>1. CASE u = t
    BY <1>1, <2>1
  <2>2. CASE u # t
    BY <1>1, <2>2 DEF OthersStay, Assigning, At, Top, Alone
  <2> QED BY <2>1, <2>2
<1> QED BY <1>1 DEF Alone

\* What a step does to the loggers that other threads have locked: nothing to the
\* cells of those, and to the values in them.
Untouched(t) ==
    \A u \in Callers \ {t}, l \in Addresses :
        ChannelFeature /\ HasExclusively(u, l) /\ Alone(l)
            => Alone(l)' /\ m_Value'[m_ChannelAttr'[l]] = m_Value[m_ChannelAttr[l]]

LEMMA OthersKeep ==
    ASSUME LGInv, NEW t \in Callers, OthersStay(t), Untouched(t),
           \A u \in Callers \ {t} : g_Severity'[u] = g_Severity[u],
           \A i \in 1..Len(frames'[t]) : frames'[t][i] \in Statements => Keeps(t, frames[t][i])'
    PROVE  KeepsAll'
<1>1. ASSUME NEW u \in Callers \ {t}, NEW i \in 1..Len(frames[u]), frames[u][i] \in Statements
      PROVE  Keeps(u, frames[u][i])'
  <2>1. PICK f : f = frames[u][i]
    OBVIOUS
  <2>2. frames'[u][i] = f /\ g_Severity'[u] = g_Severity[u] /\ Keeps(u, f)
    BY <1>1, <2>1 DEF OthersStay, LGInv, KeepsAll
  <2>3. ASSUME f.at = "core", f.alone, f.channel # NoOne
        PROVE  Alone(f.l)' /\ m_Value'[m_ChannelAttr'[f.l]] = f.channel
    <3>1. IsStack(frames[u]) /\ ChannelFeature \in BOOLEAN
      BY DEF LGInv, LGTypes
    <3>2. Len(frames[u]) \in Nat
      BY <3>1 DEF IsStack
    <3>3. i = Len(frames[u]) /\ ChannelFeature
      BY <1>1, <2>1, <2>3, <3>1, <3>2 DEF IsStack
    <3>4. frames[u] # <<>> /\ Top(u) = f /\ f.l \in Addresses
      BY <1>1, <2>1, <3>3, EmptySeq DEF Top, Statements
    <3>5. HasExclusively(u, f.l)
      BY <2>3, <3>4 DEF HasExclusively, At
    <3>6. Alone(f.l) /\ m_Value[m_ChannelAttr[f.l]] = f.channel
      BY <2>2, <2>3 DEF Keeps
    <3> QED BY <3>3, <3>4, <3>5, <3>6 DEF Untouched
  <2> QED BY <2>1, <2>2, <2>3 DEF Keeps
<1>2. ASSUME NEW u \in Callers, NEW i \in 1..Len(frames'[u]), frames'[u][i] \in Statements
      PROVE  Keeps(u, frames[u][i])'
  <2>1. CASE u = t
    BY <1>2, <2>1
  <2>2. CASE u # t
    <3>1. frames'[u] = frames[u]
      BY <2>2 DEF OthersStay
    <3> QED BY <1>1, <1>2, <2>2, <3>1
  <2> QED BY <2>1, <2>2
<1> QED BY <1>2 DEF KeepsAll

\* The statements below keep what they rely on.
LEMMA OuterKeep ==
    ASSUME LGInv, NEW t \in Callers, g_Severity'[t] = g_Severity[t], NEW i \in 1..Len(frames[t]),
           frames[t][i].at = "message", frames'[t][i] = frames[t][i], frames[t][i] \in Statements
    PROVE  Keeps(t, frames[t][i])'
BY DEF LGInv, KeepsAll, Keeps

LEMMA StaysUntouched ==
    ASSUME NEW t \in Callers, OthersStay(t), UNCHANGED cells,
           Assigning(t)' => Assigning(t) /\ Top(t)'.cell = Top(t).cell
    PROVE  Untouched(t)
<1>1. UNCHANGED <<m_ChannelAttr, m_Attributes, m_Value>>
  BY DEF cells
<1>2. ASSUME NEW l \in Addresses, Alone(l) PROVE Alone(l)'
  <2>1. Assigning(t)' => Top(t)'.cell # m_ChannelAttr[l]
    BY <1>2 DEF Alone
  <2>2. \A k \in Addresses \ {l} : m_ChannelAttr'[k] # m_ChannelAttr[l]
    BY <1>1, <1>2 DEF Alone
  <2> QED BY <1>1, <1>2, <2>1, <2>2, StaysAlone
<1> QED BY <1>1, <1>2 DEF Untouched

\* The part of the invariant that is not about locks.
Rest == LGTypes /\ KeepsAll /\ WrittenAsOpened

LEMMA TypesStay ==
    ASSUME LGTypes, UNCHANGED <<cells, g_Severity>>, NEW t \in Callers, OthersStay(t), IsStack(frames[t])'
    PROVE  LGTypes'
<1>1. ASSUME NEW u \in Callers \ {t} PROVE IsStack(frames[u])'
  <2>1. frames'[u] = frames[u] /\ IsStack(frames[u]) /\ ChannelFeature' = ChannelFeature
    BY DEF LGTypes, OthersStay, cells
  <2> QED BY <2>1 DEF IsStack
<1> QED BY <1>1 DEF LGTypes, OthersStay, cells

\* Steps of the innermost call that change no logger.
LEMMA QuietChange ==
    ASSUME LGInv, NEW t \in Callers, frames[t] # <<>>, UNCHANGED <<cells, g_Severity>>, NothingRecorded,
           NEW g \in Statements \cup OtherCalls,
           g \in OtherCalls => Top(t) \in OtherCalls,
           g \in Swaps => g.l # g.from,
           g \in Statements /\ ~ChannelFeature => g.channel = NoOne,
           g \in Statements => Keeps(t, g)',
           g \in Assignments => Assigning(t) /\ g.cell = Top(t).cell,
           frames' = [frames EXCEPT ![t] = [frames[t] EXCEPT ![Len(frames[t])] = g]]
    PROVE  Rest' /\ OthersStay(t) /\ frames'[t] # <<>> /\ Top(t)' = g
<1> DEFINE n == Len(frames[t])
<1>1. LGTypes /\ UNCHANGED ChannelFeature
  BY DEF LGInv, cells
<1>2. /\ OthersStay(t) /\ frames'[t] # <<>> /\ Top(t)' = g
      /\ IsStack(frames[t])' /\ Len(frames'[t]) = n
      /\ \A i \in 1..(n - 1) : frames'[t][i] = frames[t][i]
  BY <1>1, InnermostChanges
<1>3. LGTypes'
  BY <1>1, <1>2, TypesStay
<1>4. Untouched(t)
  <2>1. Assigning(t)' => g \in Assignments
    BY <1>2, AssigningIs DEF Assigning, At
  <2> QED BY <1>2, <2>1, StaysUntouched
<1>5. ASSUME NEW i \in 1..n, frames'[t][i] \in Statements PROVE Keeps(t, frames[t][i])'
  <2>1. n \in Nat
    BY <1>1, InnermostIsCall
  <2>2. CASE i = n
    BY <1>2, <1>5, <2>2 DEF Top, Keeps
  <2>3. CASE i # n
    <3>1. i \in 1..(n - 1) /\ i < n
      BY <2>1, <2>3
    <3>2. frames[t][i].at = "message"
      BY <1>1, <3>1 DEF LGTypes, IsStack
    <3> QED BY <1>2, <1>5, <3>1, <3>2, OuterKeep
  <2> QED BY <2>2, <2>3
<1>6. KeepsAll'
  BY <1>2, <1>4, <1>5, OthersKeep
<1> QED BY <1>2, <1>3, <1>6 DEF Rest, WrittenAsOpened, NothingRecorded

\* Leaving a call.
LEMMA LeaveKeeps ==
    ASSUME LGInv, NEW t \in Callers, frames[t] # <<>>, UNCHANGED <<ChannelFeature, g_Severity>>, LeaveCall(t)
    PROVE  /\ OthersStay(t) /\ (frames'[t] # <<>> => Top(t)'.at = "message")
           /\ \A u \in Callers : IsStack(frames[u])'
           /\ Untouched(t) => KeepsAll'
<1> DEFINE n == Len(frames[t])
<1>1. LGTypes
  BY DEF LGInv
<1>2. /\ OthersStay(t) /\ IsStack(frames[t])' /\ Len(frames'[t]) = n - 1
      /\ frames'[t] # <<>> => Top(t)'.at = "message"
      /\ \A i \in 1..(n - 1) : frames'[t][i] = frames[t][i]
  BY <1>1, CallIsLeft
<1>3. \A u \in Callers : IsStack(frames[u])'
  <2>1. ASSUME NEW u \in Callers \ {t} PROVE IsStack(frames[u])'
    <3>1. frames'[u] = frames[u] /\ IsStack(frames[u]) /\ ChannelFeature' = ChannelFeature
      BY <1>1, <1>2 DEF LGTypes, OthersStay
    <3> QED BY <3>1 DEF IsStack
  <2> QED BY <1>2, <2>1
<1>4. ASSUME NEW i \in 1..(n - 1), frames'[t][i] \in Statements PROVE Keeps(t, frames[t][i])'
  <2>1. n \in Nat
    BY <1>1, InnermostIsCall
  <2>2. i \in 1..n /\ i < n
    BY <2>1
  <2>3. frames[t][i].at = "message"
    BY <1>1, <2>2 DEF LGTypes, IsStack
  <2> QED BY <1>2, <1>4, <2>2, <2>3, OuterKeep
<1>5. Untouched(t) => KeepsAll'
  BY <1>2, <1>4, OthersKeep
<1> QED BY <1>2, <1>3, <1>5

LEMMA QuietLeave ==
    ASSUME LGInv, NEW t \in Callers, frames[t] # <<>>, UNCHANGED <<cells, g_Severity>>, LeaveCall(t)
    PROVE  LGTypes' /\ KeepsAll' /\ OthersStay(t) /\ (frames'[t] # <<>> => Top(t)'.at = "message")
<1>1. LGTypes /\ UNCHANGED ChannelFeature
  BY DEF LGInv, cells
<1>2. OthersStay(t) /\ (frames'[t] # <<>> => Top(t)'.at = "message") /\ IsStack(frames[t])'
  BY <1>1, LeaveKeeps
<1>3. LGTypes'
  BY <1>1, <1>2, TypesStay
<1>4. Untouched(t)
  BY <1>2, StaysUntouched DEF Assigning, At
<1> QED BY <1>1, <1>2, <1>3, <1>4, LeaveKeeps

LEMMA QuietEnter ==
    ASSUME LGInv, NEW t \in Callers, NEW g \in Statements \cup OtherCalls, Enter(t, g),
           frames[t] # <<>> => At(t, "message") /\ g \in Statements,
           g \in Swaps => g.l # g.from,
           g \in Statements /\ ~ChannelFeature => g.channel = NoOne,
           g.at \in {"open", "lock", "copy", "get", "lock_first"}, g \notin Assignments
    PROVE  LGInv'
<1> DEFINE n == Len(frames[t])
<1>1. LGTypes /\ UNCHANGED <<cells, g_Severity, mutex_of>> /\ UNCHANGED ChannelFeature
  BY DEF LGInv, cells, Enter
<1>2. /\ OthersStay(t) /\ frames'[t] # <<>> /\ Top(t)' = g
      /\ IsStack(frames[t])' /\ Len(frames'[t]) = n + 1
      /\ \A i \in 1..n : frames'[t][i] = frames[t][i]
  BY <1>1, CallIsEntered DEF Enter
<1>3. LGTypes'
  BY <1>1, <1>2, TypesStay
<1>4. Untouched(t)
  <2>1. ~Assigning(t)'
    BY <1>2, AssigningIs DEF Assigning, At
  <2> QED BY <1>1, <1>2, <2>1, StaysUntouched
<1>5. ASSUME NEW i \in 1..(n + 1), frames'[t][i] \in Statements PROVE Keeps(t, frames[t][i])'
  <2>1. n \in Nat
    BY <1>1 DEF LGTypes, IsStack
  <2>2. CASE i = n + 1
    BY <1>2, <2>2 DEF Top, Keeps
  <2>3. CASE i # n + 1
    <3>1. i \in 1..n /\ (i = n \/ i < n)
      BY <2>1, <2>3
    <3>2. frames[t] # <<>>
      BY <2>1, <3>1, EmptySeq
    <3>3. frames[t][i].at = "message"
      BY <1>1, <3>1, <3>2 DEF LGTypes, IsStack, At, Top
    <3> QED BY <1>1, <1>2, <1>5, <3>1, <3>3, OuterKeep
  <2> QED BY <2>2, <2>3
<1>6. KeepsAll'
  BY <1>1, <1>2, <1>4, <1>5, OthersKeep
<1>7. ChannelFeature => LocksExclude'
  <2> SUFFICES ASSUME ChannelFeature PROVE LocksExclude'
    OBVIOUS
  <2>1. LocksExclude
    BY DEF LGInv
  <2>2. StillApart /\ \A u \in Callers, l \in Addresses : StillHeld(u, l)
    BY <1>1, <2>1 DEF StillApart, StillHeld, LocksExclude
  <2>3. \A l \in Addresses : ~HasExclusively(t, l)' /\ ~Reads(t, l)'
    BY <1>2 DEF HasExclusively, Reads, At
  <2>4. ~At(t, "handled_in_open")'
    BY <1>2 DEF At
  <2> QED BY <1>2, <2>1, <2>2, <2>3, <2>4, LocksKept
<1>8. WrittenAsOpened'
  BY DEF Enter, NothingRecorded, WrittenAsOpened
<1> QED BY <1>1, <1>3, <1>6, <1>7, <1>8 DEF LGInv

LEMMA LGInvInit == LGInit => LGInv
<1> SUFFICES ASSUME NEW feature \in ChannelFeatures, LGStart(feature) PROVE LGInv
  BY DEF LGInit
<1>1. AnArgument \in Arguments
  BY LoggerAssumptions DEF AnArgument
<1>2. AnArgument.severity \in Severities /\ AnArgument.channel \in Named
  BY <1>1 DEF Severities, Named
<1>3. \A t \in Callers : frames[t] = <<>> /\ Len(frames[t]) = 0
  BY EmptySeq DEF LGStart
<1>4. \A t \in Callers : IsStack(frames[t])
  <2>1. <<>> \in Seq(Statements \cup OtherCalls)
    OBVIOUS
  <2>2. \A i \in 1..0 : FALSE
    OBVIOUS
  <2> QED BY <1>3, <2>1, <2>2 DEF IsStack
<1>5. LGTypes
  BY <1>2, <1>4, LoggerAssumptions DEF LGStart, LGTypes, CellOrNone
<1>6. LocksExclude
  <2>1. [exclusive |-> NoOne, shared |-> <<>>, barrier |-> FALSE] \in Mutexes
    BY EmptySeq DEF Mutexes
  <2> QED BY <1>3, <2>1 DEF LGStart, LocksExclude, HasExclusively, Reads, At
<1>7. KeepsAll /\ WrittenAsOpened
  BY <1>3 DEF KeepsAll, WrittenAsOpened, LGStart
<1> QED BY <1>5, <1>6, <1>7 DEF LGInv

\* The kind of a call follows from its place.
LEMMA KindByPlace ==
    ASSUME LGTypes, NEW t \in Callers, frames[t] # <<>>
    PROVE  /\ Top(t).at \in LogPlaces => Top(t) \in Statements
           /\ Top(t).at \in {"get", "got"} => Top(t) \in SetCalls
           /\ Top(t).at \in {"copy", "copied"} => Top(t) \in Copies
           /\ Top(t).at \in {"lock", "change"}
                => Top(t) \in ChannelCalls \cup RemoveCalls \cup SetCalls \cup Assignments
           /\ Top(t).at \in {"lock_first", "lock_second", "swap"} => Top(t) \in Swaps /\ Top(t).l # Top(t).from
<1>1. Top(t) \in Statements \cup OtherCalls /\ (Top(t) \in Swaps => Top(t).l # Top(t).from)
  BY InnermostIsCall
<1>2. CASE Top(t) \in Statements
  BY <1>2 DEF Statements, LogPlaces
<1>3. CASE Top(t) \in ChannelCalls \cup RemoveCalls \cup Assignments
  BY <1>3 DEF ChannelCalls, RemoveCalls, Assignments, LogPlaces
<1>4. CASE Top(t) \in SetCalls
  BY <1>4 DEF SetCalls, LogPlaces
<1>5. CASE Top(t) \in Copies
  BY <1>5 DEF Copies, LogPlaces
<1>6. CASE Top(t) \in Swaps
  BY <1>1, <1>6 DEF Swaps, LogPlaces
<1> QED BY <1>1, <1>2, <1>3, <1>4, <1>5, <1>6 DEF OtherCalls

LEMMA GoOnIs ==
    ASSUME LGTypes, NEW t \in Callers, NEW p, frames[t] # <<>>, GoOn(t, p)
    PROVE  frames' = [frames EXCEPT ![t] = [frames[t] EXCEPT ![Len(frames[t])] = [Top(t) EXCEPT !.at = p]]]
BY DEF GoOn, Top

\* A statement goes on to a place where it relies on nothing.
LEMMA StatementGoesOn ==
    ASSUME LGInv, NEW t \in Callers, frames[t] # <<>>, UNCHANGED <<cells, g_Severity>>, NothingRecorded,
           Top(t) \in Statements, NEW p \in LogPlaces \ {"core", "message"}, GoOn(t, p)
    PROVE  /\ Rest' /\ OthersStay(t) /\ frames'[t] # <<>>
           /\ Top(t)'.at = p /\ Top(t)'.l = Top(t).l
<1> DEFINE g == [Top(t) EXCEPT !.at = p]
<1>1. /\ g \in Statements /\ g.at = p /\ g.l = Top(t).l /\ g.channel = Top(t).channel
  BY DEF Statements
<1>2. LGTypes
  BY DEF LGInv
<1>3. frames' = [frames EXCEPT ![t] = [frames[t] EXCEPT ![Len(frames[t])] = g]]
  BY <1>2, GoOnIs
<1>4. ~ChannelFeature => g.channel = NoOne
  BY <1>1, <1>2, InnermostIsCall
<1>5. g \notin OtherCalls
  BY <1>1 DEF OtherCalls, ChannelCalls, RemoveCalls, SetCalls, Copies, Assignments, Swaps, LogPlaces
<1>6. g \notin Swaps /\ g \notin Assignments /\ g \in Statements \cup OtherCalls
  BY <1>1, <1>5 DEF OtherCalls
<1> HIDE DEF g
<1>7. PICK h : h = g
  OBVIOUS
<1>8. Keeps(t, h)'
  BY <1>1, <1>7 DEF Keeps
<1>9. Rest' /\ OthersStay(t) /\ frames'[t] # <<>> /\ Top(t)' = h
  BY <1>1, <1>3, <1>4, <1>5, <1>6, <1>7, <1>8, QuietChange
<1> QED BY <1>1, <1>7, <1>9

\* And so does a call of another kind.
LEMMA CallGoesOn ==
    ASSUME LGInv, NEW t \in Callers, frames[t] # <<>>, UNCHANGED <<cells, g_Severity>>, NothingRecorded,
           Top(t) \in OtherCalls, NEW g \in OtherCalls, g \in Swaps => g.l # g.from,
           g \in Assignments => Assigning(t) /\ g.cell = Top(t).cell,
           frames' = [frames EXCEPT ![t] = [frames[t] EXCEPT ![Len(frames[t])] = g]]
    PROVE  Rest' /\ OthersStay(t) /\ frames'[t] # <<>> /\ Top(t)' = g
<1>1. g \notin Statements
  BY DEF OtherCalls, Statements, ChannelCalls, RemoveCalls, SetCalls, Copies, Assignments, Swaps, LogPlaces
<1> QED BY <1>1, QuietChange

\* Waiting for an exclusive lock.
LEMMA LockWaits ==
    ASSUME LGInv, NEW t \in Callers, NEW l \in Addresses, ChannelFeature => exclusive_lock(t, l),
           UNCHANGED <<cells, g_Severity, frames>>, NothingRecorded
    PROVE  LGInv'
<1>1. LGTypes'
  BY DEF LGInv, LGTypes, cells, IsStack
<1>2. OthersStay(t) /\ \A u \in Callers : (Alone(l)' <=> Alone(l))
  BY DEF OthersStay, LGInv, LGTypes, Alone, cells, Assigning, At, Top
<1>3. KeepsAll'
  <2>1. \A k : Alone(k)' <=> Alone(k)
    BY DEF Alone, cells, Assigning, At, Top
  <2> QED BY <2>1 DEF LGInv, KeepsAll, Keeps, cells
<1>4. ChannelFeature => LocksExclude'
  <2> SUFFICES ASSUME ChannelFeature PROVE LocksExclude'
    OBVIOUS
  <2>1. LocksExclude
    BY DEF LGInv
  <2>2. StillApart /\ \A u \in Callers, k \in Addresses : StillHeld(u, k)
    BY <2>1, ExclusiveLock
  <2>3. \A k \in Addresses : HasExclusively(t, k)' => mutex_of'[k].exclusive = t
    BY <2>1, <2>2 DEF StillHeld, LocksExclude, HasExclusively, At, Top
  <2>4. \A k \in Addresses : Reads(t, k)' => IsReader(t, mutex_of'[k])
    BY <2>1, <2>2 DEF StillHeld, LocksExclude, Reads, At, Top
  <2>5. ~At(t, "handled_in_open")'
    BY <2>1 DEF LocksExclude, At, Top
  <2> QED BY <1>2, <2>1, <2>2, <2>3, <2>4, <2>5, LocksKept
<1>5. WrittenAsOpened' /\ ChannelFeature' = ChannelFeature
  BY DEF WrittenAsOpened, NothingRecorded, cells
<1> QED BY <1>1, <1>3, <1>4, <1>5 DEF LGInv

\* The steps of a log statement.
LEMMA LogHolds == ASSUME LGInv, NEW t \in Callers, log(t) PROVE LGInv'
<1>1. PICK l \in Addresses, a \in Arguments :
         /\ frames[t] = <<>> \/ (At(t, "message") /\ Len(frames[t]) < MaxNesting)
         /\ Enter(t, [at |-> "open", l |-> l, severity |-> a.severity,
                      channel |-> IF ChannelFeature THEN a.channel ELSE NoOne,
                      read |-> NoOne, alone |-> FALSE, nested |-> FALSE])
  BY DEF log
<1>2. PICK c : c = IF ChannelFeature THEN a.channel ELSE NoOne
  OBVIOUS
<1>3. c \in Named /\ NoOne \in Named /\ a.severity \in Severities /\ (~ChannelFeature => c = NoOne)
  BY <1>2 DEF Named, Severities
<1> DEFINE g == [at |-> "open", l |-> l, severity |-> a.severity, channel |-> c,
                 read |-> NoOne, alone |-> FALSE, nested |-> FALSE]
<1>4. g \in Statements /\ g.at = "open" /\ g.channel = c
  BY <1>3 DEF Statements, LogPlaces
<1>5. Enter(t, g)
  BY <1>1, <1>2
<1> HIDE DEF g
<1>6. g \notin OtherCalls
  BY <1>4 DEF OtherCalls, ChannelCalls, RemoveCalls, SetCalls, Copies, Assignments, Swaps
<1>7. g \notin Swaps /\ g \notin Assignments
  BY <1>6 DEF OtherCalls
<1> QED BY <1>1, <1>3, <1>4, <1>5, <1>7, QuietEnter

LEMMA StandingAt ==
    ASSUME LGInv, NEW t \in Callers, NEW p, At(t, p)
    PROVE  /\ LGTypes /\ frames[t] # <<>> /\ Top(t).at = p
           /\ p \in LogPlaces => Top(t) \in Statements /\ Top(t).l \in Addresses
BY KindByPlace DEF LGInv, At, Statements

LEMMA OpenLockHolds == ASSUME LGInv, NEW t \in Callers, open_record_lock(t) PROVE LGInv'
<1>1. At(t, "open") /\ UNCHANGED <<cells, g_Severity>> /\ NothingRecorded /\ UNCHANGED ChannelFeature
  BY DEF open_record_lock, cells
<1>2. /\ LGTypes /\ frames[t] # <<>> /\ Top(t) \in Statements /\ Top(t).l \in Addresses
  BY <1>1, StandingAt DEF LogPlaces
<1>3. CASE ChannelFeature /\ ~Locked(t, Top(t).l)
  BY <1>1, <1>2, <1>3, LockWaits DEF open_record_lock
<1>4. CASE ~(ChannelFeature /\ ~Locked(t, Top(t).l))
  <2>1. GoOn(t, "set")
    BY <1>4 DEF open_record_lock
  <2>2. Rest' /\ OthersStay(t) /\ frames'[t] # <<>> /\ Top(t)'.at = "set" /\ Top(t)'.l = Top(t).l
    BY <1>1, <1>2, <2>1, StatementGoesOn DEF LogPlaces
  <2>3. ASSUME ChannelFeature PROVE LocksExclude'
    <3>1. LocksExclude /\ exclusive_lock(t, Top(t).l) /\ mutex_of'[Top(t).l].exclusive = t
      BY <1>4, <2>3 DEF LGInv, open_record_lock, Locked
    <3>2. StillApart /\ \A u \in Callers, k \in Addresses : StillHeld(u, k)
      BY <1>2, <3>1, ExclusiveLock
    <3>3. \A k \in Addresses : HasExclusively(t, k)' => k = Top(t).l
      BY <2>2 DEF HasExclusively, At
    <3>4. (\A k \in Addresses : ~Reads(t, k)') /\ ~At(t, "handled_in_open")'
      BY <2>2 DEF Reads, At
    <3> QED BY <2>2, <3>1, <3>2, <3>3, <3>4, LocksKept
  <2> QED BY <1>1, <2>2, <2>3 DEF LGInv, Rest
<1> QED BY <1>3, <1>4

\* Locks are kept when no mutex changes and the thread goes on with what it has
\* or leaves.
LEMMA LocksUnchanged ==
    ASSUME LocksExclude, NEW t \in Callers, OthersStay(t), UNCHANGED mutex_of,
           \A l \in Addresses : HasExclusively(t, l)' => HasExclusively(t, l),
           \A l \in Addresses : ~Reads(t, l)',
           ~At(t, "handled_in_open")'
    PROVE  LocksExclude'
<1>1. StillApart /\ \A u \in Callers, k \in Addresses : StillHeld(u, k)
  BY DEF LocksExclude, StillApart, StillHeld
<1>2. \A l \in Addresses : HasExclusively(t, l)' => mutex_of'[l].exclusive = t
  BY DEF LocksExclude
<1> QED BY <1>1, <1>2, LocksKept

\* Only one thread has locked a logger for itself, and then nobody reads it.
LEMMA ExclusivelyLocked ==
    ASSUME LocksExclude, NEW t \in Callers, NEW u \in Callers \ {t}, NEW l \in Addresses, HasExclusively(u, l)
    PROVE  ~HasExclusively(t, l) /\ ~Reads(t, l)
<1>1. mutex_of[l].exclusive = u /\ u # NoOne
  BY LoggerAssumptions DEF LocksExclude
<1>2. mutex_of[l].shared = <<>> /\ Len(mutex_of[l].shared) = 0
  BY <1>1, EmptySeq DEF LocksExclude
<1> QED BY <1>1, <1>2 DEF LocksExclude, IsReader

LEMMA OpenHolds == ASSUME LGInv, NEW t \in Callers, open_record_unlocked(t) PROVE LGInv'
<1> DEFINE n == Len(frames[t])
           F == Top(t)
<1>1. /\ At(t, "set") /\ NothingRecorded /\ UNCHANGED <<ChannelFeature, mutex_of, m_ChannelAttr, m_Attributes>>
      /\ g_Severity' = [g_Severity EXCEPT ![t] = F.severity]
      /\ Opening(t)
  BY DEF open_record_unlocked
<1>2. LGTypes /\ frames[t] # <<>> /\ F.at = "set" /\ F \in Statements /\ F.l \in Addresses
  BY <1>1, StandingAt DEF LogPlaces
<1>3. /\ n \in Nat /\ n >= 1 /\ (~ChannelFeature => F.channel = NoOne)
      /\ IsStack(frames[t]) /\ frames[t] \in Seq(Statements \cup OtherCalls)
  BY <1>2, InnermostIsCall DEF LGTypes, IsStack
<1>4. PICK g : g = [F EXCEPT !.at = "core", !.alone = Alone(F.l)]
  OBVIOUS
<1>5. PICK b \in BOOLEAN : b = Alone(F.l)
  BY DEF Alone
<1>6. /\ g \in Statements /\ g.at = "core" /\ g.alone = b /\ g.l = F.l /\ g.channel = F.channel
      /\ g.severity = F.severity
  BY <1>2, <1>4, <1>5 DEF Statements, LogPlaces
<1>7. /\ frames'[t] = [i \in DOMAIN frames[t] |-> IF i < n THEN [frames[t][i] EXCEPT !.nested = TRUE] ELSE g]
      /\ OthersStay(t)
  <2>1. DOMAIN frames = Callers /\ DOMAIN frames[t] = 1..n
    BY <1>2, <1>3 DEF LGTypes
  <2> DEFINE h == [i \in DOMAIN frames[t] |->
                     IF i < n THEN [frames[t][i] EXCEPT !.nested = TRUE]
                     ELSE [frames[t][i] EXCEPT !.at = "core", !.alone = Alone(Top(t).l)]]
  <2>2. frames' = [frames EXCEPT ![t] = h]
    BY <1>1 DEF Opening
  <2>3. \A i \in 1..n : ~(i < n) => [frames[t][i] EXCEPT !.at = "core", !.alone = Alone(Top(t).l)] = g
    <3>1. \A i \in 1..n : ~(i < n) => i = n
      BY <1>3
    <3> QED BY <1>4, <3>1 DEF Top
  <2>4. h = [i \in DOMAIN frames[t] |-> IF i < n THEN [frames[t][i] EXCEPT !.nested = TRUE] ELSE g]
    BY <2>1, <2>3
  <2> HIDE DEF h
  <2> QED BY <2>1, <2>2, <2>4 DEF OthersStay
<1>8. ASSUME NEW i \in 1..n, i < n
      PROVE  /\ frames[t][i] \in Statements /\ frames[t][i].at = "message"
             /\ [frames[t][i] EXCEPT !.nested = TRUE] \in Statements
             /\ [frames[t][i] EXCEPT !.nested = TRUE].at = "message"
             /\ [frames[t][i] EXCEPT !.nested = TRUE].nested
             /\ [frames[t][i] EXCEPT !.nested = TRUE].alone = frames[t][i].alone
             /\ [frames[t][i] EXCEPT !.nested = TRUE].channel = frames[t][i].channel
             /\ [frames[t][i] EXCEPT !.nested = TRUE].read = frames[t][i].read
  <2>1. frames[t][i] \in Statements \cup OtherCalls /\ frames[t][i].at = "message"
    BY <1>3, <1>8 DEF IsStack
  <2>2. frames[t][i] \notin OtherCalls
    BY <2>1 DEF OtherCalls, ChannelCalls, RemoveCalls, SetCalls, Copies, Assignments, Swaps
  <2>3. frames[t][i] \in Statements
    BY <2>1, <2>2
  <2> QED BY <2>1, <2>3 DEF Statements
<1>9. /\ Len(frames'[t]) = n /\ frames'[t] \in Seq(Statements)
      /\ \A i \in 1..n : frames'[t][i] = IF i < n THEN [frames[t][i] EXCEPT !.nested = TRUE] ELSE g
  <2>1. DOMAIN frames[t] = 1..n
    BY <1>3
  <2>2. \A i \in 1..n : (IF i < n THEN [frames[t][i] EXCEPT !.nested = TRUE] ELSE g) \in Statements
    BY <1>6, <1>8
  <2>3. frames'[t] \in [1..n -> Statements]
    BY <1>7, <2>1, <2>2
  <2>4. frames'[t] \in Seq(Statements) /\ Len(frames'[t]) = n
    BY <1>3, <2>3, FunctionIsSeq
  <2> QED BY <1>7, <2>1, <2>4
<1>10. frames'[t] # <<>> /\ Top(t)' = g
  <2>1. n # 0 /\ n \in 1..n /\ ~(n < n)
    BY <1>3
  <2> QED BY <1>9, <2>1, EmptySeq DEF Top
<1>11. IsStack(frames[t])'
  <2>1. \A i \in 1..n : frames'[t][i] \in Statements
    BY <1>9
  <2>2. \A f \in Statements : f \notin OtherCalls /\ f \notin Swaps
    BY DEF OtherCalls, ChannelCalls, RemoveCalls, SetCalls, Copies, Assignments, Swaps, Statements, LogPlaces
  <2>3. \A i \in 1..n : i < n => frames'[t][i].at = "message" /\ frames'[t][i].channel = frames[t][i].channel
    BY <1>8, <1>9
  <2>4. ~ChannelFeature => \A i \in 1..n : frames'[t][i].channel = NoOne
    <3>1. ~ChannelFeature => \A i \in 1..n : i < n => frames[t][i].channel = NoOne
      BY <1>3, <1>8 DEF IsStack
    <3> QED BY <1>3, <1>6, <1>9, <2>3, <3>1
  <2>5. frames'[t] \in Seq(Statements \cup OtherCalls)
    BY <1>9
  <2> QED BY <1>1, <1>9, <2>1, <2>2, <2>3, <2>4, <2>5 DEF IsStack
<1>12. /\ m_Value' \in [Addresses -> Named]
       /\ F.channel # NoOne => m_Value'[m_ChannelAttr[F.l]] = F.channel
       /\ \A c \in Addresses : c # m_ChannelAttr[F.l] \/ F.channel = NoOne => m_Value'[c] = m_Value[c]
  <2>1. F.channel \in Named /\ m_ChannelAttr[F.l] \in Addresses /\ m_Value \in [Addresses -> Named]
    BY <1>2 DEF Statements, LGTypes
  <2>2. m_Value' = IF F.channel = NoOne THEN m_Value ELSE [m_Value EXCEPT ![m_ChannelAttr[F.l]] = F.channel]
    BY DEF open_record_unlocked
  <2> QED BY <2>1, <2>2
<1>13. LGTypes'
  <2>1. \A u \in Callers : IsStack(frames[u])'
    <3>1. ASSUME NEW u \in Callers \ {t} PROVE IsStack(frames[u])'
      <4>1. frames'[u] = frames[u] /\ IsStack(frames[u]) /\ ChannelFeature' = ChannelFeature
        BY <1>1, <1>2, <1>7 DEF LGTypes, OthersStay
      <4> QED BY <4>1 DEF IsStack
    <3> QED BY <1>11, <3>1
  <2>2. F.severity \in Severities
    BY <1>2 DEF Statements
  <2> QED BY <1>1, <1>2, <1>7, <1>12, <2>1, <2>2 DEF LGTypes, OthersStay
<1>14. ~Assigning(t)'
  BY <1>6, <1>10 DEF Assigning, At
<1>15. ASSUME NEW l \in Addresses, Alone(l) PROVE Alone(l)'
  <2>1. \A k \in Addresses \ {l} : m_ChannelAttr'[k] # m_ChannelAttr[l]
    BY <1>1, <1>15 DEF Alone
  <2> QED BY <1>1, <1>7, <1>14, <1>15, <2>1, StaysAlone
<1>16. Untouched(t)
  <2> SUFFICES ASSUME ChannelFeature, NEW u \in Callers \ {t}, NEW l \in Addresses, HasExclusively(u, l), Alone(l)
               PROVE  Alone(l)' /\ m_Value'[m_ChannelAttr'[l]] = m_Value[m_ChannelAttr[l]]
    BY DEF Untouched
  <2>1. ~HasExclusively(t, l)
    BY ExclusivelyLocked DEF LGInv
  <2>2. F.l # l
    BY <1>1, <2>1 DEF HasExclusively
  <2>3. m_ChannelAttr[F.l] # m_ChannelAttr[l] /\ m_ChannelAttr[l] \in Addresses
    BY <1>2, <2>2 DEF Alone, LGTypes
  <2> QED BY <1>1, <1>12, <1>15, <2>3
<1>17. ASSUME NEW i \in 1..n PROVE Keeps(t, frames[t][i])'
  <2>1. PICK f : f = frames'[t][i]
    OBVIOUS
  <2>2. CASE i < n
    <3>1. Keeps(t, frames[t][i]) /\ frames[t][i].at = "message"
      BY <1>8, <2>2 DEF LGInv, KeepsAll
    <3>2. /\ f.at = "message" /\ f.nested /\ f.alone = frames[t][i].alone
          /\ f.channel = frames[t][i].channel /\ f.read = frames[t][i].read
      BY <1>8, <1>9, <2>1, <2>2
    <3> QED BY <2>1, <3>1, <3>2 DEF Keeps
  <2>3. CASE ~(i < n)
    <3>1. f = g
      BY <1>9, <2>1, <2>3
    <3>2. g_Severity'[t] = g.severity
      BY <1>1, <1>2, <1>6 DEF LGTypes
    <3>3. g.alone /\ g.channel # NoOne => Alone(g.l)' /\ m_Value'[m_ChannelAttr'[g.l]] = g.channel
      BY <1>1, <1>2, <1>5, <1>6, <1>12, <1>15
    <3> QED BY <1>6, <2>1, <3>1, <3>2, <3>3 DEF Keeps
  <2> QED BY <2>2, <2>3
<1>18. KeepsAll'
  <2>1. \A u \in Callers \ {t} : g_Severity'[u] = g_Severity[u]
    BY <1>1, <1>2 DEF LGTypes
  <2> QED BY <1>7, <1>9, <1>16, <1>17, <2>1, OthersKeep
<1>19. ChannelFeature => LocksExclude'
  <2>1. \A l \in Addresses : HasExclusively(t, l)' => HasExclusively(t, l)
    BY <1>1, <1>6, <1>10 DEF HasExclusively, At
  <2>2. \A l \in Addresses : ~Reads(t, l)' /\ ~At(t, "handled_in_open")'
    BY <1>6, <1>10 DEF Reads, At
  <2>3. ~At(t, "handled_in_open")'
    BY <1>6, <1>10 DEF At
  <2> QED BY <1>1, <1>7, <2>1, <2>2, <2>3, LocksUnchanged DEF LGInv
<1>20. WrittenAsOpened'
  BY <1>1 DEF WrittenAsOpened, NothingRecorded
<1> QED BY <1>1, <1>13, <1>18, <1>19, <1>20 DEF LGInv

LEMMA LocksReleased ==
    ASSUME LocksExclude, NEW t \in Callers, OthersStay(t), NEW l \in Addresses,
           HasExclusively(t, l) \/ Reads(t, l), release_lock(t, l),
           frames'[t] # <<>> => Top(t)'.at \in {"message", "lock"}
    PROVE  LocksExclude'
<1>1. mutex_of[l].exclusive = t \/ IsReader(t, mutex_of[l])
  BY DEF LocksExclude
<1>2. StillApart /\ \A u \in Callers \ {t}, k \in Addresses : StillHeld(u, k)
  BY <1>1, Release DEF release_lock
<1>3. (\A k \in Addresses : ~HasExclusively(t, k)' /\ ~Reads(t, k)') /\ ~At(t, "handled_in_open")'
  BY DEF HasExclusively, Reads, At
<1> QED BY <1>2, <1>3, LocksKept

LEMMA CoreHolds == ASSUME LGInv, NEW t \in Callers, OpenInCore(t) PROVE LGInv'
<1> DEFINE n == Len(frames[t])
           F == Top(t)
           cell == m_Attributes[F.l]
           value == IF cell = NoOne THEN NoOne ELSE m_Value[cell]
<1>1. At(t, "core") /\ NothingRecorded /\ UNCHANGED <<cells, g_Severity>> /\ UNCHANGED ChannelFeature
  BY DEF OpenInCore, cells
<1>2. LGTypes /\ frames[t] # <<>> /\ F.at = "core" /\ F \in Statements /\ F.l \in Addresses
  BY <1>1, StandingAt DEF LogPlaces
<1>3. HasExclusively(t, F.l)
  BY <1>1 DEF HasExclusively
<1>4. CASE /\ release_lock(t, F.l)
           /\ frames' = [frames EXCEPT ![t][n].at = "message", ![t][n].read = value]
  <2>1. PICK v : v = value
    OBVIOUS
  <2>2. v \in Named
    BY <1>2, <2>1 DEF LGTypes, CellOrNone, Named
  <2>3. PICK g : g = [F EXCEPT !.at = "message", !.read = v]
    OBVIOUS
  <2>4. /\ g \in Statements /\ g.at = "message" /\ g.read = v /\ g.alone = F.alone /\ g.nested = F.nested
        /\ g.channel = F.channel /\ g.severity = F.severity
    BY <1>2, <2>2, <2>3 DEF Statements, LogPlaces
  <2>5. frames' = [frames EXCEPT ![t] = [frames[t] EXCEPT ![n] = g]]
    BY <1>4, <2>1, <2>3 DEF Top
  <2>6. Keeps(t, F)
    <3>1. n \in Nat /\ n >= 1
      BY <1>2, InnermostIsCall
    <3>2. n \in 1..n
      BY <3>1
    <3> QED BY <1>2, <3>2 DEF LGInv, KeepsAll, Top
  <2>7. g.alone /\ g.channel # NoOne => g.read = g.channel
    <3>1. F.alone /\ F.channel # NoOne => m_Attributes[F.l] = m_ChannelAttr[F.l] /\ m_Value[m_ChannelAttr[F.l]] = F.channel
      BY <1>2, <2>6 DEF Keeps, Alone
    <3>2. m_ChannelAttr[F.l] # NoOne
      BY <1>2, LoggerAssumptions DEF LGTypes
    <3> QED BY <2>1, <2>4, <3>1, <3>2
  <2>8. ~g.nested => g_Severity'[t] = g.severity
    BY <1>1, <1>2, <2>4, <2>6 DEF Keeps
  <2>9. Keeps(t, g)'
    BY <2>4, <2>7, <2>8 DEF Keeps
  <2>10. g \notin OtherCalls /\ g \notin Swaps /\ g \notin Assignments
    BY <2>4 DEF OtherCalls, ChannelCalls, RemoveCalls, SetCalls, Copies, Assignments, Swaps
  <2>11. ~ChannelFeature => g.channel = NoOne
    BY <1>2, <2>4, InnermostIsCall
  <2>12. Rest' /\ OthersStay(t) /\ frames'[t] # <<>> /\ Top(t)' = g
    BY <1>1, <1>2, <2>4, <2>5, <2>9, <2>10, <2>11, QuietChange
  <2>13. ChannelFeature => LocksExclude'
    BY <1>2, <1>3, <1>4, <2>4, <2>12, LocksReleased DEF LGInv
  <2> QED BY <1>1, <2>12, <2>13 DEF LGInv, Rest
<1>5. CASE release_lock(t, F.l) /\ LeaveCall(t)
  <2>1. LGTypes' /\ KeepsAll' /\ OthersStay(t) /\ (frames'[t] # <<>> => Top(t)'.at = "message")
    BY <1>1, <1>2, <1>5, QuietLeave
  <2>2. ChannelFeature => LocksExclude'
    BY <1>2, <1>3, <1>5, <2>1, LocksReleased DEF LGInv
  <2> QED BY <1>1, <2>1, <2>2 DEF LGInv, WrittenAsOpened, NothingRecorded
<1>6. CASE GoOn(t, "handle_open") /\ UNCHANGED mutex_of
  <2>1. Rest' /\ OthersStay(t) /\ frames'[t] # <<>> /\ Top(t)'.at = "handle_open" /\ Top(t)'.l = F.l
    BY <1>1, <1>2, <1>6, StatementGoesOn DEF LogPlaces
  <2>2. \A l \in Addresses : HasExclusively(t, l)' => HasExclusively(t, l)
    BY <1>1, <2>1 DEF HasExclusively, At
  <2>3. (\A l \in Addresses : ~Reads(t, l)') /\ ~At(t, "handled_in_open")'
    BY <2>1 DEF Reads, At
  <2>4. ChannelFeature => LocksExclude'
    BY <1>6, <2>1, <2>2, <2>3, LocksUnchanged DEF LGInv
  <2> QED BY <1>1, <2>1, <2>4 DEF LGInv, Rest
<1> QED BY <1>4, <1>5, <1>6 DEF OpenInCore

LEMMA PushHolds == ASSUME LGInv, NEW t \in Callers, pump_record(t) PROVE LGInv'
<1> DEFINE n == Len(frames[t])
           F == Top(t)
<1>1. At(t, "message") /\ UNCHANGED <<cells, g_Severity>> /\ UNCHANGED <<ChannelFeature, mutex_of>>
  BY DEF pump_record, cells
<1>2. LGTypes /\ frames[t] # <<>> /\ F.at = "message" /\ F \in Statements /\ F.l \in Addresses
  BY <1>1, StandingAt DEF LogPlaces
<1>3. ASSUME LeaveCall(t)
      PROVE  LGTypes' /\ KeepsAll' /\ (ChannelFeature => LocksExclude')
  <2>1. LGTypes' /\ KeepsAll' /\ OthersStay(t) /\ (frames'[t] # <<>> => Top(t)'.at = "message")
    BY <1>1, <1>2, <1>3, QuietLeave
  <2>2. (\A l \in Addresses : ~HasExclusively(t, l)' /\ ~Reads(t, l)') /\ ~At(t, "handled_in_open")'
    BY <2>1 DEF HasExclusively, Reads, At
  <2>3. ChannelFeature => LocksExclude'
    BY <1>1, <2>1, <2>2, LocksUnchanged DEF LGInv
  <2> QED BY <2>1, <2>3
<1>4. CASE LeaveCall(t) /\ NothingRecorded
  BY <1>1, <1>3, <1>4 DEF LGInv, WrittenAsOpened, NothingRecorded
<1>5. CASE /\ LeaveCall(t)
           /\ recorded' = [opened |-> [severity |-> F.severity, channel |-> F.channel],
                           seen |-> [severity |-> g_Severity[t], channel |-> F.read],
                           alone |-> F.alone, nested |-> F.nested]
  <2>1. Keeps(t, F)
    <3>1. n \in Nat /\ n >= 1
      BY <1>2, InnermostIsCall
    <3>2. n \in 1..n
      BY <3>1
    <3> QED BY <1>2, <3>2 DEF LGInv, KeepsAll, Top
  <2>2. /\ ~F.nested => g_Severity[t] = F.severity
        /\ F.alone /\ F.channel # NoOne => F.read = F.channel
    BY <1>2, <2>1 DEF Keeps
  <2>3. WrittenAsOpened'
    BY <1>5, <2>2 DEF WrittenAsOpened
  <2> QED BY <1>1, <1>3, <1>5, <2>3 DEF LGInv
<1>6. CASE GoOn(t, "handle_push") /\ NothingRecorded
  <2>1. Rest' /\ OthersStay(t) /\ frames'[t] # <<>> /\ Top(t)'.at = "handle_push" /\ Top(t)'.l = F.l
    BY <1>1, <1>2, <1>6, StatementGoesOn DEF LogPlaces
  <2>2. (\A l \in Addresses : ~HasExclusively(t, l)' /\ ~Reads(t, l)') /\ ~At(t, "handled_in_open")'
    BY <2>1 DEF HasExclusively, Reads, At
  <2>3. ChannelFeature => LocksExclude'
    BY <1>1, <2>1, <2>2, LocksUnchanged DEF LGInv
  <2> QED BY <1>1, <2>1, <2>3 DEF LGInv, Rest
<1> QED BY <1>4, <1>5, <1>6 DEF pump_record

\* With the channel feature a handler of open_record does not get its lock.
LEMMA HandlerHolds == ASSUME LGInv, NEW t \in Callers, handle_exception(t) PROVE LGInv'
<1> DEFINE F == Top(t)
           p == IF F.at = "handle_open" THEN "handled_in_open" ELSE "handled_in_push"
<1>1. /\ At(t, "handle_open") \/ At(t, "handle_push")
      /\ lock_shared(t, F.l) /\ GoOn(t, p)
      /\ UNCHANGED <<cells, g_Severity>> /\ NothingRecorded /\ UNCHANGED ChannelFeature
  BY DEF handle_exception, cells
<1>2. LGTypes /\ frames[t] # <<>> /\ F.at \in {"handle_open", "handle_push"} /\ F \in Statements /\ F.l \in Addresses
  BY <1>1, StandingAt DEF LogPlaces
<1>3. p \in LogPlaces \ {"core", "message"} /\ p \in {"handled_in_open", "handled_in_push"}
  BY <1>2 DEF LogPlaces
<1>4. Rest' /\ OthersStay(t) /\ frames'[t] # <<>> /\ Top(t)'.at = p /\ Top(t)'.l = F.l
  BY <1>1, <1>2, <1>3, StatementGoesOn
<1>5. ASSUME ChannelFeature PROVE LocksExclude'
  <2>1. LocksExclude
    BY <1>5 DEF LGInv
  <2>2. F.at # "handle_open"
    <3> SUFFICES ASSUME F.at = "handle_open" PROVE FALSE
      OBVIOUS
    <3>1. HasExclusively(t, F.l)
      BY <1>2 DEF HasExclusively, At
    <3>2. mutex_of[F.l].exclusive = t
      BY <1>2, <2>1, <3>1 DEF LocksExclude
    <3> QED BY <1>1, <3>2, LoggerAssumptions DEF lock_shared, CanShare
  <2>3. StillApart /\ (\A u \in Callers, k \in Addresses : StillHeld(u, k)) /\ IsReader(t, mutex_of'[F.l])
    BY <1>1, <1>2, <2>1, SharedLock
  <2>4. Top(t)'.at = "handled_in_push"
    BY <1>2, <1>4, <2>2
  <2>5. \A k \in Addresses : ~HasExclusively(t, k)'
    BY <2>4 DEF HasExclusively, At
  <2>6. \A k \in Addresses : Reads(t, k)' => k = F.l
    BY <1>4, <2>4 DEF Reads, At
  <2>7. ~At(t, "handled_in_open")'
    BY <2>4 DEF At
  <2> QED BY <1>4, <2>1, <2>3, <2>5, <2>6, <2>7, LocksKept
<1> QED BY <1>1, <1>4, <1>5 DEF LGInv, Rest

LEMMA HandledHolds == ASSUME LGInv, NEW t \in Callers, Handled(t) PROVE LGInv'
<1> DEFINE F == Top(t)
<1>1. /\ \/ At(t, "handled_in_push") /\ mutex_of' = [mutex_of EXCEPT ![F.l] = WithoutReader(mutex_of[F.l], t)]
         \/ At(t, "handled_in_open")
      /\ LeaveCall(t) /\ UNCHANGED <<cells, g_Severity>> /\ NothingRecorded /\ UNCHANGED ChannelFeature
  BY DEF Handled, cells
<1>2. LGTypes /\ frames[t] # <<>> /\ F.at \in {"handled_in_open", "handled_in_push"} /\ F \in Statements
      /\ F.l \in Addresses
  BY <1>1, StandingAt DEF LogPlaces
<1>3. LGTypes' /\ KeepsAll' /\ OthersStay(t) /\ (frames'[t] # <<>> => Top(t)'.at = "message")
  BY <1>1, <1>2, QuietLeave
<1>4. ASSUME ChannelFeature PROVE LocksExclude'
  <2>1. LocksExclude
    BY <1>4 DEF LGInv
  <2>2. At(t, "handled_in_push") /\ mutex_of' = [mutex_of EXCEPT ![F.l] = WithoutReader(mutex_of[F.l], t)]
    BY <1>1, <1>2, <2>1 DEF LocksExclude
  <2>3. Reads(t, F.l) /\ IsReader(t, mutex_of[F.l])
    BY <1>2, <2>1, <2>2 DEF Reads, LocksExclude
  <2>4. mutex_of[F.l].exclusive # t
    <3>1. mutex_of[F.l].shared # <<>>
      BY <2>3, EmptySeq DEF IsReader
    <3> QED BY <1>2, <2>1, <3>1, LoggerAssumptions DEF LocksExclude
  <2>5. release_lock(t, F.l)
    BY <2>2, <2>4 DEF release_lock, Unlocked
  <2> QED BY <1>2, <1>3, <2>1, <2>3, <2>5, LocksReleased
<1> QED BY <1>1, <1>3, <1>4 DEF LGInv, WrittenAsOpened, NothingRecorded

\* The calls that change a logger.
LEMMA OthersAreNoStatements == \A g \in OtherCalls : g \notin Statements
BY DEF OtherCalls, Statements, ChannelCalls, RemoveCalls, SetCalls, Copies, Assignments, Swaps, LogPlaces

\* A thread takes the shared lock of the logger it reads.
LEMMA ReadLockHolds ==
    ASSUME LGInv, NEW t \in Callers, frames[t] # <<>>, UNCHANGED <<cells, g_Severity>>, NothingRecorded,
           Top(t) \in SetCalls \cup Copies, NEW p \in {"got", "copied"},
           [Top(t) EXCEPT !.at = p] \in SetCalls \cup Copies,
           lock_shared(t, Top(t).from), GoOn(t, p)
    PROVE  LGInv'
<1> DEFINE F == Top(t)
<1>1. LGTypes /\ UNCHANGED ChannelFeature
  BY DEF LGInv, cells
<1>2. PICK g : g = [F EXCEPT !.at = p]
  OBVIOUS
<1>3. g \in SetCalls \cup Copies /\ g.at = p /\ g.from = F.from /\ F.from \in Addresses
  BY <1>2 DEF SetCalls, Copies
<1>4. g \notin Swaps /\ g \notin Assignments /\ g \in OtherCalls /\ F \in OtherCalls
  BY <1>3 DEF OtherCalls, Swaps, Assignments
<1>5. frames' = [frames EXCEPT ![t] = [frames[t] EXCEPT ![Len(frames[t])] = g]]
  BY <1>1, <1>2, GoOnIs
<1>6. Rest' /\ OthersStay(t) /\ frames'[t] # <<>> /\ Top(t)' = g
  BY <1>4, <1>5, CallGoesOn
<1>7. ASSUME ChannelFeature PROVE LocksExclude'
  <2>1. LocksExclude
    BY <1>7 DEF LGInv
  <2>2. StillApart /\ (\A u \in Callers, k \in Addresses : StillHeld(u, k)) /\ IsReader(t, mutex_of'[F.from])
    BY <1>3, <2>1, SharedLock
  <2>3. \A k \in Addresses : ~HasExclusively(t, k)' /\ (Reads(t, k)' => k = F.from)
    BY <1>3, <1>6 DEF HasExclusively, Reads, At
  <2>4. ~At(t, "handled_in_open")'
    BY <1>3, <1>6 DEF At
  <2> QED BY <1>6, <2>1, <2>2, <2>3, <2>4, LocksKept
<1> QED BY <1>1, <1>6, <1>7 DEF LGInv, Rest

LEMMA GetAttributesHolds == ASSUME LGInv, NEW t \in Callers, GetAttributes(t) PROVE LGInv'
<1>1. LGTypes /\ frames[t] # <<>> /\ Top(t).at = "get"
  BY StandingAt DEF GetAttributes
<1>2. Top(t) \in SetCalls /\ [Top(t) EXCEPT !.at = "got"] \in SetCalls
  BY <1>1, KindByPlace DEF SetCalls
<1> QED BY <1>1, <1>2, ReadLockHolds DEF GetAttributes

LEMMA CopyLoggerHolds == ASSUME LGInv, NEW t \in Callers, CopyLogger(t) PROVE LGInv'
<1>1. LGTypes /\ frames[t] # <<>> /\ Top(t).at = "copy"
  BY StandingAt DEF CopyLogger
<1>2. Top(t) \in Copies /\ [Top(t) EXCEPT !.at = "copied"] \in Copies
  BY <1>1, KindByPlace DEF Copies
<1> QED BY <1>1, <1>2, ReadLockHolds DEF CopyLogger

LEMMA GotHolds == ASSUME LGInv, NEW t \in Callers, Got(t) PROVE LGInv'
<1> DEFINE F == Top(t)
<1>1. At(t, "got") /\ UNCHANGED <<cells, g_Severity>> /\ NothingRecorded /\ UNCHANGED ChannelFeature
  BY DEF Got, cells
<1>2. LGTypes /\ frames[t] # <<>> /\ F.at = "got"
  BY <1>1, StandingAt
<1>3. F \in SetCalls /\ F.from \in Addresses /\ F \in OtherCalls
  BY <1>2, KindByPlace DEF SetCalls, OtherCalls
<1>4. Len(frames[t]) = 1
  BY <1>2, <1>3, InnermostIsCall
<1>5. PICK s : s = m_Attributes[F.from]
  OBVIOUS
<1>6. s \in CellOrNone
  BY <1>2, <1>3, <1>5 DEF LGTypes
<1>7. PICK g : g = [F EXCEPT !.at = "lock", !.set = s]
  OBVIOUS
<1>8. g \in SetCalls /\ g.at = "lock"
  BY <1>3, <1>6, <1>7 DEF SetCalls
<1>9. g \in OtherCalls /\ g \notin Swaps /\ g \notin Assignments
  BY <1>8 DEF OtherCalls, SetCalls, Swaps, Assignments
<1>10. frames' = [frames EXCEPT ![t] = [frames[t] EXCEPT ![Len(frames[t])] = g]]
  BY <1>4, <1>5, <1>7 DEF Got, Top
<1>11. Rest' /\ OthersStay(t) /\ frames'[t] # <<>> /\ Top(t)' = g
  BY <1>1, <1>2, <1>3, <1>9, <1>10, CallGoesOn
<1>12. ASSUME ChannelFeature PROVE LocksExclude'
  <2>1. Reads(t, F.from) /\ release_lock(t, F.from)
    BY <1>1 DEF Reads, Got
  <2> QED BY <1>3, <1>8, <1>11, <1>12, <2>1, LocksReleased DEF LGInv
<1> QED BY <1>1, <1>11, <1>12 DEF LGInv, Rest

\* The copy carries the cell of a logger that no one else has locked exclusively.
LEMMA CopiedHolds == ASSUME LGInv, NEW t \in Callers, Copied(t) PROVE LGInv'
<1> DEFINE F == Top(t)
           c == m_ChannelAttr[F.from]
<1>1. /\ At(t, "copied") /\ UNCHANGED <<cells, g_Severity>> /\ NothingRecorded /\ UNCHANGED ChannelFeature
      /\ UNCHANGED <<m_ChannelAttr, m_Attributes, m_Value>>
  BY DEF Copied, cells
<1>2. LGTypes /\ frames[t] # <<>> /\ F.at = "copied"
  BY <1>1, StandingAt
<1>3. F \in Copies /\ F.from \in Addresses /\ F \in OtherCalls
  BY <1>2, KindByPlace DEF Copies, OtherCalls
<1>4. Len(frames[t]) = 1
  BY <1>2, <1>3, InnermostIsCall
<1>5. PICK s : s = IF m_Attributes[F.from] = NoOne THEN c ELSE m_Attributes[F.from]
  OBVIOUS
<1>6. s \in CellOrNone /\ c \in Addresses
  BY <1>2, <1>3, <1>5 DEF LGTypes, CellOrNone
<1>7. PICK g : g = [F EXCEPT !.at = "lock", !.cell = c, !.set = s]
  OBVIOUS
<1>8. g \in Assignments /\ g.at = "lock" /\ g.cell = c
  BY <1>3, <1>6, <1>7 DEF Copies, Assignments
<1>9. g \in OtherCalls /\ g \notin Swaps /\ g \notin Statements
  BY <1>8, OthersAreNoStatements DEF OtherCalls, Swaps, Assignments
<1>10. frames' = [frames EXCEPT ![t] = [frames[t] EXCEPT ![Len(frames[t])] = g]]
  BY ZenonT(60), <1>4, <1>5, <1>7 DEF Copied, Top
<1>11. /\ OthersStay(t) /\ frames'[t] # <<>> /\ Top(t)' = g
       /\ IsStack(frames[t])' /\ Len(frames'[t]) = 1
  BY <1>1, <1>2, <1>3, <1>4, <1>9, <1>10, InnermostChanges
<1>12. LGTypes'
  BY <1>1, <1>2, <1>11, TypesStay
<1>13. Untouched(t)
  <2> SUFFICES ASSUME ChannelFeature, NEW u \in Callers \ {t}, NEW l \in Addresses, HasExclusively(u, l), Alone(l)
               PROVE  Alone(l)' /\ m_Value'[m_ChannelAttr'[l]] = m_Value[m_ChannelAttr[l]]
    BY DEF Untouched
  <2>1. ~Reads(t, l)
    BY ExclusivelyLocked DEF LGInv
  <2>2. F.from # l
    BY <1>1, <2>1 DEF Reads
  <2>3. c # m_ChannelAttr[l] /\ \A k \in Addresses \ {l} : m_ChannelAttr'[k] # m_ChannelAttr[l]
    BY <1>1, <1>3, <2>2 DEF Alone
  <2>4. Alone(l)'
    BY <1>1, <1>8, <1>11, <2>3, StaysAlone
  <2> QED BY <1>1, <2>4
<1>14. KeepsAll'
  <2>1. \A i \in 1..Len(frames'[t]) : frames'[t][i] \notin Statements
    BY <1>9, <1>11 DEF Top
  <2> QED BY <1>1, <1>11, <1>13, <2>1, OthersKeep
<1>15. ASSUME ChannelFeature PROVE LocksExclude'
  <2>1. Reads(t, F.from) /\ release_lock(t, F.from)
    BY <1>1 DEF Reads, Copied
  <2> QED BY <1>3, <1>8, <1>11, <1>15, <2>1, LocksReleased DEF LGInv
<1> QED BY <1>1, <1>12, <1>14, <1>15 DEF LGInv, WrittenAsOpened, NothingRecorded

LEMMA LockToChangeHolds == ASSUME LGInv, NEW t \in Callers, LockToChange(t) PROVE LGInv'
<1> DEFINE F == Top(t)
<1>1. /\ At(t, "lock") /\ UNCHANGED <<cells, g_Severity>> /\ NothingRecorded /\ UNCHANGED ChannelFeature
      /\ exclusive_lock(t, F.l)
  BY DEF LockToChange, cells
<1>2. LGTypes /\ frames[t] # <<>> /\ F.at = "lock"
  BY <1>1, StandingAt
<1>3. F \in ChannelCalls \cup RemoveCalls \cup SetCalls \cup Assignments
  BY <1>2, KindByPlace
<1>4. F.l \in Addresses /\ F \in OtherCalls
  BY <1>3 DEF OtherCalls, ChannelCalls, RemoveCalls, SetCalls, Assignments
<1>5. CASE ~Locked(t, F.l)
  BY <1>1, <1>4, <1>5, LockWaits DEF LockToChange
<1>6. CASE Locked(t, F.l)
  <2>1. PICK g : g = [F EXCEPT !.at = "change"]
    OBVIOUS
  <2>2. g.at = "change" /\ g.l = F.l /\ g \in ChannelCalls \cup RemoveCalls \cup SetCalls \cup Assignments
    BY <1>3, <2>1 DEF ChannelCalls, RemoveCalls, SetCalls, Assignments
  <2>3. g \in OtherCalls /\ g \notin Swaps
    BY <2>2 DEF OtherCalls, Swaps
  <2>4. g \in Assignments => Assigning(t) /\ g.cell = F.cell
    <3>1. F \in Assignments => Assigning(t) /\ g.cell = F.cell
      BY <1>1, <2>1 DEF Assignments, Assigning
    <3>2. g \in Assignments => F \in Assignments
      BY <1>3, <2>1 DEF Assignments, ChannelCalls, RemoveCalls, SetCalls
    <3> QED BY <3>1, <3>2
  <2>5. GoOn(t, "change")
    BY <1>6 DEF LockToChange
  <2>6. frames' = [frames EXCEPT ![t] = [frames[t] EXCEPT ![Len(frames[t])] = g]]
    BY <1>2, <2>1, <2>5, GoOnIs
  <2>7. Rest' /\ OthersStay(t) /\ frames'[t] # <<>> /\ Top(t)' = g
    BY <1>1, <1>2, <1>4, <2>3, <2>4, <2>6, CallGoesOn
  <2>8. ASSUME ChannelFeature PROVE LocksExclude'
    <3>1. LocksExclude /\ mutex_of'[F.l].exclusive = t
      BY <1>6, <2>8 DEF LGInv, Locked
    <3>2. StillApart /\ \A u \in Callers, k \in Addresses : StillHeld(u, k)
      BY <1>1, <1>4, <3>1, ExclusiveLock
    <3>3. \A k \in Addresses : (HasExclusively(t, k)' => k = F.l) /\ ~Reads(t, k)'
      BY <2>2, <2>7 DEF HasExclusively, Reads, At
    <3>4. ~At(t, "handled_in_open")'
      BY <2>2, <2>7 DEF At
    <3> QED BY <2>7, <3>1, <3>2, <3>3, <3>4, LocksKept
  <2> QED BY <1>1, <2>7, <2>8 DEF LGInv, Rest
<1> QED BY <1>5, <1>6

\* A logger that a thread changes is its own; the others stay what they are.
LEMMA ApplyHolds == ASSUME LGInv, NEW t \in Callers, Apply(t) PROVE LGInv'
<1> DEFINE F == Top(t)
           c == m_ChannelAttr[F.l]
<1>1. /\ At(t, "change") /\ UNCHANGED <<ChannelFeature, g_Severity>> /\ NothingRecorded
      /\ release_lock(t, F.l) /\ LeaveCall(t)
  BY DEF Apply
<1>2. LGTypes /\ frames[t] # <<>> /\ F.at = "change"
  BY <1>1, StandingAt
<1>3. F \in ChannelCalls \cup RemoveCalls \cup SetCalls \cup Assignments
  BY <1>2, KindByPlace
<1>4. F.l \in Addresses /\ c \in Addresses
  BY <1>2, <1>3 DEF ChannelCalls, RemoveCalls, SetCalls, Assignments, LGTypes
<1>5. /\ OthersStay(t) /\ (frames'[t] # <<>> => Top(t)'.at = "message")
      /\ \A u \in Callers : IsStack(frames[u])'
      /\ Untouched(t) => KeepsAll'
  BY <1>1, <1>2, LeaveKeeps
<1>6. /\ m_Value' \in [Addresses -> Named]
      /\ \A k \in Addresses \ {c} : m_Value'[k] = m_Value[k]
  <2>1. m_Value' = IF F.op = "channel" THEN [m_Value EXCEPT ![c] = F.channel] ELSE m_Value
    BY DEF Apply
  <2>2. F.op = "channel" => F.channel \in Named
    BY <1>3 DEF ChannelCalls, RemoveCalls, SetCalls, Assignments
  <2>3. m_Value \in [Addresses -> Named]
    BY <1>2 DEF LGTypes
  <2> QED BY <2>1, <2>2, <2>3
<1>7. /\ m_Attributes' \in [Addresses -> CellOrNone]
      /\ \A k \in Addresses \ {F.l} : m_Attributes'[k] = m_Attributes[k]
  <2>1. m_Attributes' = IF F.op = "remove_all_attributes" THEN [m_Attributes EXCEPT ![F.l] = NoOne]
                        ELSE IF F.op \in {"assign", "set_attributes"} THEN [m_Attributes EXCEPT ![F.l] = F.set]
                        ELSE m_Attributes
    BY DEF Apply
  <2>2. F.op \in {"assign", "set_attributes"} => F.set \in CellOrNone
    BY <1>3 DEF ChannelCalls, RemoveCalls, SetCalls, Assignments
  <2>3. m_Attributes \in [Addresses -> CellOrNone] /\ NoOne \in CellOrNone
    BY <1>2 DEF LGTypes, CellOrNone
  <2> QED BY <2>1, <2>2, <2>3
<1>8. F.op = "assign" => F.cell \in Addresses /\ Assigning(t)
  BY <1>1, <1>3 DEF ChannelCalls, RemoveCalls, SetCalls, Assignments, Assigning
<1>9. /\ m_ChannelAttr' \in [Addresses -> Addresses]
      /\ \A k \in Addresses : m_ChannelAttr'[k] = m_ChannelAttr[k]
                              \/ (k = F.l /\ Assigning(t) /\ m_ChannelAttr'[k] = F.cell)
  <2>1. m_ChannelAttr' = IF F.op = "assign" THEN [m_ChannelAttr EXCEPT ![F.l] = F.cell] ELSE m_ChannelAttr
    BY DEF Apply
  <2>2. m_ChannelAttr \in [Addresses -> Addresses]
    BY <1>2 DEF LGTypes
  <2>3. CASE F.op = "assign"
    <3>1. m_ChannelAttr' = [m_ChannelAttr EXCEPT ![F.l] = F.cell] /\ F.cell \in Addresses /\ Assigning(t)
      BY <1>8, <2>1, <2>3
    <3>2. m_ChannelAttr'[F.l] = F.cell /\ \A k \in Addresses \ {F.l} : m_ChannelAttr'[k] = m_ChannelAttr[k]
      BY <1>4, <2>2, <3>1
    <3>3. m_ChannelAttr' \in [Addresses -> Addresses]
      BY <1>4, <2>2, <3>1
    <3> QED BY <3>1, <3>2, <3>3
  <2>4. CASE F.op # "assign"
    BY <2>1, <2>2, <2>4
  <2> QED BY <2>3, <2>4
<1>10. LGTypes'
  BY <1>1, <1>2, <1>5, <1>6, <1>7, <1>9 DEF LGTypes, OthersStay
<1>11. HasExclusively(t, F.l)
  BY <1>1 DEF HasExclusively
<1>12. Untouched(t)
  <2> SUFFICES ASSUME ChannelFeature, NEW u \in Callers \ {t}, NEW l \in Addresses, HasExclusively(u, l), Alone(l)
               PROVE  Alone(l)' /\ m_Value'[m_ChannelAttr'[l]] = m_Value[m_ChannelAttr[l]]
    BY DEF Untouched
  <2>1. F.l # l
    BY <1>11, ExclusivelyLocked DEF LGInv
  <2>2. m_Attributes'[l] = m_Attributes[l] /\ m_ChannelAttr'[l] = m_ChannelAttr[l]
    BY <1>7, <1>9, <2>1
  <2>3. \A k \in Addresses \ {l} : m_ChannelAttr'[k] # m_ChannelAttr[l]
    BY <1>9 DEF Alone
  <2>4. ~Assigning(t)'
    BY <1>5 DEF Assigning, At
  <2>5. Alone(l)'
    BY <1>5, <2>2, <2>3, <2>4, StaysAlone
  <2>6. m_ChannelAttr[l] \in Addresses \ {c}
    BY <1>2, <1>4, <2>1 DEF Alone, LGTypes
  <2> QED BY <1>6, <2>2, <2>5, <2>6
<1>13. ChannelFeature => LocksExclude'
  BY <1>1, <1>4, <1>5, <1>11, LocksReleased DEF LGInv
<1> QED BY <1>1, <1>5, <1>10, <1>12, <1>13 DEF LGInv, WrittenAsOpened, NothingRecorded

LEMMA LockBothHolds == ASSUME LGInv, NEW t \in Callers, LockBoth(t) PROVE LGInv'
<1> DEFINE F == Top(t)
           a == First(F)
           b == IF a = F.l THEN F.from ELSE F.l
           m == IF At(t, "lock_first") THEN a ELSE b
           p == IF m = a THEN "lock_second" ELSE "swap"
<1>1. /\ At(t, "lock_first") \/ At(t, "lock_second")
      /\ UNCHANGED <<cells, g_Severity>> /\ NothingRecorded /\ UNCHANGED ChannelFeature
      /\ exclusive_lock(t, m)
      /\ IF Locked(t, m) THEN GoOn(t, p) ELSE UNCHANGED frames
  BY DEF LockBoth, Second, cells
<1>2. LGTypes /\ frames[t] # <<>> /\ F.at \in {"lock_first", "lock_second"}
  BY <1>1, StandingAt
<1>3. F \in Swaps /\ F.l # F.from /\ F.l \in Addresses /\ F.from \in Addresses /\ F \in OtherCalls
  BY <1>2, KindByPlace DEF Swaps, OtherCalls
<1>4. m \in Addresses /\ a \in {F.l, F.from} /\ a # b /\ {F.l, F.from} = {a, b}
  BY <1>3 DEF First
<1>5. CASE ~Locked(t, m)
  BY <1>1, <1>4, <1>5, LockWaits
<1>6. CASE Locked(t, m)
  <2>1. PICK g : g = [F EXCEPT !.at = p]
    OBVIOUS
  <2>2. g \in Swaps /\ g.at = p /\ g.l = F.l /\ g.from = F.from
    BY <1>3, <2>1 DEF Swaps
  <2>3. g \in OtherCalls /\ g \notin Assignments /\ First(g) = a
    BY <2>2 DEF OtherCalls, Swaps, Assignments, First
  <2>4. frames' = [frames EXCEPT ![t] = [frames[t] EXCEPT ![Len(frames[t])] = g]]
    BY <1>1, <1>2, <1>6, <2>1, GoOnIs
  <2>5. Rest' /\ OthersStay(t) /\ frames'[t] # <<>> /\ Top(t)' = g
    BY <1>1, <1>2, <1>3, <2>2, <2>3, <2>4, CallGoesOn
  <2>6. ASSUME ChannelFeature PROVE LocksExclude'
    <3>1. LocksExclude /\ mutex_of'[m].exclusive = t
      BY <1>6, <2>6 DEF LGInv, Locked
    <3>2. StillApart /\ \A u \in Callers, k \in Addresses : StillHeld(u, k)
      BY <1>1, <1>4, <3>1, ExclusiveLock
    <3>3. \A k \in Addresses : HasExclusively(t, k)' => mutex_of'[k].exclusive = t
      <4>1. CASE At(t, "lock_first")
        <5>1. p = "lock_second" /\ m = a
          BY <4>1
        <5>2. First(Top(t))' = a
          BY <2>3, <2>5 DEF First
        <5> QED BY <2>2, <2>5, <3>1, <5>1, <5>2 DEF HasExclusively, At
      <4>2. CASE ~At(t, "lock_first")
        <5>1. p = "swap" /\ m = b /\ At(t, "lock_second")
          BY <1>1, <1>4, <4>2
        <5>2. mutex_of[a].exclusive = t
          BY <1>3, <1>4, <3>1, <5>1 DEF HasExclusively, LocksExclude
        <5>3. mutex_of'[a].exclusive = t /\ mutex_of'[b].exclusive = t
          BY <1>3, <1>4, <3>1, <3>2, <5>1, <5>2 DEF StillHeld
        <5>4. \A k \in Addresses : HasExclusively(t, k)' => k \in {a, b}
          BY <1>4, <2>2, <2>5, <5>1 DEF HasExclusively, At
        <5> QED BY <5>3, <5>4
      <4> QED BY <4>1, <4>2
    <3>4. (\A k \in Addresses : ~Reads(t, k)') /\ ~At(t, "handled_in_open")'
      BY <2>2, <2>5 DEF Reads, At
    <3> QED BY <2>5, <3>1, <3>2, <3>3, <3>4, LocksKept
  <2> QED BY <1>1, <2>5, <2>6 DEF LGInv, Rest
<1> QED BY <1>5, <1>6

LEMMA SwapHolds == ASSUME LGInv, NEW t \in Callers, swap(t) PROVE LGInv'
<1> DEFINE F == Top(t)
           l == F.l
           k == F.from
<1>1. /\ At(t, "swap") /\ UNCHANGED <<ChannelFeature, m_Value, g_Severity>> /\ NothingRecorded /\ LeaveCall(t)
      /\ m_Attributes' = [m_Attributes EXCEPT ![l] = m_Attributes[k], ![k] = m_Attributes[l]]
      /\ m_ChannelAttr' = [m_ChannelAttr EXCEPT ![l] = m_ChannelAttr[k], ![k] = m_ChannelAttr[l]]
      /\ mutex_of' = [mutex_of EXCEPT ![l] = WithoutWriter(@), ![k] = WithoutWriter(@)]
  BY DEF swap
<1>2. LGTypes /\ frames[t] # <<>> /\ F.at = "swap"
  BY <1>1, StandingAt
<1>3. l # k /\ l \in Addresses /\ k \in Addresses
  BY <1>2, KindByPlace DEF Swaps
<1>4. /\ OthersStay(t) /\ (frames'[t] # <<>> => Top(t)'.at = "message")
      /\ \A u \in Callers : IsStack(frames[u])'
      /\ Untouched(t) => KeepsAll'
  BY <1>1, <1>2, LeaveKeeps
<1>5. /\ m_Attributes' \in [Addresses -> CellOrNone] /\ m_ChannelAttr' \in [Addresses -> Addresses]
      /\ m_ChannelAttr'[l] = m_ChannelAttr[k] /\ m_ChannelAttr'[k] = m_ChannelAttr[l]
      /\ \A j \in Addresses \ {l, k} : m_Attributes'[j] = m_Attributes[j] /\ m_ChannelAttr'[j] = m_ChannelAttr[j]
  BY <1>1, <1>2, <1>3 DEF LGTypes
<1>6. LGTypes'
  BY <1>1, <1>2, <1>4, <1>5 DEF LGTypes, OthersStay
<1>7. HasExclusively(t, l) /\ HasExclusively(t, k)
  BY <1>1 DEF HasExclusively
<1>8. Untouched(t)
  <2> SUFFICES ASSUME ChannelFeature, NEW u \in Callers \ {t}, NEW j \in Addresses, HasExclusively(u, j), Alone(j)
               PROVE  Alone(j)' /\ m_Value'[m_ChannelAttr'[j]] = m_Value[m_ChannelAttr[j]]
    BY DEF Untouched
  <2>1. j \in Addresses \ {l, k}
    BY <1>7, ExclusivelyLocked DEF LGInv
  <2>2. m_Attributes'[j] = m_Attributes[j] /\ m_ChannelAttr'[j] = m_ChannelAttr[j]
    BY <1>5, <2>1
  <2>3. \A i \in Addresses \ {j} : m_ChannelAttr'[i] # m_ChannelAttr[j]
    BY <1>3, <1>5, <2>1 DEF Alone
  <2>4. ~Assigning(t)'
    BY <1>4 DEF Assigning, At
  <2>5. Alone(j)'
    BY <1>4, <2>2, <2>3, <2>4, StaysAlone
  <2> QED BY <1>1, <2>2, <2>5
<1>9. ASSUME ChannelFeature PROVE LocksExclude'
  <2>1. LocksExclude /\ mutex_of \in [Addresses -> Mutexes]
    BY <1>9 DEF LGInv, LocksExclude
  <2>2. mutex_of[l].exclusive = t /\ mutex_of[k].exclusive = t
    BY <1>3, <1>7, <2>1 DEF LocksExclude
  <2>3. \A x \in Mutexes : /\ WithoutWriter(x) \in Mutexes /\ WithoutWriter(x).exclusive = NoOne
                           /\ WithoutWriter(x).shared = x.shared
    BY DEF WithoutWriter, Mutexes
  <2>4. /\ mutex_of'[l] = WithoutWriter(mutex_of[l]) /\ mutex_of'[k] = WithoutWriter(mutex_of[k])
        /\ \A j \in Addresses \ {l, k} : mutex_of'[j] = mutex_of[j]
        /\ mutex_of' \in [Addresses -> Mutexes]
    <3>1. WithoutWriter(mutex_of[l]) \in Mutexes /\ WithoutWriter(mutex_of[k]) \in Mutexes
      BY <1>3, <2>1, <2>3
    <3> QED BY <1>1, <1>3, <2>1, <3>1
  <2>5. StillApart
    BY <2>1, <2>3, <2>4 DEF StillApart, LocksExclude
  <2>6. \A u \in Callers \ {t}, j \in Addresses : StillHeld(u, j)
    <3>1. \A u \in Callers \ {t}, j \in {l, k} : mutex_of[j].exclusive # u /\ mutex_of'[j].shared = mutex_of[j].shared
      BY <1>3, <2>1, <2>2, <2>3, <2>4
    <3>2. \A u \in Callers \ {t}, j \in {l, k} : StillHeld(u, j)
      BY <3>1 DEF StillHeld, IsReader
    <3>3. \A u \in Callers \ {t}, j \in Addresses \ {l, k} : StillHeld(u, j)
      BY <2>4 DEF StillHeld, IsReader
    <3> QED BY <3>2, <3>3
  <2>7. (\A j \in Addresses : ~HasExclusively(t, j)' /\ ~Reads(t, j)') /\ ~At(t, "handled_in_open")'
    BY <1>4 DEF HasExclusively, Reads, At
  <2> QED BY <1>4, <2>1, <2>5, <2>6, <2>7, LocksKept
<1> QED BY <1>1, <1>4, <1>6, <1>8, <1>9 DEF LGInv, WrittenAsOpened, NothingRecorded

LEMMA ChangeHolds == ASSUME LGInv, NEW t \in Callers, ChangeLogger(t) PROVE LGInv'
<1>1. PICK l \in Addresses :
       \/ \E ch \in Channels : ChannelFeature /\ Enter(t, [at |-> "lock", op |-> "channel", l |-> l, channel |-> ch])
       \/ Enter(t, [at |-> "lock", op |-> "remove_all_attributes", l |-> l])
       \/ \E k \in Addresses \ {l} :
             \/ Enter(t, [at |-> "copy", op |-> "assign", l |-> l, from |-> k, cell |-> NoOne, set |-> NoOne])
             \/ Enter(t, [at |-> "get", op |-> "set_attributes", l |-> l, from |-> k, set |-> NoOne])
             \/ Enter(t, [at |-> "lock_first", op |-> "swap", l |-> l, from |-> k])
  BY DEF ChangeLogger
<1>2. ASSUME NEW g \in OtherCalls, Enter(t, g), g.at \in {"lock", "copy", "get", "lock_first"},
             g \in Swaps => g.l # g.from, g \notin Assignments
      PROVE  LGInv'
  <2>1. frames[t] = <<>>
    BY DEF ChangeLogger
  <2> QED BY <1>2, <2>1, OthersAreNoStatements, QuietEnter
<1>3. ASSUME NEW ch \in Channels, Enter(t, [at |-> "lock", op |-> "channel", l |-> l, channel |-> ch])
      PROVE  LGInv'
  <2> DEFINE g == [at |-> "lock", op |-> "channel", l |-> l, channel |-> ch]
  <2>1. g \in ChannelCalls /\ g.at = "lock"
    BY DEF ChannelCalls, Channels, Named
  <2> HIDE DEF g
  <2>2. g \in OtherCalls /\ g \notin Swaps /\ g \notin Assignments
    BY <2>1 DEF OtherCalls, ChannelCalls, Swaps, Assignments
  <2> QED BY <1>2, <1>3, <2>1, <2>2 DEF g
<1>4. ASSUME Enter(t, [at |-> "lock", op |-> "remove_all_attributes", l |-> l]) PROVE LGInv'
  <2> DEFINE g == [at |-> "lock", op |-> "remove_all_attributes", l |-> l]
  <2>1. g \in RemoveCalls /\ g.at = "lock"
    BY DEF RemoveCalls
  <2> HIDE DEF g
  <2>2. g \in OtherCalls /\ g \notin Swaps /\ g \notin Assignments
    BY <2>1 DEF OtherCalls, RemoveCalls, Swaps, Assignments
  <2> QED BY <1>2, <1>4, <2>1, <2>2 DEF g
<1>5. ASSUME NEW k \in Addresses \ {l},
             Enter(t, [at |-> "copy", op |-> "assign", l |-> l, from |-> k, cell |-> NoOne, set |-> NoOne])
      PROVE  LGInv'
  <2> DEFINE g == [at |-> "copy", op |-> "assign", l |-> l, from |-> k, cell |-> NoOne, set |-> NoOne]
  <2>1. g \in Copies /\ g.at = "copy"
    BY DEF Copies, CellOrNone
  <2> HIDE DEF g
  <2>2. g \in OtherCalls /\ g \notin Swaps /\ g \notin Assignments
    BY <2>1 DEF OtherCalls, Copies, Swaps, Assignments
  <2> QED BY <1>2, <1>5, <2>1, <2>2 DEF g
<1>6. ASSUME NEW k \in Addresses \ {l},
             Enter(t, [at |-> "get", op |-> "set_attributes", l |-> l, from |-> k, set |-> NoOne])
      PROVE  LGInv'
  <2> DEFINE g == [at |-> "get", op |-> "set_attributes", l |-> l, from |-> k, set |-> NoOne]
  <2>1. g \in SetCalls /\ g.at = "get"
    BY DEF SetCalls, CellOrNone
  <2> HIDE DEF g
  <2>2. g \in OtherCalls /\ g \notin Swaps /\ g \notin Assignments
    BY <2>1 DEF OtherCalls, SetCalls, Swaps, Assignments
  <2> QED BY <1>2, <1>6, <2>1, <2>2 DEF g
<1>7. ASSUME NEW k \in Addresses \ {l}, Enter(t, [at |-> "lock_first", op |-> "swap", l |-> l, from |-> k])
      PROVE  LGInv'
  <2> DEFINE g == [at |-> "lock_first", op |-> "swap", l |-> l, from |-> k]
  <2>1. g \in Swaps /\ g.at = "lock_first" /\ g.l # g.from
    BY DEF Swaps
  <2> HIDE DEF g
  <2>2. g \in OtherCalls /\ g \notin Assignments
    BY <2>1 DEF OtherCalls, Swaps, Assignments
  <2> QED BY <1>2, <1>7, <2>1, <2>2 DEF g
<1> QED BY <1>1, <1>3, <1>4, <1>5, <1>6, <1>7

LEMMA LGInvStep == LGInv /\ [LGNext]_lgVars => LGInv'
<1> SUFFICES ASSUME LGInv, [LGNext]_lgVars PROVE LGInv'
  OBVIOUS
<1>1. ASSUME NEW t \in Callers, log(t) \/ ChangeLogger(t) \/ LGStep(t) PROVE LGInv'
  BY <1>1, LogHolds, ChangeHolds, OpenLockHolds, OpenHolds, CoreHolds, PushHolds, HandlerHolds, HandledHolds,
     GetAttributesHolds, GotHolds, CopyLoggerHolds, CopiedHolds, LockToChangeHolds, ApplyHolds, LockBothHolds,
     SwapHolds DEF LGStep
<1>2. CASE UNCHANGED lgVars
  <2>1. LGTypes' /\ WrittenAsOpened'
    BY <1>2 DEF LGInv, LGTypes, IsStack, WrittenAsOpened, lgVars
  <2>2. ChannelFeature' => LocksExclude'
    BY <1>2 DEF LGInv, LocksExclude, HasExclusively, Reads, IsReader, At, Top, lgVars
  <2>3. KeepsAll'
    BY <1>2 DEF LGInv, KeepsAll, Keeps, Alone, Assigning, At, Top, lgVars
  <2> QED BY <2>1, <2>2, <2>3 DEF LGInv
<1> QED BY <1>1, <1>2 DEF LGNext

\* Whatever the other threads log through the same logger, swap or assign, a sink
\* sees a record with the severity and the channel its statement named, unless
\* the message has opened another one or a copy of the logger shares its cell.
THEOREM StatementsAreWrittenAsOpened == LGSpec => []WrittenAsOpened
<1>1. LGInv => WrittenAsOpened
  BY DEF LGInv
<1> QED BY <1>1, LGInvInit, LGInvStep, PTL DEF LGSpec

-------------------------------------------------------------------------------
(* Loggers never wait for one another for ever.  With or without the       *)
(* channel feature, the place of a thread tells exactly what it has        *)
(* locked, and none waits for a logger with a lower address than one it    *)
(* has locked.                                                             *)

Owns(t, l) ==
    \/ (At(t, "set") \/ At(t, "core")) /\ ChannelFeature /\ Top(t).l = l
    \/ At(t, "change") /\ Top(t).l = l
    \/ At(t, "lock_second") /\ First(Top(t)) = l
    \/ At(t, "swap") /\ l \in {Top(t).l, Top(t).from}
Shares(t, l) ==
    \/ (At(t, "set") \/ At(t, "core")) /\ ~ChannelFeature /\ Top(t).l = l
    \/ (At(t, "got") \/ At(t, "copied")) /\ Top(t).from = l
    \/ At(t, "handled_in_push") /\ Top(t).l = l

\* A mutex has one writer or readers, each once, and its barrier is up only while
\* somebody has locked it.
IsMutex(m) ==
    /\ m \in Mutexes
    /\ m.exclusive # NoOne => m.shared = <<>>
    /\ \A i, j \in 1..Len(m.shared) : m.shared[i] = m.shared[j] => i = j
    /\ m.barrier => m.exclusive # NoOne \/ m.shared # <<>>

LocksAreExact ==
    /\ DOMAIN mutex_of = Addresses
    /\ \A l \in Addresses : IsMutex(mutex_of[l])
    /\ \A l \in Addresses, t \in Callers :
          /\ mutex_of[l].exclusive = t <=> Owns(t, l)
          /\ IsReader(t, mutex_of[l]) <=> Shares(t, l)
    /\ \A t \in Callers : ~At(t, "handle_open") /\ ~At(t, "handled_in_open")

WaitInv == LGInv /\ (~threw => LocksAreExact)

LEMMA MutexIsTaken ==
    ASSUME NEW m, IsMutex(m), NEW t \in Callers, m.exclusive = NoOne, m.shared = <<>>
    PROVE  /\ IsMutex([m EXCEPT !.exclusive = t])
           /\ [m EXCEPT !.exclusive = t].exclusive = t
           /\ \A u \in Callers : ~IsReader(u, [m EXCEPT !.exclusive = t]) /\ ~IsReader(u, m)
<1>1. Len(m.shared) = 0 /\ NoOne \notin Callers
  BY EmptySeq, LoggerAssumptions
<1>2. PICK n : n = [m EXCEPT !.exclusive = t]
  OBVIOUS
<1>3. n \in Mutexes /\ n.exclusive = t /\ n.shared = m.shared /\ n.barrier = m.barrier
  BY <1>2 DEF IsMutex, Mutexes
<1>4. IsMutex(n) /\ \A u \in Callers : ~IsReader(u, n) /\ ~IsReader(u, m)
  BY <1>1, <1>3 DEF IsMutex, IsReader
<1> QED BY <1>2, <1>3, <1>4

LEMMA BarrierIsRaised ==
    ASSUME NEW m, IsMutex(m), m.exclusive # NoOne \/ m.shared # <<>>
    PROVE  /\ IsMutex([m EXCEPT !.barrier = TRUE])
           /\ [m EXCEPT !.barrier = TRUE].exclusive = m.exclusive
           /\ \A u \in Callers : IsReader(u, [m EXCEPT !.barrier = TRUE]) <=> IsReader(u, m)
<1>1. PICK n : n = [m EXCEPT !.barrier = TRUE]
  OBVIOUS
<1>2. n \in Mutexes /\ n.exclusive = m.exclusive /\ n.shared = m.shared
  BY <1>1 DEF IsMutex, Mutexes
<1>3. IsMutex(n) /\ \A u \in Callers : IsReader(u, n) <=> IsReader(u, m)
  BY <1>2 DEF IsMutex, IsReader
<1> QED BY <1>1, <1>2, <1>3

LEMMA ReaderJoins ==
    ASSUME NEW m, IsMutex(m), NEW t \in Callers, m.exclusive = NoOne, ~m.barrier, ~IsReader(t, m)
    PROVE  LET n == [m EXCEPT !.shared = Append(m.shared, t)] IN
           /\ IsMutex(n) /\ n.exclusive = NoOne
           /\ \A u \in Callers : IsReader(u, n) <=> IsReader(u, m) \/ u = t
<1> DEFINE s == m.shared
           r == Append(s, t)
<1>1. m \in Mutexes /\ s \in Seq(Callers)
  BY DEF IsMutex, Mutexes
<1>2. /\ r \in Seq(Callers) /\ Len(r) = Len(s) + 1 /\ r[Len(s) + 1] = t
      /\ \A i \in 1..Len(s) : r[i] = s[i]
      /\ Len(s) \in Nat
  BY <1>1, AppendProperties
<1>3. PICK n : n = [m EXCEPT !.shared = r]
  OBVIOUS
<1>4. n \in Mutexes /\ n.exclusive = NoOne /\ n.shared = r /\ n.barrier = m.barrier
  BY <1>1, <1>2, <1>3 DEF Mutexes
<1>5. \A i \in 1..Len(s) : s[i] # t
  BY DEF IsReader
<1> HIDE DEF r, s
<1>6. \A i, j \in 1..Len(r) : r[i] = r[j] => i = j
  <2>1. \A i, j \in 1..Len(s) : s[i] = s[j] => i = j
    BY DEF IsMutex, s
  <2> QED BY <1>2, <1>5, <2>1
<1>7. IsMutex(n)
  BY <1>4, <1>6 DEF IsMutex
<1>8. ASSUME NEW u \in Callers PROVE IsReader(u, n) <=> IsReader(u, m) \/ u = t
  <2>1. IsReader(u, n) <=> \E i \in 1..Len(r) : r[i] = u
    BY <1>4 DEF IsReader
  <2>2. IsReader(u, m) <=> \E i \in 1..Len(s) : s[i] = u
    BY DEF IsReader, s
  <2>3. \A i \in 1..Len(s) : i \in 1..Len(r)
    BY <1>2
  <2>4. \A i \in 1..Len(r) : i \in 1..Len(s) \/ i = Len(s) + 1
    BY <1>2
  <2>5. Len(s) + 1 \in 1..Len(r)
    BY <1>2
  <2> QED BY <1>2, <2>1, <2>2, <2>3, <2>4, <2>5
<1> QED BY <1>3, <1>4, <1>7, <1>8 DEF r, s

LEMMA ReaderIsGone ==
    ASSUME NEW m, IsMutex(m), NEW t \in Callers, IsReader(t, m)
    PROVE  /\ IsMutex(WithoutReader(m, t)) /\ WithoutReader(m, t).exclusive = NoOne /\ m.exclusive = NoOne
           /\ \A u \in Callers : IsReader(u, WithoutReader(m, t)) <=> IsReader(u, m) /\ u # t
<1> DEFINE s == m.shared
           n == Len(s)
           i == CHOOSE j \in DOMAIN s : s[j] = t
           r == RemoveAt(s, i)
           b == m.barrier /\ r # <<>>
<1>1. m \in Mutexes /\ s \in Seq(Callers)
  BY DEF IsMutex, Mutexes
<1>2. n \in Nat /\ DOMAIN s = 1..n
  BY <1>1
<1>3. i \in 1..n /\ s[i] = t
  BY <1>2 DEF IsReader
<1> HIDE DEF i
<1>4. /\ r \in Seq(Callers) /\ Len(r) = n - 1
      /\ \A j \in 1..(i - 1) : r[j] = s[j]
      /\ \A j \in i..(n - 1) : r[j] = s[j + 1]
  BY <1>1, <1>3, RemoveAtProperties
<1>5. PICK w : w = WithoutReader(m, t)
  OBVIOUS
<1>6. w = [m EXCEPT !.shared = r, !.barrier = b]
  BY <1>5 DEF WithoutReader, i
<1> HIDE DEF r, b
<1>7. b \in BOOLEAN /\ (b => r # <<>>)
  BY DEF b
<1>8. w \in Mutexes /\ w.exclusive = m.exclusive /\ w.shared = r /\ w.barrier = b
  BY <1>1, <1>4, <1>6, <1>7 DEF Mutexes
<1>9. m.exclusive = NoOne
  <2>1. s # <<>>
    BY <1>2, <1>3, EmptySeq
  <2> QED BY <2>1 DEF IsMutex
<1>10. \A j, k \in 1..n : s[j] = s[k] => j = k
  BY DEF IsMutex
<1> HIDE DEF s, n
\* Where an element of what is left was before.
<1> DEFINE old(j) == IF j < i THEN j ELSE j + 1
<1>11. \A j \in 1..(n - 1) : old(j) \in 1..n /\ r[j] = s[old(j)] /\ old(j) # i
  BY <1>2, <1>3, <1>4
<1>12. \A j, k \in 1..(n - 1) : old(j) = old(k) => j = k
  BY <1>2, <1>3
<1>13. \A k \in 1..n : k # i => \E j \in 1..(n - 1) : old(j) = k
  <2> SUFFICES ASSUME NEW k \in 1..n, k # i PROVE \E j \in 1..(n - 1) : old(j) = k
    OBVIOUS
  <2>1. CASE k < i
    BY <1>2, <1>3, <2>1
  <2>2. CASE k > i
    <3>1. k - 1 \in 1..(n - 1) /\ old(k - 1) = k
      BY <1>2, <1>3, <2>2
    <3> QED BY <3>1
  <2> QED BY <1>2, <1>3, <2>1, <2>2
<1> HIDE DEF old
<1>14. \A j, k \in 1..Len(r) : r[j] = r[k] => j = k
  BY <1>4, <1>10, <1>11, <1>12
<1>15. IsMutex(w)
  BY <1>7, <1>8, <1>9, <1>14 DEF IsMutex
<1>16. ASSUME NEW u \in Callers PROVE IsReader(u, w) <=> IsReader(u, m) /\ u # t
  <2>1. IsReader(u, w) <=> \E j \in 1..(n - 1) : r[j] = u
    BY <1>4, <1>8 DEF IsReader
  <2>2. IsReader(u, m) <=> \E j \in 1..n : s[j] = u
    BY DEF IsReader, s, n
  <2>3. ASSUME NEW j \in 1..(n - 1), r[j] = u PROVE IsReader(u, m) /\ u # t
    BY <1>3, <1>10, <1>11, <2>2, <2>3
  <2>4. ASSUME NEW k \in 1..n, s[k] = u, u # t PROVE \E j \in 1..(n - 1) : r[j] = u
    BY <1>3, <1>11, <1>13, <2>4
  <2> QED BY <2>1, <2>2, <2>3, <2>4
<1> QED BY <1>5, <1>8, <1>9, <1>15, <1>16

LEMMA WriterIsGone ==
    ASSUME NEW m, IsMutex(m), m.exclusive # NoOne
    PROVE  /\ IsMutex(WithoutWriter(m)) /\ WithoutWriter(m).exclusive = NoOne
           /\ \A u \in Callers : ~IsReader(u, WithoutWriter(m)) /\ ~IsReader(u, m)
<1>1. PICK w : w = WithoutWriter(m)
  OBVIOUS
<1>2. w \in Mutexes /\ w.exclusive = NoOne /\ w.shared = m.shared /\ w.barrier = FALSE
  BY <1>1 DEF WithoutWriter, IsMutex, Mutexes
<1>3. m.shared = <<>> /\ Len(m.shared) = 0
  BY EmptySeq DEF IsMutex
<1>4. IsMutex(w) /\ \A u \in Callers : ~IsReader(u, w) /\ ~IsReader(u, m)
  BY <1>2, <1>3 DEF IsMutex, IsReader
<1> QED BY <1>1, <1>2, <1>4

\* The locks are exact after a step of one thread, if they are exact for it, and
\* the others have what they had.
LEMMA ExactAfter ==
    ASSUME LocksAreExact, NEW t \in Callers, OthersStay(t), UNCHANGED ChannelFeature,
           DOMAIN mutex_of' = Addresses,
           \A l \in Addresses :
               /\ IsMutex(mutex_of'[l])
               /\ mutex_of'[l].exclusive = t <=> Owns(t, l)'
               /\ IsReader(t, mutex_of'[l]) <=> Shares(t, l)'
               /\ \A u \in Callers \ {t} : /\ mutex_of'[l].exclusive = u <=> mutex_of[l].exclusive = u
                                           /\ IsReader(u, mutex_of'[l]) <=> IsReader(u, mutex_of[l]),
           ~At(t, "handle_open")' /\ ~At(t, "handled_in_open")'
    PROVE  LocksAreExact'
<1>1. ASSUME NEW u \in Callers \ {t}
      PROVE  /\ \A l \in Addresses : (Owns(u, l)' <=> Owns(u, l)) /\ (Shares(u, l)' <=> Shares(u, l))
             /\ ~At(u, "handle_open")' /\ ~At(u, "handled_in_open")'
  <2>1. frames'[u] = frames[u]
    BY DEF OthersStay
  <2>2. \A p : At(u, p)' <=> At(u, p)
    BY <2>1 DEF At, Top
  <2>3. Top(u)' = Top(u)
    BY <2>1 DEF Top
  <2>4. First(Top(u))' = First(Top(u))
    BY <2>3 DEF First
  <2> QED BY <2>2, <2>3, <2>4 DEF LocksAreExact, Owns, Shares
<1>2. ASSUME NEW u \in Callers, NEW l \in Addresses
      PROVE  /\ mutex_of'[l].exclusive = u <=> Owns(u, l)'
             /\ IsReader(u, mutex_of'[l]) <=> Shares(u, l)'
  <2>1. CASE u = t
    BY <2>1
  <2>2. CASE u # t
    BY <1>1, <2>2 DEF LocksAreExact
  <2> QED BY <2>1, <2>2
<1>3. \A u \in Callers : ~At(u, "handle_open")' /\ ~At(u, "handled_in_open")'
  BY <1>1
<1> QED BY <1>2, <1>3 DEF LocksAreExact

\* The five things a step does to the mutexes.
LEMMA ExactUnchanged ==
    ASSUME LocksAreExact, NEW t \in Callers, OthersStay(t), UNCHANGED <<ChannelFeature, mutex_of>>,
           \A l \in Addresses : (Owns(t, l)' <=> Owns(t, l)) /\ (Shares(t, l)' <=> Shares(t, l)),
           ~At(t, "handle_open")' /\ ~At(t, "handled_in_open")'
    PROVE  LocksAreExact'
<1>1. \A l \in Addresses, u \in Callers : IsReader(u, mutex_of'[l]) <=> IsReader(u, mutex_of[l])
  OBVIOUS
<1>2. \A l \in Addresses : IsMutex(mutex_of'[l])
  BY DEF LocksAreExact
<1>3. ASSUME NEW l \in Addresses
      PROVE  /\ mutex_of'[l].exclusive = t <=> Owns(t, l)'
             /\ IsReader(t, mutex_of'[l]) <=> Shares(t, l)'
  BY DEF LocksAreExact
<1>4. DOMAIN mutex_of' = Addresses
  BY DEF LocksAreExact
<1> QED BY <1>1, <1>2, <1>3, <1>4, ExactAfter

\* A mutex of the step is replaced.
LEMMA ExactReplaced ==
    ASSUME LocksAreExact, NEW t \in Callers, OthersStay(t), UNCHANGED ChannelFeature,
           NEW l \in Addresses, NEW m, IsMutex(m), mutex_of' = [mutex_of EXCEPT ![l] = m],
           \A u \in Callers \ {t} : /\ m.exclusive = u <=> mutex_of[l].exclusive = u
                                    /\ IsReader(u, m) <=> IsReader(u, mutex_of[l]),
           m.exclusive = t <=> Owns(t, l)',
           IsReader(t, m) <=> Shares(t, l)',
           \A k \in Addresses \ {l} : (Owns(t, k)' <=> Owns(t, k)) /\ (Shares(t, k)' <=> Shares(t, k)),
           ~At(t, "handle_open")' /\ ~At(t, "handled_in_open")'
    PROVE  LocksAreExact'
<1>1. /\ DOMAIN mutex_of' = Addresses /\ mutex_of'[l] = m
      /\ \A k \in Addresses \ {l} : mutex_of'[k] = mutex_of[k]
  BY DEF LocksAreExact
<1>2. ASSUME NEW k \in Addresses
      PROVE  /\ IsMutex(mutex_of'[k])
             /\ mutex_of'[k].exclusive = t <=> Owns(t, k)'
             /\ IsReader(t, mutex_of'[k]) <=> Shares(t, k)'
             /\ \A u \in Callers \ {t} : /\ mutex_of'[k].exclusive = u <=> mutex_of[k].exclusive = u
                                         /\ IsReader(u, mutex_of'[k]) <=> IsReader(u, mutex_of[k])
  <2>1. CASE k = l
    BY <1>1, <2>1
  <2>2. CASE k # l
    BY <1>1, <2>2 DEF LocksAreExact
  <2> QED BY <2>1, <2>2
<1> QED BY <1>1, <1>2, ExactAfter

LEMMA TopIsReplaced ==
    ASSUME LGTypes, NEW t \in Callers, frames[t] # <<>>, NEW g,
           frames' = [frames EXCEPT ![t] = [frames[t] EXCEPT ![Len(frames[t])] = g]]
    PROVE  OthersStay(t) /\ frames'[t] # <<>> /\ Top(t)' = g
<1> DEFINE n == Len(frames[t])
           S == Statements \cup OtherCalls
           R == S \cup {g}
<1>1. n \in Nat /\ n >= 1
  BY InnermostIsCall
<1>2. frames[t] \in Seq(S) /\ DOMAIN frames = Callers
  BY DEF LGTypes, IsStack
<1> HIDE DEF S
<1>3. OthersStay(t) /\ frames'[t] = [frames[t] EXCEPT ![n] = g]
  BY <1>2 DEF OthersStay
<1>4. frames[t] \in Seq(R) /\ g \in R
  BY <1>2
<1> HIDE DEF R
<1>5. frames'[t] \in Seq(R) /\ Len(frames'[t]) = n /\ frames'[t][n] = g
  BY <1>1, <1>3, <1>4
<1> QED BY <1>1, <1>3, <1>5, EmptySeq DEF Top

LEMMA TopGoesOn ==
    ASSUME LGTypes, NEW t \in Callers, frames[t] # <<>>, NEW p, GoOn(t, p)
    PROVE  /\ OthersStay(t) /\ frames'[t] # <<>> /\ Top(t)' = [Top(t) EXCEPT !.at = p]
           /\ At(t, p)' /\ \A q : q # p => ~At(t, q)'
<1> DEFINE S == Statements \cup OtherCalls
<1>1. PICK g : g = [Top(t) EXCEPT !.at = p]
  OBVIOUS
<1>2. OthersStay(t) /\ frames'[t] # <<>> /\ Top(t)' = g
  BY <1>1, GoOnIs, TopIsReplaced
<1>3. g.at = p
  <2>1. Top(t) \in S
    BY InnermostIsCall
  <2>2. CASE Top(t) \in Statements \cup ChannelCalls \cup RemoveCalls
    BY <1>1, <2>2 DEF Statements, ChannelCalls, RemoveCalls
  <2>3. CASE Top(t) \in SetCalls \cup Copies \cup Assignments \cup Swaps
    BY <1>1, <2>3 DEF SetCalls, Copies, Assignments, Swaps
  <2> QED BY <2>1, <2>2, <2>3 DEF OtherCalls
<1> QED BY <1>1, <1>2, <1>3 DEF At

LEMMA TopIsEntered ==
    ASSUME LGTypes, NEW t \in Callers, NEW g, frames' = [frames EXCEPT ![t] = Append(@, g)]
    PROVE  OthersStay(t) /\ frames'[t] # <<>> /\ Top(t)' = g
<1> DEFINE S == Statements \cup OtherCalls
           R == S \cup {g}
<1>1. frames[t] \in Seq(S) /\ DOMAIN frames = Callers
  BY DEF LGTypes, IsStack
<1> HIDE DEF S
<1>2. frames[t] \in Seq(R) /\ g \in R
  BY <1>1
<1> HIDE DEF R
<1>3. OthersStay(t) /\ frames'[t] = Append(frames[t], g)
  BY <1>1 DEF OthersStay
<1>4. /\ frames'[t] \in Seq(R) /\ Len(frames'[t]) = Len(frames[t]) + 1 /\ frames'[t][Len(frames[t]) + 1] = g
      /\ Len(frames[t]) \in Nat
  BY <1>2, <1>3, AppendProperties
<1> QED BY <1>3, <1>4, EmptySeq DEF Top

\* A thread that stands in a message, or in no call, has locked nothing.
HasNothing(t) == \A l \in Addresses : ~Owns(t, l) /\ ~Shares(t, l)

LEMMA QuietPlaces ==
    ASSUME NEW t \in Callers,
           frames[t] = <<>> \/ Top(t).at \in {"open", "message", "handle_push", "lock", "copy", "get", "lock_first"}
    PROVE  HasNothing(t) /\ ~At(t, "handle_open") /\ ~At(t, "handled_in_open")
BY DEF HasNothing, Owns, Shares, At

LEMMA EnterExact ==
    ASSUME LGTypes, LocksAreExact, NEW t \in Callers, NEW g, Enter(t, g),
           frames[t] = <<>> \/ At(t, "message"), g.at \in {"open", "lock", "copy", "get", "lock_first"}
    PROVE  LocksAreExact'
<1>1. OthersStay(t) /\ Top(t)' = g /\ UNCHANGED <<ChannelFeature, mutex_of>>
  BY TopIsEntered DEF Enter, cells
<1>2. HasNothing(t)
  BY QuietPlaces DEF At
<1>3. HasNothing(t)' /\ ~At(t, "handle_open")' /\ ~At(t, "handled_in_open")'
  BY <1>1 DEF HasNothing, Owns, Shares, At
<1> QED BY <1>1, <1>2, <1>3, ExactUnchanged DEF HasNothing

\* A step that asks for a logger for itself gets it, or raises the barrier.
LEMMA AskedExact ==
    ASSUME LocksAreExact, NEW t \in Callers, NEW l \in Addresses, exclusive_lock(t, l),
           UNCHANGED ChannelFeature, ~Owns(t, l), ~Shares(t, l),
           ~Locked(t, l) => UNCHANGED frames,
           Locked(t, l) => /\ OthersStay(t)
                           /\ ~At(t, "handle_open")' /\ ~At(t, "handled_in_open")'
                           /\ \A k \in Addresses : /\ Owns(t, k)' <=> Owns(t, k) \/ k = l
                                                   /\ Shares(t, k)' <=> Shares(t, k),
           DOMAIN frames = Callers
    PROVE  LocksAreExact'
<1> DEFINE m == mutex_of[l]
<1>1. IsMutex(m) /\ DOMAIN mutex_of = Addresses /\ NoOne \notin Callers
  BY LoggerAssumptions DEF LocksAreExact
<1>2. CASE CanLock(l)
  <2>1. PICK w : w = [m EXCEPT !.exclusive = t]
    OBVIOUS
  <2>2. mutex_of' = [mutex_of EXCEPT ![l] = w] /\ m.exclusive = NoOne /\ m.shared = <<>>
    BY <1>2, <2>1 DEF exclusive_lock, CanLock
  <2>3. IsMutex(w) /\ w.exclusive = t /\ \A u \in Callers : ~IsReader(u, w) /\ ~IsReader(u, m)
    BY <1>1, <2>1, <2>2, MutexIsTaken
  <2>4. mutex_of'[l] = w
    BY <1>1, <2>2
  <2>5. Locked(t, l)
    BY <2>3, <2>4 DEF Locked
  <2>6. \A u \in Callers \ {t} : (w.exclusive = u <=> m.exclusive = u) /\ (IsReader(u, w) <=> IsReader(u, m))
    BY <1>1, <2>2, <2>3
  <2>7. w.exclusive = t /\ Owns(t, l)' /\ ~IsReader(t, w) /\ ~Shares(t, l)'
    BY <2>3, <2>5
  <2> QED BY <2>2, <2>3, <2>5, <2>6, <2>7, ExactReplaced
<1>3. CASE ~CanLock(l)
  <2>1. PICK w : w = [m EXCEPT !.barrier = TRUE]
    OBVIOUS
  <2>2. mutex_of' = [mutex_of EXCEPT ![l] = w] /\ (m.exclusive # NoOne \/ m.shared # <<>>)
    BY <1>3, <2>1 DEF exclusive_lock, CanLock
  <2>3. IsMutex(w) /\ w.exclusive = m.exclusive /\ \A u \in Callers : IsReader(u, w) <=> IsReader(u, m)
    BY <1>1, <2>1, <2>2, BarrierIsRaised
  <2>4. mutex_of'[l] = w
    BY <1>1, <2>2
  <2>5. m.exclusive # t /\ ~IsReader(t, m)
    BY DEF LocksAreExact
  <2>6. UNCHANGED frames
    BY <2>3, <2>4, <2>5 DEF Locked
  <2>7. OthersStay(t) /\ \A k \in Addresses : (Owns(t, k)' <=> Owns(t, k)) /\ (Shares(t, k)' <=> Shares(t, k))
    BY <2>6 DEF OthersStay, Owns, Shares, At, Top, First
  <2>8. ~At(t, "handle_open")' /\ ~At(t, "handled_in_open")'
    BY <2>6 DEF LocksAreExact, At, Top
  <2> QED BY <2>2, <2>3, <2>5, <2>7, <2>8, ExactReplaced
<1> QED BY <1>2, <1>3

LEMMA AskedToReadExact ==
    ASSUME LocksAreExact, NEW t \in Callers, NEW l \in Addresses, lock_shared(t, l),
           UNCHANGED ChannelFeature, HasNothing(t), OthersStay(t),
           ~At(t, "handle_open")' /\ ~At(t, "handled_in_open")',
           \A k \in Addresses : ~Owns(t, k)' /\ (Shares(t, k)' <=> k = l)
    PROVE  LocksAreExact'
<1> DEFINE m == mutex_of[l]
<1>1. IsMutex(m) /\ DOMAIN mutex_of = Addresses /\ NoOne \notin Callers
  BY LoggerAssumptions DEF LocksAreExact
<1>2. m.exclusive = NoOne /\ ~m.barrier /\ ~IsReader(t, m)
  BY DEF lock_shared, CanShare, LocksAreExact, HasNothing
<1>3. PICK w : w = [m EXCEPT !.shared = Append(m.shared, t)]
  OBVIOUS
<1>4. mutex_of' = [mutex_of EXCEPT ![l] = w]
  BY <1>3 DEF lock_shared
<1>5. IsMutex(w) /\ w.exclusive = NoOne /\ \A u \in Callers : IsReader(u, w) <=> IsReader(u, m) \/ u = t
  BY <1>1, <1>2, <1>3, ReaderJoins
<1>6. \A u \in Callers \ {t} : (w.exclusive = u <=> m.exclusive = u) /\ (IsReader(u, w) <=> IsReader(u, m))
  BY <1>2, <1>5
<1>7. (w.exclusive = t <=> Owns(t, l)') /\ (IsReader(t, w) <=> Shares(t, l)')
  BY <1>1, <1>5
<1>8. \A k \in Addresses \ {l} : (Owns(t, k)' <=> Owns(t, k)) /\ (Shares(t, k)' <=> Shares(t, k))
  BY DEF HasNothing
<1> QED BY <1>4, <1>5, <1>6, <1>7, <1>8, ExactReplaced

LEMMA ReleasedExact ==
    ASSUME LocksAreExact, NEW t \in Callers, NEW l \in Addresses, release_lock(t, l),
           UNCHANGED ChannelFeature, OthersStay(t), HasNothing(t)',
           ~At(t, "handle_open")' /\ ~At(t, "handled_in_open")',
           Owns(t, l) \/ Shares(t, l),
           \A k \in Addresses \ {l} : ~Owns(t, k) /\ ~Shares(t, k)
    PROVE  LocksAreExact'
<1> DEFINE m == mutex_of[l]
<1>1. IsMutex(m) /\ NoOne \notin Callers /\ (m.exclusive = t <=> Owns(t, l)) /\ (IsReader(t, m) <=> Shares(t, l))
  BY LoggerAssumptions DEF LocksAreExact
<1>2. PICK w : w = Unlocked(t, l)
  OBVIOUS
<1>3. mutex_of' = [mutex_of EXCEPT ![l] = w]
  BY <1>2 DEF release_lock
<1>4. /\ IsMutex(w) /\ w.exclusive = NoOne /\ ~IsReader(t, w)
      /\ \A u \in Callers \ {t} : m.exclusive # u /\ (IsReader(u, w) <=> IsReader(u, m))
  <2>1. CASE m.exclusive = t
    <3>1. w = WithoutWriter(m)
      BY <1>2, <2>1 DEF Unlocked
    <3> QED BY <1>1, <2>1, <3>1, WriterIsGone
  <2>2. CASE m.exclusive # t
    <3>1. w = WithoutReader(m, t) /\ IsReader(t, m)
      BY <1>1, <1>2, <2>2 DEF Unlocked
    <3> QED BY <1>1, <3>1, ReaderIsGone
  <2> QED BY <2>1, <2>2
<1>5. (w.exclusive = t <=> Owns(t, l)') /\ (IsReader(t, w) <=> Shares(t, l)')
  BY <1>1, <1>4 DEF HasNothing
<1>6. \A k \in Addresses \ {l} : (Owns(t, k)' <=> Owns(t, k)) /\ (Shares(t, k)' <=> Shares(t, k))
  BY DEF HasNothing
<1>7. \A u \in Callers \ {t} : (w.exclusive = u <=> m.exclusive = u) /\ (IsReader(u, w) <=> IsReader(u, m))
  BY <1>1, <1>4
<1> QED BY <1>3, <1>4, <1>5, <1>6, <1>7, ExactReplaced

LEMMA LogExact == ASSUME LGInv, LocksAreExact, NEW t \in Callers, log(t) PROVE LocksAreExact'
<1>1. PICK l \in Addresses, a \in Arguments :
         /\ frames[t] = <<>> \/ (At(t, "message") /\ Len(frames[t]) < MaxNesting)
         /\ Enter(t, [at |-> "open", l |-> l, severity |-> a.severity,
                      channel |-> IF ChannelFeature THEN a.channel ELSE NoOne,
                      read |-> NoOne, alone |-> FALSE, nested |-> FALSE])
  BY DEF log
<1>2. PICK g : g = [at |-> "open", l |-> l, severity |-> a.severity,
                    channel |-> IF ChannelFeature THEN a.channel ELSE NoOne,
                    read |-> NoOne, alone |-> FALSE, nested |-> FALSE]
  OBVIOUS
<1>3. g.at = "open" /\ Enter(t, g)
  BY <1>1, <1>2
<1> QED BY <1>1, <1>3, EnterExact DEF LGInv

LEMMA ChangeExact == ASSUME LGInv, LocksAreExact, NEW t \in Callers, ChangeLogger(t) PROVE LocksAreExact'
<1>1. frames[t] = <<>> /\ LGTypes
  BY DEF ChangeLogger, LGInv
<1>2. ASSUME NEW g, Enter(t, g), g.at \in {"lock", "copy", "get", "lock_first"} PROVE LocksAreExact'
  BY <1>1, <1>2, EnterExact
<1>3. PICK l \in Addresses :
       \/ \E ch \in Channels : ChannelFeature /\ Enter(t, [at |-> "lock", op |-> "channel", l |-> l, channel |-> ch])
       \/ Enter(t, [at |-> "lock", op |-> "remove_all_attributes", l |-> l])
       \/ \E k \in Addresses \ {l} :
             \/ Enter(t, [at |-> "copy", op |-> "assign", l |-> l, from |-> k, cell |-> NoOne, set |-> NoOne])
             \/ Enter(t, [at |-> "get", op |-> "set_attributes", l |-> l, from |-> k, set |-> NoOne])
             \/ Enter(t, [at |-> "lock_first", op |-> "swap", l |-> l, from |-> k])
  BY DEF ChangeLogger
<1>4. ASSUME NEW ch, Enter(t, [at |-> "lock", op |-> "channel", l |-> l, channel |-> ch]) PROVE LocksAreExact'
  BY <1>2, <1>4
<1>5. ASSUME Enter(t, [at |-> "lock", op |-> "remove_all_attributes", l |-> l]) PROVE LocksAreExact'
  BY <1>2, <1>5
<1>6. ASSUME NEW k, Enter(t, [at |-> "copy", op |-> "assign", l |-> l, from |-> k, cell |-> NoOne, set |-> NoOne])
      PROVE  LocksAreExact'
  BY <1>2, <1>6
<1>7. ASSUME NEW k, Enter(t, [at |-> "get", op |-> "set_attributes", l |-> l, from |-> k, set |-> NoOne])
      PROVE  LocksAreExact'
  BY <1>2, <1>7
<1>8. ASSUME NEW k, Enter(t, [at |-> "lock_first", op |-> "swap", l |-> l, from |-> k]) PROVE LocksAreExact'
  BY <1>2, <1>8
<1> QED BY <1>3, <1>4, <1>5, <1>6, <1>7, <1>8

LEMMA OpenLockExact == ASSUME LGInv, LocksAreExact, NEW t \in Callers, open_record_lock(t) PROVE LocksAreExact'
<1> DEFINE F == Top(t)
<1>1. /\ LGTypes /\ frames[t] # <<>> /\ F.at = "open" /\ F \in Statements /\ F.l \in Addresses
      /\ UNCHANGED ChannelFeature /\ DOMAIN frames = Callers
  BY StandingAt DEF open_record_lock, LogPlaces, cells, LGTypes
<1>2. HasNothing(t)
  BY <1>1, QuietPlaces
<1>3. ASSUME GoOn(t, "set")
      PROVE  /\ OthersStay(t) /\ ~At(t, "handle_open")' /\ ~At(t, "handled_in_open")'
             /\ \A k \in Addresses : /\ Owns(t, k)' <=> ChannelFeature /\ k = F.l
                                     /\ Shares(t, k)' <=> ~ChannelFeature /\ k = F.l
  <2>1. /\ OthersStay(t) /\ frames'[t] # <<>> /\ Top(t)' = [F EXCEPT !.at = "set"]
        /\ At(t, "set")' /\ \A q : q # "set" => ~At(t, q)'
    BY <1>1, <1>3, TopGoesOn
  <2>2. Top(t)'.l = F.l
    BY <1>1, <2>1 DEF Statements
  <2> QED BY <1>1, <2>1, <2>2 DEF Owns, Shares
<1>4. CASE ChannelFeature
  <2>1. /\ exclusive_lock(t, F.l)
        /\ ~Locked(t, F.l) => UNCHANGED frames
        /\ Locked(t, F.l) => GoOn(t, "set")
    BY <1>4 DEF open_record_lock
  <2> QED BY <1>1, <1>2, <1>3, <1>4, <2>1, AskedExact DEF HasNothing
<1>5. CASE ~ChannelFeature
  <2>1. lock_shared(t, F.l) /\ GoOn(t, "set")
    BY <1>5 DEF open_record_lock
  <2> QED BY <1>1, <1>2, <1>3, <1>5, <2>1, AskedToReadExact
<1> QED BY <1>4, <1>5

LEMMA OpenExact == ASSUME LGInv, LocksAreExact, NEW t \in Callers, open_record_unlocked(t) PROVE LocksAreExact'
<1> DEFINE F == Top(t)
           n == Len(frames[t])
           S == Statements \cup OtherCalls
           deep(i) == [frames[t][i] EXCEPT !.nested = TRUE]
           g == [F EXCEPT !.at = "core", !.alone = Alone(F.l)]
<1>1. /\ LGTypes /\ frames[t] # <<>> /\ F.at = "set" /\ F \in Statements /\ At(t, "set")
      /\ UNCHANGED <<ChannelFeature, mutex_of>> /\ DOMAIN frames = Callers /\ Opening(t)
  BY StandingAt DEF open_record_unlocked, LogPlaces, LGTypes
<1>2. n \in Nat /\ n >= 1 /\ frames[t] \in Seq(S)
  BY <1>1, InnermostIsCall DEF LGTypes, IsStack
<1>3. DOMAIN frames[t] = 1..n
  BY <1>2
<1> HIDE DEF S
<1>4. frames'[t] = [i \in 1..n |-> IF i < n THEN deep(i) ELSE [frames[t][i] EXCEPT !.at = "core", !.alone = Alone(F.l)]]
  BY <1>1, <1>3 DEF Opening
<1>5. OthersStay(t)
  BY <1>1 DEF Opening, OthersStay
<1> DEFINE R == {frames'[t][i] : i \in 1..n}
<1>6. frames'[t] \in [1..n -> R]
  BY <1>4
<1>7. frames'[t] \in Seq(R) /\ Len(frames'[t]) = n
  <2> HIDE DEF R
  <2> QED BY <1>2, <1>6
<1>8. n \in 1..n /\ frames'[t] # <<>>
  BY <1>2, <1>7, EmptySeq
<1>9. Top(t)' = g
  <2>1. ~(n < n) /\ Top(t) = frames[t][n]
    BY <1>2 DEF Top
  <2>2. frames'[t][n] = [frames[t][n] EXCEPT !.at = "core", !.alone = Alone(F.l)]
    BY <1>4, <1>8, <2>1
  <2>3. Top(t)' = frames'[t][n]
    BY <1>7 DEF Top
  <2> QED BY <2>1, <2>2, <2>3
<1>10. g.at = "core" /\ g.l = F.l
  BY <1>1 DEF Statements
<1>11. At(t, "core")' /\ (\A q : q # "core" => ~At(t, q)') /\ Top(t)'.l = F.l
  BY <1>8, <1>9, <1>10 DEF At
<1>12. \A q : q # "set" => ~At(t, q)
  BY <1>1 DEF At
<1>13. \A k \in Addresses : (Owns(t, k)' <=> Owns(t, k)) /\ (Shares(t, k)' <=> Shares(t, k))
  BY <1>1, <1>11, <1>12 DEF Owns, Shares
<1> QED BY <1>1, <1>5, <1>11, <1>13, ExactUnchanged

\* A call is left with nothing locked.
LEMMA LeftWithNothing ==
    ASSUME LGInv, NEW t \in Callers, frames[t] # <<>>, UNCHANGED ChannelFeature, LeaveCall(t)
    PROVE  OthersStay(t) /\ HasNothing(t)' /\ ~At(t, "handle_open")' /\ ~At(t, "handled_in_open")'
<1>1. OthersStay(t) /\ (frames'[t] # <<>> => Top(t)'.at = "message")
  BY CallIsLeft DEF LGInv
<1> QED BY <1>1 DEF HasNothing, Owns, Shares, At

LEMMA CoreExact ==
    ASSUME LGInv, LocksAreExact, NEW t \in Callers, OpenInCore(t), ~threw' PROVE LocksAreExact'
<1> DEFINE F == Top(t)
           n == Len(frames[t])
           cell == m_Attributes[F.l]
           value == IF cell = NoOne THEN NoOne ELSE m_Value[cell]
<1>1. /\ LGTypes /\ frames[t] # <<>> /\ F.at = "core" /\ F \in Statements /\ F.l \in Addresses /\ At(t, "core")
      /\ UNCHANGED ChannelFeature
  BY StandingAt DEF OpenInCore, LogPlaces, cells
<1>2. /\ release_lock(t, F.l)
      /\ \/ frames' = [frames EXCEPT ![t][n].at = "message", ![t][n].read = value]
         \/ LeaveCall(t)
  BY DEF OpenInCore
<1>3. OthersStay(t) /\ HasNothing(t)' /\ ~At(t, "handle_open")' /\ ~At(t, "handled_in_open")'
  <2>1. CASE LeaveCall(t)
    BY <1>1, <2>1, LeftWithNothing
  <2>2. CASE frames' = [frames EXCEPT ![t][n].at = "message", ![t][n].read = value]
    <3>1. PICK v : v = value
      OBVIOUS
    <3>2. PICK g : g = [F EXCEPT !.at = "message", !.read = v]
      OBVIOUS
    <3>3. frames' = [frames EXCEPT ![t] = [frames[t] EXCEPT ![n] = g]]
      BY <2>2, <3>1, <3>2 DEF Top
    <3>4. OthersStay(t) /\ frames'[t] # <<>> /\ Top(t)' = g
      BY <1>1, <3>3, TopIsReplaced
    <3>5. g.at = "message"
      BY <1>1, <3>2 DEF Statements
    <3> QED BY <3>4, <3>5 DEF HasNothing, Owns, Shares, At
  <2> QED BY <1>2, <2>1, <2>2
<1>4. Owns(t, F.l) \/ Shares(t, F.l)
  BY <1>1 DEF Owns, Shares
<1>5. \A k \in Addresses \ {F.l} : ~Owns(t, k) /\ ~Shares(t, k)
  BY <1>1 DEF Owns, Shares, At
<1> QED BY <1>1, <1>2, <1>3, <1>4, <1>5, ReleasedExact

LEMMA PushExact == ASSUME LGInv, LocksAreExact, NEW t \in Callers, pump_record(t) PROVE LocksAreExact'
<1>1. LGTypes /\ frames[t] # <<>> /\ Top(t).at = "message" /\ UNCHANGED <<ChannelFeature, mutex_of>>
  BY StandingAt DEF pump_record, cells
<1>2. HasNothing(t)
  BY <1>1, QuietPlaces
<1>3. OthersStay(t) /\ HasNothing(t)' /\ ~At(t, "handle_open")' /\ ~At(t, "handled_in_open")'
  <2>1. CASE LeaveCall(t)
    BY <1>1, <2>1, LeftWithNothing
  <2>2. CASE GoOn(t, "handle_push")
    <3>1. OthersStay(t) /\ At(t, "handle_push")' /\ \A q : q # "handle_push" => ~At(t, q)'
      BY <1>1, <2>2, TopGoesOn
    <3> QED BY <3>1 DEF HasNothing, Owns, Shares
  <2> QED BY <2>1, <2>2 DEF pump_record
<1> QED BY <1>1, <1>2, <1>3, ExactUnchanged DEF HasNothing

LEMMA HandlerExact == ASSUME LGInv, LocksAreExact, NEW t \in Callers, handle_exception(t) PROVE LocksAreExact'
<1> DEFINE F == Top(t)
<1>1. /\ LGTypes /\ frames[t] # <<>> /\ F.at = "handle_push" /\ F \in Statements /\ F.l \in Addresses
      /\ UNCHANGED ChannelFeature
  <2>1. At(t, "handle_push") /\ UNCHANGED ChannelFeature
    BY DEF handle_exception, LocksAreExact, cells
  <2> QED BY <2>1, StandingAt DEF LogPlaces
<1>2. lock_shared(t, F.l) /\ GoOn(t, "handled_in_push")
  BY <1>1 DEF handle_exception
<1>3. HasNothing(t)
  BY <1>1, QuietPlaces
<1>4. /\ OthersStay(t) /\ Top(t)' = [F EXCEPT !.at = "handled_in_push"]
      /\ At(t, "handled_in_push")' /\ \A q : q # "handled_in_push" => ~At(t, q)'
  BY <1>1, <1>2, TopGoesOn
<1>5. Top(t)'.l = F.l
  BY <1>1, <1>4 DEF Statements
<1>6. \A k \in Addresses : ~Owns(t, k)' /\ (Shares(t, k)' <=> k = F.l)
  BY <1>4, <1>5 DEF Owns, Shares
<1> QED BY <1>1, <1>2, <1>3, <1>4, <1>6, AskedToReadExact

LEMMA HandledExact == ASSUME LGInv, LocksAreExact, NEW t \in Callers, Handled(t) PROVE LocksAreExact'
<1> DEFINE F == Top(t)
<1>1. At(t, "handled_in_push") /\ UNCHANGED ChannelFeature /\ LeaveCall(t)
  BY DEF Handled, LocksAreExact, cells
<1>2. LGTypes /\ frames[t] # <<>> /\ F.at = "handled_in_push" /\ F.l \in Addresses
  BY <1>1, StandingAt DEF LogPlaces
<1>3. Shares(t, F.l) /\ \A k \in Addresses \ {F.l} : ~Owns(t, k) /\ ~Shares(t, k)
  BY <1>1, <1>2 DEF Owns, Shares, At
<1>4. ~Owns(t, F.l)
  BY <1>1, <1>2 DEF Owns, At
<1>5. release_lock(t, F.l)
  <2>1. mutex_of' = [mutex_of EXCEPT ![F.l] = WithoutReader(mutex_of[F.l], t)]
    BY <1>2 DEF Handled, At
  <2>2. mutex_of[F.l].exclusive # t
    BY <1>2, <1>4 DEF LocksAreExact
  <2> QED BY <2>1, <2>2 DEF release_lock, Unlocked
<1> QED BY <1>1, <1>2, <1>3, <1>5, LeftWithNothing, ReleasedExact

\* A thread takes the shared lock of the logger it reads, and releases it.
LEMMA ReadExact ==
    ASSUME LGInv, LocksAreExact, NEW t \in Callers, frames[t] # <<>>, Top(t).at \in {"get", "copy"},
           Top(t) \in SetCalls \cup Copies, UNCHANGED ChannelFeature,
           NEW p \in {"got", "copied"}, lock_shared(t, Top(t).from), GoOn(t, p)
    PROVE  LocksAreExact'
<1> DEFINE F == Top(t)
<1>1. LGTypes /\ F.from \in Addresses
  BY DEF LGInv, SetCalls, Copies
<1>2. HasNothing(t)
  BY QuietPlaces
<1>3. OthersStay(t) /\ Top(t)' = [F EXCEPT !.at = p] /\ At(t, p)' /\ \A q : q # p => ~At(t, q)'
  BY <1>1, TopGoesOn
<1>4. Top(t)'.from = F.from
  BY <1>3 DEF SetCalls, Copies
<1>5. \A k \in Addresses : ~Owns(t, k)' /\ (Shares(t, k)' <=> k = F.from)
  BY <1>3, <1>4 DEF Owns, Shares
<1> QED BY <1>1, <1>2, <1>3, <1>5, AskedToReadExact

LEMMA ReadDoneExact ==
    ASSUME LGInv, LocksAreExact, NEW t \in Callers, frames[t] # <<>>, Top(t).at \in {"got", "copied"},
           Top(t).from \in Addresses, UNCHANGED ChannelFeature, release_lock(t, Top(t).from),
           NEW g, g.at = "lock", frames' = [frames EXCEPT ![t] = [frames[t] EXCEPT ![Len(frames[t])] = g]]
    PROVE  LocksAreExact'
<1>1. OthersStay(t) /\ frames'[t] # <<>> /\ Top(t)' = g
  BY TopIsReplaced DEF LGInv
<1>2. HasNothing(t)' /\ ~At(t, "handle_open")' /\ ~At(t, "handled_in_open")'
  BY <1>1 DEF HasNothing, Owns, Shares, At
<1>3. Shares(t, Top(t).from) /\ \A k \in Addresses \ {Top(t).from} : ~Owns(t, k) /\ ~Shares(t, k)
  BY DEF Owns, Shares, At
<1> QED BY <1>1, <1>2, <1>3, ReleasedExact

LEMMA GetAttributesExact == ASSUME LGInv, LocksAreExact, NEW t \in Callers, GetAttributes(t) PROVE LocksAreExact'
<1>1. LGTypes /\ frames[t] # <<>> /\ Top(t).at = "get" /\ UNCHANGED ChannelFeature
  BY StandingAt DEF GetAttributes, cells
<1>2. Top(t) \in SetCalls
  BY <1>1, KindByPlace
<1> QED BY <1>1, <1>2, ReadExact DEF GetAttributes

LEMMA CopyLoggerExact == ASSUME LGInv, LocksAreExact, NEW t \in Callers, CopyLogger(t) PROVE LocksAreExact'
<1>1. LGTypes /\ frames[t] # <<>> /\ Top(t).at = "copy" /\ UNCHANGED ChannelFeature
  BY StandingAt DEF CopyLogger, cells
<1>2. Top(t) \in Copies
  BY <1>1, KindByPlace
<1> QED BY <1>1, <1>2, ReadExact DEF CopyLogger

LEMMA GotExact == ASSUME LGInv, LocksAreExact, NEW t \in Callers, Got(t) PROVE LocksAreExact'
<1> DEFINE F == Top(t)
<1>1. LGTypes /\ frames[t] # <<>> /\ F.at = "got" /\ UNCHANGED ChannelFeature
  BY StandingAt DEF Got, cells
<1>2. F \in SetCalls /\ F.from \in Addresses
  BY <1>1, KindByPlace DEF SetCalls
<1>3. Len(frames[t]) = 1
  BY <1>1, <1>2, InnermostIsCall DEF OtherCalls
<1>4. PICK v : v = m_Attributes[F.from]
  OBVIOUS
<1>5. PICK g : g = [F EXCEPT !.at = "lock", !.set = v]
  OBVIOUS
<1>6. g.at = "lock"
  BY <1>2, <1>5 DEF SetCalls
<1>7. frames' = [frames EXCEPT ![t] = [frames[t] EXCEPT ![Len(frames[t])] = g]]
  BY <1>3, <1>4, <1>5 DEF Got, Top
<1>8. release_lock(t, F.from)
  BY DEF Got
<1> QED BY <1>1, <1>2, <1>6, <1>7, <1>8, ReadDoneExact

LEMMA CopiedExact == ASSUME LGInv, LocksAreExact, NEW t \in Callers, Copied(t) PROVE LocksAreExact'
<1> DEFINE F == Top(t)
           a == m_Attributes[F.from]
<1>1. LGTypes /\ frames[t] # <<>> /\ F.at = "copied" /\ UNCHANGED ChannelFeature
  BY StandingAt DEF Copied, cells
<1>2. F \in Copies /\ F.from \in Addresses
  BY <1>1, KindByPlace DEF Copies
<1>3. Len(frames[t]) = 1
  BY <1>1, <1>2, InnermostIsCall DEF OtherCalls
<1>4. PICK c : c = m_ChannelAttr[F.from]
  OBVIOUS
<1>5. PICK s : s = IF a = NoOne THEN c ELSE a
  OBVIOUS
<1>6. PICK g : g = [F EXCEPT !.at = "lock", !.cell = c, !.set = s]
  OBVIOUS
<1>7. g.at = "lock"
  BY <1>2, <1>6 DEF Copies
<1>8. frames' = [frames EXCEPT ![t] = [frames[t] EXCEPT ![Len(frames[t])] = g]]
  BY ZenonT(60), <1>3, <1>4, <1>5, <1>6 DEF Copied, Top
<1>9. release_lock(t, F.from)
  BY DEF Copied
<1> QED BY <1>1, <1>2, <1>7, <1>8, <1>9, ReadDoneExact

LEMMA LockToChangeExact == ASSUME LGInv, LocksAreExact, NEW t \in Callers, LockToChange(t) PROVE LocksAreExact'
<1> DEFINE F == Top(t)
<1>1. /\ LGTypes /\ frames[t] # <<>> /\ F.at = "lock" /\ UNCHANGED ChannelFeature /\ DOMAIN frames = Callers
      /\ exclusive_lock(t, F.l)
      /\ ~Locked(t, F.l) => UNCHANGED frames
      /\ Locked(t, F.l) => GoOn(t, "change")
  BY StandingAt DEF LockToChange, cells, LGTypes
<1>2. F \in ChannelCalls \cup RemoveCalls \cup SetCalls \cup Assignments
  BY <1>1, KindByPlace
<1>3. F.l \in Addresses
  BY <1>2 DEF ChannelCalls, RemoveCalls, SetCalls, Assignments
<1>4. HasNothing(t)
  BY <1>1, QuietPlaces
<1>5. ASSUME GoOn(t, "change")
      PROVE  /\ OthersStay(t) /\ ~At(t, "handle_open")' /\ ~At(t, "handled_in_open")'
             /\ \A k \in Addresses : (Owns(t, k)' <=> k = F.l) /\ ~Shares(t, k)'
  <2>1. /\ OthersStay(t) /\ Top(t)' = [F EXCEPT !.at = "change"]
        /\ At(t, "change")' /\ \A q : q # "change" => ~At(t, q)'
    BY <1>1, <1>5, TopGoesOn
  <2>2. Top(t)'.l = F.l
    BY <1>2, <2>1 DEF ChannelCalls, RemoveCalls, SetCalls, Assignments
  <2> QED BY <2>1, <2>2 DEF Owns, Shares
<1> QED BY <1>1, <1>3, <1>4, <1>5, AskedExact DEF HasNothing

LEMMA ApplyExact == ASSUME LGInv, LocksAreExact, NEW t \in Callers, Apply(t) PROVE LocksAreExact'
<1> DEFINE F == Top(t)
<1>1. LGTypes /\ frames[t] # <<>> /\ F.at = "change" /\ UNCHANGED ChannelFeature /\ release_lock(t, F.l) /\ LeaveCall(t)
  BY StandingAt DEF Apply
<1>2. F.l \in Addresses
  BY <1>1, KindByPlace DEF ChannelCalls, RemoveCalls, SetCalls, Assignments
<1>3. Owns(t, F.l) /\ \A k \in Addresses \ {F.l} : ~Owns(t, k) /\ ~Shares(t, k)
  BY <1>1 DEF Owns, Shares, At
<1> QED BY <1>1, <1>2, <1>3, LeftWithNothing, ReleasedExact

LEMMA LockBothExact == ASSUME LGInv, LocksAreExact, NEW t \in Callers, LockBoth(t) PROVE LocksAreExact'
<1> DEFINE F == Top(t)
           a == First(F)
           b == Second(F)
           m == IF At(t, "lock_first") THEN a ELSE b
           p == IF m = a THEN "lock_second" ELSE "swap"
<1>1. /\ LGTypes /\ frames[t] # <<>> /\ F.at \in {"lock_first", "lock_second"}
      /\ UNCHANGED ChannelFeature /\ DOMAIN frames = Callers
      /\ exclusive_lock(t, m)
      /\ ~Locked(t, m) => UNCHANGED frames
      /\ Locked(t, m) => GoOn(t, p)
  BY StandingAt DEF LockBoth, cells, LGTypes
<1>2. F \in Swaps /\ F.l # F.from /\ F.l \in Addresses /\ F.from \in Addresses
  BY <1>1, KindByPlace DEF Swaps
<1>3. a # b /\ {a, b} = {F.l, F.from} /\ m \in Addresses
  BY <1>2 DEF First, Second
<1>4. ASSUME NEW q, GoOn(t, q)
      PROVE  /\ OthersStay(t) /\ At(t, q)' /\ \A r : r # q => ~At(t, r)'
             /\ First(Top(t))' = a /\ {Top(t)'.l, Top(t)'.from} = {a, b}
  <2>1. OthersStay(t) /\ Top(t)' = [F EXCEPT !.at = q] /\ At(t, q)' /\ \A r : r # q => ~At(t, r)'
    BY <1>1, <1>4, TopGoesOn
  <2>2. Top(t)'.l = F.l /\ Top(t)'.from = F.from
    BY <1>2, <2>1 DEF Swaps
  <2>3. First(Top(t))' = a
    BY <2>2 DEF First
  <2> QED BY <1>3, <2>1, <2>2, <2>3
<1> HIDE DEF a, b
<1>5. CASE F.at = "lock_first"
  <2>1. HasNothing(t) /\ m = a /\ p = "lock_second"
    BY <1>1, <1>5, QuietPlaces DEF At
  <2>2. ASSUME GoOn(t, "lock_second")
        PROVE  /\ OthersStay(t) /\ ~At(t, "handle_open")' /\ ~At(t, "handled_in_open")'
               /\ \A k \in Addresses : (Owns(t, k)' <=> k = a) /\ ~Shares(t, k)'
    BY <1>4, <2>2 DEF Owns, Shares
  <2> QED BY <1>1, <1>3, <2>1, <2>2, AskedExact DEF HasNothing
<1>6. CASE F.at = "lock_second"
  <2>1. /\ m = b /\ p = "swap"
        /\ \A k \in Addresses : (Owns(t, k) <=> k = a) /\ ~Shares(t, k)
    BY <1>1, <1>3, <1>6 DEF At, Owns, Shares, a
  <2>2. ASSUME GoOn(t, "swap")
        PROVE  /\ OthersStay(t) /\ ~At(t, "handle_open")' /\ ~At(t, "handled_in_open")'
               /\ \A k \in Addresses : (Owns(t, k)' <=> k = a \/ k = b) /\ ~Shares(t, k)'
    <3>1. \A k : k \in {Top(t)'.l, Top(t)'.from} <=> k = a \/ k = b
      BY <1>4, <2>2
    <3> QED BY <1>4, <2>2, <3>1 DEF Owns, Shares
  <2> QED BY <1>1, <1>3, <2>1, <2>2, AskedExact
<1> QED BY <1>1, <1>5, <1>6

LEMMA SwapExact == ASSUME LGInv, LocksAreExact, NEW t \in Callers, swap(t) PROVE LocksAreExact'
<1> DEFINE F == Top(t)
           l == F.l
           k == F.from
<1>1. /\ LGTypes /\ frames[t] # <<>> /\ F.at = "swap" /\ UNCHANGED ChannelFeature /\ LeaveCall(t)
      /\ mutex_of' = [mutex_of EXCEPT ![l] = WithoutWriter(@), ![k] = WithoutWriter(@)]
  BY StandingAt DEF swap
<1>2. l # k /\ l \in Addresses /\ k \in Addresses
  BY <1>1, KindByPlace DEF Swaps
<1>3. OthersStay(t) /\ HasNothing(t)' /\ ~At(t, "handle_open")' /\ ~At(t, "handled_in_open")'
  BY <1>1, LeftWithNothing
<1>4. \A j \in Addresses : (Owns(t, j) <=> j = l \/ j = k) /\ ~Shares(t, j)
  BY <1>1 DEF Owns, Shares, At
<1>5. /\ DOMAIN mutex_of = Addresses /\ NoOne \notin Callers /\ \A j \in Addresses : IsMutex(mutex_of[j])
      /\ \A j \in {l, k} : mutex_of[j].exclusive = t
  BY <1>2, <1>4, LoggerAssumptions DEF LocksAreExact
<1>6. /\ DOMAIN mutex_of' = Addresses
      /\ \A j \in {l, k} : mutex_of'[j] = WithoutWriter(mutex_of[j])
      /\ \A j \in Addresses \ {l, k} : mutex_of'[j] = mutex_of[j]
  BY <1>1, <1>2, <1>5
<1>7. ASSUME NEW j \in Addresses
      PROVE  /\ IsMutex(mutex_of'[j])
             /\ mutex_of'[j].exclusive = t <=> Owns(t, j)'
             /\ IsReader(t, mutex_of'[j]) <=> Shares(t, j)'
             /\ \A u \in Callers \ {t} : /\ mutex_of'[j].exclusive = u <=> mutex_of[j].exclusive = u
                                         /\ IsReader(u, mutex_of'[j]) <=> IsReader(u, mutex_of[j])
  <2>1. ~Owns(t, j)' /\ ~Shares(t, j)'
    BY <1>3 DEF HasNothing
  <2>2. CASE j \in {l, k}
    <3>1. PICK m : m = mutex_of[j]
      OBVIOUS
    <3>2. IsMutex(m) /\ m.exclusive = t /\ m.exclusive # NoOne /\ mutex_of'[j] = WithoutWriter(m)
      BY <1>5, <1>6, <2>2, <3>1
    <3>3. /\ IsMutex(WithoutWriter(m)) /\ WithoutWriter(m).exclusive = NoOne
          /\ \A u \in Callers : ~IsReader(u, WithoutWriter(m)) /\ ~IsReader(u, m)
      BY <3>2, WriterIsGone
    <3> QED BY <1>5, <2>1, <3>1, <3>2, <3>3
  <2>3. CASE j \notin {l, k}
    <3>1. mutex_of'[j] = mutex_of[j]
      BY <1>6, <2>3
    <3>2. mutex_of[j].exclusive # t /\ ~IsReader(t, mutex_of[j])
      BY <1>4, <2>3 DEF LocksAreExact
    <3> QED BY <1>5, <2>1, <3>1, <3>2
  <2> QED BY <2>2, <2>3
<1> QED BY <1>1, <1>3, <1>6, <1>7, ExactAfter

LEMMA WaitInvInit == LGInit => WaitInv
<1> SUFFICES ASSUME NEW feature \in ChannelFeatures, LGStart(feature) PROVE LocksAreExact
  BY LGInvInit DEF LGInit, WaitInv
<1> DEFINE m == [exclusive |-> NoOne, shared |-> <<>>, barrier |-> FALSE]
<1>1. m \in Mutexes /\ Len(m.shared) = 0 /\ NoOne \notin Callers
  BY EmptySeq, LoggerAssumptions DEF Mutexes
<1>2. IsMutex(m) /\ m.exclusive = NoOne /\ \A t \in Callers : ~IsReader(t, m)
  BY <1>1 DEF IsMutex, IsReader
<1>3. DOMAIN mutex_of = Addresses /\ \A l \in Addresses : mutex_of[l] = m
  BY DEF LGStart
<1>4. \A t \in Callers : \A p : ~At(t, p)
  BY DEF LGStart, At
<1> HIDE DEF m
<1> QED BY <1>1, <1>2, <1>3, <1>4 DEF LocksAreExact, Owns, Shares

LEMMA WaitInvStep == WaitInv /\ [LGNext]_lgVars => WaitInv'
<1> SUFFICES ASSUME WaitInv, [LGNext]_lgVars PROVE WaitInv'
  OBVIOUS
<1>1. LGInv /\ LGInv'
  BY LGInvStep DEF WaitInv
<1>2. ASSUME ~threw' PROVE LocksAreExact'
  <2>1. CASE UNCHANGED lgVars
    BY <1>2, <2>1 DEF WaitInv, lgVars, LocksAreExact, Owns, Shares, IsReader, IsMutex, At, Top, First
  <2>2. ASSUME NEW t \in Callers, log(t) \/ ChangeLogger(t) \/ LGStep(t) PROVE LocksAreExact'
    <3>1. ~threw
      BY <1>2, <2>2 DEF log, ChangeLogger, Enter, LGStep, open_record_lock, open_record_unlocked, OpenInCore, pump_record,
         handle_exception, Handled, GetAttributes, Got, CopyLogger, Copied, LockToChange, Apply, LockBoth, swap
    <3>2. LocksAreExact
      BY <3>1 DEF WaitInv
    <3> QED BY <1>1, <1>2, <2>2, <3>2, LogExact, ChangeExact, OpenLockExact, OpenExact, CoreExact, PushExact,
               HandlerExact, HandledExact, GetAttributesExact, GotExact, CopyLoggerExact, CopiedExact,
               LockToChangeExact, ApplyExact, LockBothExact, SwapExact DEF LGStep
  <2> QED BY <2>1, <2>2 DEF LGNext
<1> QED BY <1>1, <1>2 DEF WaitInv

\* Who sleeps, sleeps over a logger that a thread in a call has locked.
LEMMA SleepsOverOwner ==
    ASSUME LGInv, LocksAreExact, NEW t \in Callers, NEW l \in Addresses,
           \/ AsksFor(t, l) /\ ~CanLock(l) /\ mutex_of[l].barrier
           \/ AsksToRead(t, l) /\ ~CanShare(l)
    PROVE  \E u \in Callers : Owns(u, l) \/ Shares(u, l)
<1> DEFINE m == mutex_of[l]
<1>1. IsMutex(m) /\ m \in Mutexes
  BY DEF LocksAreExact, IsMutex
<1>2. m.exclusive # NoOne \/ m.shared # <<>>
  BY <1>1 DEF CanLock, CanShare, IsMutex
<1>3. CASE m.exclusive # NoOne
  BY <1>1, <1>3 DEF LocksAreExact, Mutexes
<1>4. CASE m.shared # <<>>
  <2>1. m.shared \in Seq(Callers)
    BY <1>1 DEF Mutexes
  <2>2. Len(m.shared) \in Nat /\ Len(m.shared) # 0
    BY <1>4, <2>1, EmptySeq
  <2>3. 1 \in 1..Len(m.shared)
    BY <2>2
  <2>4. m.shared[1] \in Callers
    BY <2>1, <2>3
  <2>5. IsReader(m.shared[1], m)
    BY <2>3 DEF IsReader
  <2> QED BY <2>4, <2>5 DEF LocksAreExact
<1> QED BY <1>2, <1>3, <1>4

\* Who has locked a logger and sleeps, sleeps over one with a higher address.
LEMMA OwnersSleepHigher ==
    ASSUME LGInv, LocksAreExact, NEW u \in Callers, NEW l \in Addresses, Owns(u, l) \/ Shares(u, l), Sleeps(u)
    PROVE  \E k \in Addresses : l < k /\ \E v \in Callers : Owns(v, k) \/ Shares(v, k)
<1>1. PICK k \in Addresses : \/ AsksFor(u, k) /\ ~CanLock(k) /\ mutex_of[k].barrier
                             \/ AsksToRead(u, k) /\ ~CanShare(k)
  BY DEF Sleeps
<1>2. \E v \in Callers : Owns(v, k) \/ Shares(v, k)
  BY <1>1, SleepsOverOwner
<1>3. At(u, "lock_second") /\ First(Top(u)) = l /\ Second(Top(u)) = k
  BY <1>1 DEF Owns, Shares, AsksFor, AsksToRead, At
<1>4. Top(u) \in Swaps /\ Top(u).l # Top(u).from
  BY <1>3, KindByPlace DEF LGInv, At
<1>5. l < k
  BY <1>3, <1>4, AddressAssumption DEF First, Second, Swaps
<1> QED BY <1>2, <1>5

LEMMA SomeoneIsAwake == WaitInv => CallersNeverDeadlock
<1> SUFFICES ASSUME LGInv, LocksAreExact, NEW t \in Callers, frames[t] # <<>>,
                    \A u \in Callers : frames[u] # <<>> => Sleeps(u)
             PROVE  FALSE
  BY DEF WaitInv, CallersNeverDeadlock
<1> DEFINE Taken(l) == l \in Addresses /\ \E u \in Callers : Owns(u, l) \/ Shares(u, l)
<1>1. PICK highest \in Addresses : \A l \in Addresses : l <= highest
  BY AddressAssumption
<1>2. Addresses \subseteq Nat
  BY AddressAssumption
<1>3. PICK first : Taken(first)
  BY SleepsOverOwner DEF Sleeps
<1>4. ASSUME NEW l, Taken(l) PROVE \E k : Taken(k) /\ l < k
  <2>1. PICK u \in Callers : Owns(u, l) \/ Shares(u, l)
    BY <1>4
  <2>2. frames[u] # <<>>
    BY <2>1 DEF Owns, Shares, At
  <2> QED BY <1>4, <2>1, <2>2, OwnersSleepHigher
<1> DEFINE P(d) == \E l : Taken(l) /\ d = highest - l
<1>5. \A l : Taken(l) => highest - l \in Nat
  BY <1>1, <1>2
<1>6. \A d \in Nat : P(d) => \E e \in 0..(d - 1) : P(e)
  <2> SUFFICES ASSUME NEW d \in Nat, NEW l, Taken(l), d = highest - l PROVE \E e \in 0..(d - 1) : P(e)
    OBVIOUS
  <2>1. PICK k : Taken(k) /\ l < k
    BY <1>4
  <2>2. l \in Nat /\ k \in Nat /\ highest \in Nat /\ highest - k \in Nat
    BY <1>2, <1>5, <2>1
  <2>3. highest - k \in 0..(d - 1)
    BY <2>1, <2>2
  <2> QED BY <2>1, <2>3
<1>7. P(highest - first)
  BY <1>3
<1> HIDE DEF P, Taken
<1>8. PICK d \in {e \in Nat : P(e)} : \A e \in {c \in Nat : P(c)} : d <= e
  <2>1. {e \in Nat : P(e)} \subseteq Nat /\ {e \in Nat : P(e)} # {}
    BY <1>3, <1>5, <1>7
  <2> QED BY <2>1, LeastElement
<1> QED BY <1>6, <1>8

\* Threads in calls of loggers never wait for one another for ever, as long as
\* open_record of the core does not throw: whatever loggers they log through,
\* copy, assign and swap, in whatever order, and however statements nest.
THEOREM CallersAreNeverDeadlocked == LGSpec => []CallersNeverDeadlock
<1> QED BY WaitInvInit, WaitInvStep, SomeoneIsAwake, PTL DEF LGSpec
===============================================================================
