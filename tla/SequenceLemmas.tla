---------------------------- MODULE SequenceLemmas ----------------------------
(***************************************************************************)
(* What the proofs need to know of sequences: their members after Append   *)
(* and Tail, a front element set apart from the rest, one element removed, *)
(* and how to argue forwards from the first place where two sequences      *)
(* differ or backwards from the last element.                              *)
(***************************************************************************)
EXTENDS Integers, SequencesExt, SequenceTheorems, WellFoundedInduction, TLAPS

\* Appending a record to a queue adds exactly that record to its members.
LEMMA RangeOfAppend ==
    ASSUME NEW S, NEW s \in Seq(S), NEW e \in S
    PROVE  Range(Append(s, e)) = Range(s) \cup {e}
<1>1. /\ DOMAIN s = 1..Len(s)
      /\ DOMAIN Append(s, e) = 1..(Len(s) + 1)
      /\ Len(s) \in Nat
      /\ \A i \in 1..Len(s) : Append(s, e)[i] = s[i]
      /\ Append(s, e)[Len(s) + 1] = e
  OBVIOUS
<1>2. ASSUME NEW x \in Range(Append(s, e))
      PROVE  x \in Range(s) \cup {e}
  BY <1>1 DEF Range
<1>3. ASSUME NEW x \in Range(s)
      PROVE  x \in Range(Append(s, e))
  BY <1>1 DEF Range
<1>4. e \in Range(Append(s, e))
  BY <1>1 DEF Range
<1> QED BY <1>2, <1>3, <1>4

\* Popping the front of a queue leaves only members it had before.
LEMMA RangeOfTail ==
    ASSUME NEW S, NEW s \in Seq(S), s # <<>>
    PROVE  /\ Head(s) \in Range(s)
           /\ Range(Tail(s)) \subseteq Range(s)
           /\ Range(s) = Range(Tail(s)) \cup {Head(s)}
<1>1. /\ Len(s) \in Nat \ {0}
      /\ DOMAIN s = 1..Len(s)
      /\ Tail(s) \in Seq(S)
      /\ Head(s) = s[1]
      /\ Len(Tail(s)) = Len(s) - 1
      /\ \A i \in 1..(Len(s) - 1) : Tail(s)[i] = s[i + 1]
  BY EmptySeq, HeadTailProperties
<1>2. DOMAIN Tail(s) = 1..(Len(s) - 1)
  BY <1>1
<1>3. Head(s) \in Range(s)
  BY <1>1 DEF Range
<1>4. ASSUME NEW x \in Range(Tail(s))
      PROVE  x \in Range(s)
  BY <1>1, <1>2 DEF Range
<1>5. ASSUME NEW x \in Range(s), x # Head(s)
      PROVE  x \in Range(Tail(s))
  <2>1. PICK i \in 1..Len(s) : x = s[i]
    BY <1>1 DEF Range
  <2>2. i - 1 \in 1..(Len(s) - 1) /\ Tail(s)[i - 1] = x
    BY <2>1, <1>1, <1>5
  <2> QED BY <2>2, <1>2 DEF Range
<1> QED BY <1>3, <1>4, <1>5

\* A queue is its front followed by the rest.
LEMMA FrontAndRest ==
    ASSUME NEW S, NEW s \in Seq(S), s # <<>>
    PROVE  <<Head(s)>> \o Tail(s) = s
<1>1. /\ Len(s) \in Nat \ {0}
      /\ Tail(s) \in Seq(S)
      /\ Head(s) = s[1]
      /\ Len(Tail(s)) = Len(s) - 1
      /\ \A i \in 1..(Len(s) - 1) : Tail(s)[i] = s[i + 1]
  BY EmptySeq, HeadTailProperties
<1>2. <<Head(s)>> \in Seq(S) /\ Len(<<Head(s)>>) = 1 /\ <<Head(s)>>[1] = s[1]
  BY <1>1
<1> DEFINE c == <<Head(s)>> \o Tail(s)
<1>3. c \in Seq(S) /\ Len(c) = Len(s)
  BY <1>1, <1>2, ConcatProperties
<1>4. ASSUME NEW i \in 1..Len(s)
      PROVE  c[i] = s[i]
  <2>1. CASE i = 1
    BY <1>1, <1>2, <2>1, ConcatProperties
  <2>2. CASE i > 1
    <3>1. c[i] = Tail(s)[i - 1]
      BY <1>1, <1>2, <2>2, ConcatProperties
    <3>2. i - 1 \in 1..(Len(s) - 1) /\ (i - 1) + 1 = i
      BY <1>1, <2>2
    <3> QED BY <1>1, <3>1, <3>2
  <2> QED BY <1>1, <2>1, <2>2
<1> QED BY <1>3, <1>4, SeqEqual

\* With one element put in front of a queue, that element is the head, the
\* queue is the tail, and appending to the queue appends to the whole.
LEMMA ElementInFront ==
    ASSUME NEW S, NEW s \in Seq(S), NEW e \in S, NEW a \in S
    PROVE  /\ <<e>> \o s # <<>>
           /\ Head(<<e>> \o s) = e
           /\ Tail(<<e>> \o s) = s
           /\ <<e>> \o Append(s, a) = Append(<<e>> \o s, a)
           /\ Range(<<e>> \o s) = Range(s) \cup {e}
<1> DEFINE c == <<e>> \o s
<1>1. <<e>> \in Seq(S) /\ Len(<<e>>) = 1 /\ <<e>>[1] = e /\ Len(s) \in Nat
  OBVIOUS
<1>2. /\ c \in Seq(S)
      /\ Len(c) = 1 + Len(s)
      /\ c[1] = e
      /\ \A i \in 1..Len(s) : i + 1 \in 1..(1 + Len(s)) /\ c[i + 1] = s[i]
  BY <1>1, ConcatProperties
<1>3. c # <<>> /\ Head(c) = e
  BY <1>1, <1>2, EmptySeq
<1>4. Tail(c) = s
  <2>1. /\ Tail(c) \in Seq(S) /\ Len(Tail(c)) = Len(s)
        /\ \A i \in 1..Len(s) : Tail(c)[i] = c[i + 1]
    BY <1>1, <1>2, <1>3, HeadTailProperties
  <2> QED BY <1>2, <2>1, SeqEqual
<1>5. <<e>> \o Append(s, a) = Append(c, a)
  <2>1. /\ Append(s, a) = s \o <<a>>
        /\ Append(c, a) = c \o <<a>>
        /\ <<a>> \in Seq(S)
    BY <1>2, AppendIsConcat
  <2> QED BY <1>1, <2>1, ConcatAssociative
<1>6. Range(c) = Range(s) \cup {e}
  BY <1>2, <1>3, <1>4, RangeOfTail
<1> QED BY <1>3, <1>4, <1>5, <1>6

\* Every set of natural numbers but the empty one has a least element: no
\* number is the last of an infinite descent.
LEMMA LeastElement ==
    ASSUME NEW T, T \subseteq Nat, T # {}
    PROVE  \E x \in T : \A y \in T : x <= y
<1>1. PICK x \in T : \A y \in T : ~(<<y, x>> \in OpToRel(<, Nat))
  BY NatLessThanWellFounded, WFMin, Zenon
<1>2. OpToRel(<, Nat) = {ss \in Nat \X Nat : ss[1] < ss[2]}
  BY Zenon DEF OpToRel
<1>3. ASSUME NEW y \in T
      PROVE  x <= y
  <2>1. <<y, x>> \notin {ss \in Nat \X Nat : ss[1] < ss[2]}
    BY <1>1, <1>2
  <2>2. x \in Nat /\ y \in Nat
    OBVIOUS
  <2> QED BY <2>1, <2>2
<1> QED BY <1>3

\* Two functions that agree at n, and at i whenever they agree at i + 1, agree
\* from n downwards.
AgreeFrom(f, g, n) ==
    f[n] = g[n] /\ \A i \in 1..(n - 1) : f[i + 1] = g[i + 1] => f[i] = g[i]
LEMMA AgreeDownwards ==
    ASSUME NEW f, NEW g, NEW n \in Nat \ {0}, AgreeFrom(f, g, n)
    PROVE  \A i \in 1..n : f[i] = g[i]
<1> USE DEF AgreeFrom
<1> DEFINE Off == {k \in 0..(n - 1) : f[n - k] # g[n - k]}
<1>1. Off \subseteq Nat
  OBVIOUS
<1>2. CASE Off # {}
  <2>1. PICK k \in Off : \A j \in Off : k <= j
    <3> HIDE DEF Off
    <3> QED BY <1>1, <1>2, LeastElement
  <2>2. k # 0 /\ k \in 1..(n - 1) /\ k - 1 \notin Off
    BY <2>1
  <2>3. f[n - (k - 1)] = g[n - (k - 1)]
    BY <2>2
  <2>4. n - (k - 1) = (n - k) + 1 /\ n - k \in 1..(n - 1)
    BY <2>2
  <2>5. f[n - k] = g[n - k]
    BY <2>3, <2>4
  <2> QED BY <2>1, <2>5
<1>3. CASE Off = {}
  <2>1. ASSUME NEW i \in 1..n
        PROVE  f[i] = g[i]
    <3>1. n - i \in 0..(n - 1) /\ n - (n - i) = i
      OBVIOUS
    <3> QED BY <1>3, <3>1
  <2> QED BY <2>1
<1> QED BY <1>2, <1>3

\* A sequence without its element at one position: the rest closes up.
LEMMA RemoveAtProperties ==
    ASSUME NEW S, NEW s \in Seq(S), NEW i \in 1..Len(s)
    PROVE  /\ RemoveAt(s, i) \in Seq(S)
           /\ Len(RemoveAt(s, i)) = Len(s) - 1
           /\ \A j \in 1..(i - 1) : RemoveAt(s, i)[j] = s[j]
           /\ \A j \in i..(Len(s) - 1) : RemoveAt(s, i)[j] = s[j + 1]
<1> DEFINE n == Len(s)
           left == SubSeq(s, 1, i - 1)
           right == SubSeq(s, i + 1, n)
<1>1. n \in Nat /\ i \in 1..n /\ \A j \in 1..n : s[j] \in S
  OBVIOUS
<1>2. left \in Seq(S) /\ Len(left) = i - 1 /\ \A j \in 1..(i - 1) : left[j] = s[j]
  <2>1. i - 1 + 1 = i /\ i - 1 \in Int /\ 1 \in Int /\ i - 1 >= 0
    BY <1>1
  <2> QED BY <1>1, <2>1
<1>3. right \in Seq(S) /\ Len(right) = n - i /\ \A j \in 1..(n - i) : right[j] = s[i + j]
  BY <1>1
<1> HIDE DEF left, right, n
<1>4. /\ left \o right \in Seq(S)
      /\ Len(left \o right) = n - 1
      /\ \A j \in 1..(n - 1) : (left \o right)[j] = IF j <= i - 1 THEN left[j] ELSE right[j - (i - 1)]
  <2>1. /\ left \o right \in Seq(S)
        /\ Len(left \o right) = Len(left) + Len(right)
        /\ \A j \in 1..(Len(left) + Len(right)) :
              (left \o right)[j] = IF j <= Len(left) THEN left[j] ELSE right[j - Len(left)]
    BY <1>2, <1>3, ConcatProperties
  <2>2. Len(left) + Len(right) = n - 1
    BY <1>1, <1>2, <1>3
  <2> QED BY <1>2, <2>1, <2>2
<1>5. RemoveAt(s, i) = left \o right
  BY DEF RemoveAt, left, right, n
<1>6. ASSUME NEW j \in i..(n - 1) PROVE (left \o right)[j] = s[j + 1]
  <2>1. j - (i - 1) \in 1..(n - i) /\ i + (j - (i - 1)) = j + 1 /\ j \in 1..(n - 1) /\ ~(j <= i - 1)
    BY <1>1
  <2> QED BY <1>3, <1>4, <2>1
<1>7. ASSUME NEW j \in 1..(i - 1) PROVE (left \o right)[j] = s[j]
  <2>1. j \in 1..(n - 1) /\ j <= i - 1
    BY <1>1
  <2> QED BY <1>2, <1>4, <2>1
<1> QED BY <1>4, <1>5, <1>6, <1>7 DEF n

\* From a sequence in which nothing occurs twice that element is gone, and
\* nothing else.
LEMMA RemoveAtRemoves ==
    ASSUME NEW S, NEW s \in Seq(S), NEW i \in 1..Len(s),
           \A j, k \in 1..Len(s) : s[j] = s[k] => j = k
    PROVE  /\ \A j, k \in 1..Len(RemoveAt(s, i)) : RemoveAt(s, i)[j] = RemoveAt(s, i)[k] => j = k
           /\ Range(RemoveAt(s, i)) = Range(s) \ {s[i]}
<1> DEFINE n == Len(s)
           t == RemoveAt(s, i)
           from(j) == IF j < i THEN j ELSE j + 1
<1>1. n \in Nat /\ i \in 1..n /\ DOMAIN s = 1..n /\ Len(t) = n - 1 /\ DOMAIN t = 1..(n - 1)
  BY RemoveAtProperties
<1>2. ASSUME NEW j \in 1..(n - 1) PROVE from(j) \in 1..n /\ from(j) # i /\ t[j] = s[from(j)]
  <2>1. CASE j \in 1..(i - 1)
    <3>1. t[j] = s[j]
      BY <1>1, <2>1, RemoveAtProperties
    <3> QED BY <1>1, <2>1, <3>1
  <2>2. CASE j \in i..(n - 1)
    <3>1. t[j] = s[j + 1]
      BY <1>1, <2>2, RemoveAtProperties
    <3> QED BY <1>1, <2>2, <3>1
  <2> QED BY <1>1, <2>1, <2>2
<1>3. ASSUME NEW j \in 1..(n - 1), NEW k \in 1..(n - 1), from(j) = from(k) PROVE j = k
  BY <1>1, <1>3
<1>4. ASSUME NEW k \in 1..n, k # i PROVE \E j \in 1..(n - 1) : from(j) = k
  <2>1. CASE k < i
    BY <1>1, <2>1
  <2>2. CASE k > i
    <3>1. k - 1 \in 1..(n - 1) /\ from(k - 1) = k
      BY <1>1, <2>2
    <3> QED BY <3>1
  <2> QED BY <1>1, <1>4, <2>1, <2>2
<1> HIDE DEF from, t, n
<1>5. ASSUME NEW j \in 1..(n - 1), NEW k \in 1..(n - 1), t[j] = t[k] PROVE j = k
  BY <1>2, <1>3, <1>5 DEF n
<1>6. ASSUME NEW x \in Range(t) PROVE x \in Range(s) \ {s[i]}
  BY <1>1, <1>2 DEF Range, n
<1>7. ASSUME NEW x \in Range(s) \ {s[i]} PROVE x \in Range(t)
  <2>1. PICK k \in 1..n : x = s[k]
    BY <1>1, <1>7 DEF Range
  <2>2. PICK j \in 1..(n - 1) : from(j) = k
    BY <1>4, <1>7, <2>1
  <2> QED BY <1>1, <1>2, <2>1, <2>2 DEF Range
<1> QED BY <1>1, <1>5, <1>6, <1>7 DEF t, n

\* A function on the first numbers is a sequence.
LEMMA FunctionIsSeq ==
    ASSUME NEW S, NEW n \in Nat, NEW f \in [1..n -> S]
    PROVE  f \in Seq(S) /\ Len(f) = n
OBVIOUS

\* And with an element more at one position: the rest moves on.
LEMMA InsertAtProperties ==
    ASSUME NEW S, NEW s \in Seq(S), NEW i \in 1..(Len(s) + 1), NEW e \in S
    PROVE  /\ InsertAt(s, i, e) \in Seq(S)
           /\ Len(InsertAt(s, i, e)) = Len(s) + 1
           /\ InsertAt(s, i, e)[i] = e
           /\ \A j \in 1..(i - 1) : InsertAt(s, i, e)[j] = s[j]
           /\ \A j \in (i + 1)..(Len(s) + 1) : InsertAt(s, i, e)[j] = s[j - 1]
<1> DEFINE n == Len(s)
           left == SubSeq(s, 1, i - 1)
           right == SubSeq(s, i, n)
           both == left \o <<e>>
<1>1. n \in Nat /\ i \in 1..(n + 1) /\ \A j \in 1..n : s[j] \in S
  OBVIOUS
<1>2. left \in Seq(S) /\ Len(left) = i - 1 /\ \A j \in 1..(i - 1) : left[j] = s[j]
  <2>1. i - 1 + 1 = i /\ i - 1 \in Int /\ 1 \in Int /\ i - 1 >= 0
    BY <1>1
  <2> QED BY <1>1, <2>1
<1>3. right \in Seq(S) /\ Len(right) = n + 1 - i /\ \A j \in 1..(n + 1 - i) : right[j] = s[i + j - 1]
  BY <1>1
<1> HIDE DEF left, right, n
<1>4. /\ both \in Seq(S) /\ Len(both) = i /\ both[i] = e
      /\ \A j \in 1..(i - 1) : both[j] = s[j]
  <2>1. both = Append(left, e)
    BY <1>2
  <2> HIDE DEF both
  <2>2. /\ both \in Seq(S) /\ Len(both) = Len(left) + 1 /\ both[Len(left) + 1] = e
        /\ \A j \in 1..Len(left) : both[j] = left[j]
    BY <1>2, <2>1, AppendProperties
  <2>3. Len(left) + 1 = i
    BY <1>1, <1>2
  <2> QED BY <1>2, <2>2, <2>3
<1> HIDE DEF both
<1>5. /\ both \o right \in Seq(S)
      /\ Len(both \o right) = n + 1
      /\ \A j \in 1..(n + 1) : (both \o right)[j] = IF j <= i THEN both[j] ELSE right[j - i]
  <2>1. /\ both \o right \in Seq(S)
        /\ Len(both \o right) = Len(both) + Len(right)
        /\ \A j \in 1..(Len(both) + Len(right)) :
              (both \o right)[j] = IF j <= Len(both) THEN both[j] ELSE right[j - Len(both)]
    BY <1>3, <1>4, ConcatProperties
  <2>2. Len(both) + Len(right) = n + 1
    BY <1>1, <1>3, <1>4
  <2> QED BY <1>4, <2>1, <2>2
<1>6. InsertAt(s, i, e) = both \o right
  BY DEF InsertAt, both, left, right, n
<1>7. ASSUME NEW j \in (i + 1)..(n + 1) PROVE (both \o right)[j] = s[j - 1]
  <2>1. j - i \in 1..(n + 1 - i) /\ i + (j - i) - 1 = j - 1 /\ j \in 1..(n + 1) /\ ~(j <= i)
    BY <1>1
  <2> QED BY <1>3, <1>5, <2>1
<1>8. ASSUME NEW j \in 1..i PROVE (both \o right)[j] = both[j]
  <2>1. j \in 1..(n + 1) /\ j <= i
    BY <1>1
  <2> QED BY <1>5, <2>1
<1>9. i \in 1..i /\ 1..(i - 1) \subseteq 1..i
  BY <1>1
<1> QED BY <1>4, <1>5, <1>6, <1>7, <1>8, <1>9 DEF n

\* A set of numbers up to n that is not empty has a greatest element.
LEMMA GreatestElement ==
    ASSUME NEW n \in Nat, NEW T, T \subseteq 0..n, T # {}
    PROVE  \E x \in T : \A y \in T : y <= x
<1> DEFINE U == {n - y : y \in T}
<1>1. U \subseteq Nat /\ U # {}
  <2>1. \A y \in T : y \in 0..n /\ n - y \in Nat
    OBVIOUS
  <2> QED BY <2>1
<1>2. PICK u \in U : \A v \in U : u <= v
  <2> HIDE DEF U
  <2> QED BY <1>1, LeastElement
<1>3. PICK x \in T : u = n - x
  OBVIOUS
<1>4. ASSUME NEW y \in T PROVE y <= x
  <2>1. n - x <= n - y /\ x \in 0..n /\ y \in 0..n
    BY <1>2, <1>3
  <2> QED BY <2>1
<1> QED BY <1>4

-------------------------------------------------------------------------------
(* A recursive function over 0..k whose values stay in a set exists, and   *)
(* two of them that go on alike are the same.                              *)

StaysIn(step, k, S) == \A i \in 1..k : \A x \in S : step[i][x] \in S
Iterates(f, k, S, a, step) == f \in [0..k -> S] /\ f[0] = a /\ \A i \in 1..k : f[i] = step[i][f[i - 1]]
Alike(f, g, k) == f[0] = g[0] /\ \A i \in 1..k : f[i - 1] = g[i - 1] => f[i] = g[i]

LEMMA IterationExists ==
    ASSUME NEW k \in Nat, NEW S, NEW a \in S, NEW step, StaysIn(step, k, S)
    PROVE  \E f : Iterates(f, k, S, a, step)
<1> DEFINE Steps(f, j) == f[0] = a /\ \A i \in 1..j : f[i] = step[i][f[i - 1]]
           Stuck == {j \in 0..k : ~ \E f \in [0..j -> S] : Steps(f, j)}
<1>1. Stuck \subseteq Nat /\ \A j \in 0..k : j \in Stuck <=> ~ \E f \in [0..j -> S] : Steps(f, j)
  OBVIOUS
<1>2. ASSUME Stuck # {} PROVE FALSE
  <2> HIDE DEF Stuck
  <2>1. PICK n \in Stuck : \A m \in Stuck : n <= m
    BY <1>1, <1>2, LeastElement
  <2>2. n \in 0..k /\ ~ \E f \in [0..n -> S] : Steps(f, n)
    BY <1>1 DEF Stuck
  <2>3. CASE n = 0
    <3>1. [i \in 0..0 |-> a] \in [0..0 -> S] /\ Steps([i \in 0..0 |-> a], 0)
      OBVIOUS
    <3> QED BY <2>2, <2>3, <3>1
  <2>4. CASE n # 0
    <3>1. n - 1 \in 0..k /\ ~(n <= n - 1)
      BY <2>2, <2>4
    <3>2. PICK g \in [0..n - 1 -> S] : Steps(g, n - 1)
      BY <1>1, <2>1, <3>1
    <3> DEFINE x == step[n][g[n - 1]]
               h == [i \in 0..n |-> IF i = n THEN x ELSE g[i]]
    <3>3. n \in 1..k /\ g[n - 1] \in S
      BY <2>2, <2>4
    <3>4. x \in S
      BY <3>3 DEF StaysIn
    <3> HIDE DEF x
    <3>5. h \in [0..n -> S]
      BY <2>2, <3>4
    <3>6. h[n] = x /\ h[0] = a /\ \A i \in 1..n - 1 : h[i] = g[i] /\ h[i - 1] = g[i - 1]
      BY <2>2, <2>4, <3>2
    <3>7. h[n - 1] = g[n - 1]
      BY <3>3
    <3>8. \A i \in 1..n : i = n \/ i \in 1..n - 1
      BY <2>2
    <3> HIDE DEF h
    <3>9. Steps(h, n)
      BY <3>2, <3>6, <3>7, <3>8 DEF x
    <3> QED BY <2>2, <3>5, <3>9
  <2> QED BY <2>3, <2>4
<1>3. PICK f \in [0..k -> S] : Steps(f, k)
  <2> HIDE DEF Stuck, Steps
  <2>1. k \in 0..k /\ k \notin Stuck
    BY <1>2
  <2> QED BY <1>1, <2>1
<1> QED BY <1>3 DEF Iterates

LEMMA InductionUpTo ==
    ASSUME NEW k \in Nat, NEW Good, 0 \in Good, \A i \in 1..k : i - 1 \in Good => i \in Good
    PROVE  \A i \in 0..k : i \in Good
<1> DEFINE Off == {i \in 0..k : i \notin Good}
<1> SUFFICES ASSUME Off # {} PROVE FALSE
  OBVIOUS
<1>1. Off \subseteq Nat
  OBVIOUS
<1> HIDE DEF Off
<1>2. PICK n \in Off : \A m \in Off : n <= m
  BY <1>1, LeastElement
<1>3. n \in 1..k /\ n - 1 \in 0..k /\ ~(n <= n - 1)
  BY <1>2 DEF Off
<1> QED BY <1>2, <1>3 DEF Off

LEMMA IterationIsUnique ==
    ASSUME NEW k \in Nat, NEW f, NEW g, Alike(f, g, k)
    PROVE  \A i \in 0..k : f[i] = g[i]
<1> DEFINE Good == {i \in 0..k : f[i] = g[i]}
<1>1. 0 \in Good
  BY DEF Alike
<1>2. \A i \in 1..k : i - 1 \in Good => i \in Good
  BY DEF Alike
<1>3. \A i \in 0..k : i \in Good
  <2> HIDE DEF Good
  <2> QED BY <1>1, <1>2, InductionUpTo
<1> QED BY <1>3

\* An element at the end of the second of two sequences.
LEMMA AppendBehindConcat ==
    ASSUME NEW S, NEW s \in Seq(S), NEW d \in Seq(S), NEW x \in S
    PROVE  s \o d \in Seq(S) /\ s \o Append(d, x) = Append(s \o d, x)
<1>1. s \o d \in Seq(S) /\ <<x>> \in Seq(S)
  OBVIOUS
<1>2. Append(d, x) = d \o <<x>>
  BY AppendIsConcat
<1>3. Append(s \o d, x) = (s \o d) \o <<x>>
  BY <1>1, AppendIsConcat
<1>4. (s \o d) \o <<x>> = s \o (d \o <<x>>)
  BY <1>1, ConcatAssociative
<1> QED BY <1>1, <1>2, <1>3, <1>4
===============================================================================
