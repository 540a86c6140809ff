----------------------------- MODULE QueueLemmas -----------------------------
(***************************************************************************)
(* Lemmas about the queues of this development: what taking the oldest     *)
(* element and adding others behind the newest does to the elements.       *)
(***************************************************************************)
EXTENDS Queues, SequenceTheorems, WellFoundedInduction, TLAPS

-------------------------------------------------------------------------------
(* Sequences *)

\* Tail(q) is q without its first element.
LEMMA TailElements ==
    ASSUME NEW S, NEW q \in Seq(S), q # <<>>
    PROVE  /\ Tail(q) \in Seq(S)
           /\ Len(Tail(q)) = Len(q) - 1
           /\ \A i \in 1..(Len(q) - 1) : Tail(q)[i] = q[i + 1]
           /\ Head(q) = q[1]
           /\ Head(q) \in S
           /\ Len(q) \in Nat \ {0}
  OBVIOUS

\* A sequence without elements is the empty sequence.
LEMMA EmptySequence ==
    ASSUME NEW S, NEW q \in Seq(S), Len(q) = 0
    PROVE  q = <<>>
  OBVIOUS

\* a \o b is a followed by b.
LEMMA ConcatElements ==
    ASSUME NEW S, NEW a \in Seq(S), NEW b \in Seq(S)
    PROVE  /\ a \o b \in Seq(S)
           /\ Len(a \o b) = Len(a) + Len(b)
           /\ \A i \in 1..Len(a) : (a \o b)[i] = a[i]
           /\ \A i \in 1..Len(b) : (a \o b)[Len(a) + i] = b[i]
  OBVIOUS

-------------------------------------------------------------------------------
(* Queues of handlers, which say in their field op what they run *)

Nowhere(q, ops) == \A i \in DOMAIN q : q[i].op \notin ops
AtMostOnce(q, ops) ==
    \A i, j \in DOMAIN q : q[i].op \in ops /\ q[j].op \in ops => i = j

\* A handler that is nowhere in a queue is nowhere in its tail.
LEMMA NowhereTail ==
    ASSUME NEW S, NEW q \in Seq(S), q # <<>>, NEW ops, Nowhere(q, ops)
    PROVE  Nowhere(Tail(q), ops)
  BY TailElements DEF Nowhere

\* A handler that is nowhere in two queues is nowhere in the one behind the other.
LEMMA NowhereConcat ==
    ASSUME NEW S, NEW a \in Seq(S), NEW b \in Seq(S), NEW ops,
           Nowhere(a, ops), Nowhere(b, ops)
    PROVE  Nowhere(a \o b, ops)
  BY ConcatElements DEF Nowhere

\* A handler queued in either part of a queue is queued.
LEMMA QueuedConcat ==
    ASSUME NEW S, NEW q \in Seq(S), NEW s \in Seq(S), NEW ops,
           ~Nowhere(q, ops) \/ ~Nowhere(s, ops)
    PROVE  ~Nowhere(q \o s, ops)
  <1>1. CASE ~Nowhere(q, ops)
    <2>1. PICK i \in 1..Len(q) : q[i].op \in ops
      BY <1>1 DEF Nowhere
    <2> QED BY <2>1, ConcatElements DEF Nowhere
  <1>2. CASE ~Nowhere(s, ops)
    <2>1. PICK i \in 1..Len(s) : s[i].op \in ops
      BY <1>2 DEF Nowhere
    <2>2. Len(q) + i \in 1..Len(q \o s) /\ (q \o s)[Len(q) + i] = s[i]
      BY ConcatElements
    <2> QED BY <2>1, <2>2, ConcatElements, SMTT(30) DEF Nowhere
  <1> QED BY <1>1, <1>2

\* A handler of one kind is taken; those of the other kinds remain.
LEMMA TakenElsewhere ==
    ASSUME NEW S, NEW q \in Seq(S), q # <<>>, NEW ops, Head(q).op \notin ops,
           Nowhere(Tail(q), ops)
    PROVE  Nowhere(q, ops)
  <1>1. /\ Len(q) \in Nat /\ DOMAIN q = 1..Len(q) /\ DOMAIN Tail(q) = 1..(Len(q) - 1)
        /\ \A i \in 1..(Len(q) - 1) : Tail(q)[i] = q[i + 1]
        /\ Head(q) = q[1]
    BY TailElements
  <1> SUFFICES ASSUME NEW i \in DOMAIN q PROVE q[i].op \notin ops
    BY DEF Nowhere
  <1>2. CASE i = 1
    BY <1>1, <1>2
  <1>3. CASE i # 1
    <2>1. i - 1 \in DOMAIN Tail(q) /\ (i - 1) + 1 = i
      BY <1>1, <1>3
    <2>2. Tail(q)[i - 1] = q[i] /\ Tail(q)[i - 1].op \notin ops
      BY <1>1, <2>1 DEF Nowhere
    <2> QED BY <2>2
  <1> QED BY <1>2, <1>3

\* A handler that is once in one queue and nowhere in the other is once in both.
LEMMA OnceConcat ==
    ASSUME NEW S, NEW a \in Seq(S), NEW b \in Seq(S), NEW ops,
           AtMostOnce(a, ops), AtMostOnce(b, ops),
           Nowhere(a, ops) \/ Nowhere(b, ops)
    PROVE  AtMostOnce(a \o b, ops)
  BY ConcatElements DEF AtMostOnce, Nowhere

-------------------------------------------------------------------------------
(* Induction over sequences, with a set in the place of the predicate *)

\* A set of numbers has a least one.
LEMMA Minimum ==
    ASSUME NEW T, T \subseteq Nat, T # {}
    PROVE  \E x \in T : \A y \in T : ~(y < x)
  <1>1. \E x \in T : \A y \in T : ~(<<y, x>> \in OpToRel(<, Nat))
    BY WFMin, NatLessThanWellFounded
  <1> QED BY <1>1 DEF OpToRel

\* Induction over the natural numbers.
LEMMA NumberInduction ==
    ASSUME NEW T, T \subseteq Nat, 0 \in T, \A n \in T : n + 1 \in T
    PROVE  T = Nat
  <1> SUFFICES ASSUME Nat \ T # {} PROVE FALSE OBVIOUS
  <1>1. PICK x \in Nat \ T : \A y \in Nat \ T : ~(y < x)
    BY Minimum
  <1> QED BY <1>1

\* Append(q, e) is q followed by e.
LEMMA AppendElements ==
    ASSUME NEW S, NEW q \in Seq(S), NEW e \in S
    PROVE  /\ Append(q, e) \in Seq(S)
           /\ Len(Append(q, e)) = Len(q) + 1
           /\ Append(q, e)[Len(q) + 1] = e
           /\ \A i \in 1..Len(q) : Append(q, e)[i] = q[i]
           /\ Len(q) \in Nat /\ DOMAIN q = 1..Len(q)
           /\ DOMAIN Append(q, e) = 1..(Len(q) + 1)
  OBVIOUS

\* A set that holds the empty sequence, and with a sequence every longer one,
\* holds all.
LEMMA QueueInduction ==
    ASSUME NEW X, NEW W, W \subseteq Seq(X), <<>> \in W,
           \A q \in W, e \in X : Append(q, e) \in W
    PROVE  W = Seq(X)
  <1> DEFINE T == {n \in Nat : \A q \in Seq(X) : Len(q) = n => q \in W}
  <1>1. 0 \in T
    BY EmptySequence
  <1>2. ASSUME NEW n \in T PROVE n + 1 \in T
    <2> SUFFICES ASSUME NEW q \in Seq(X), Len(q) = n + 1 PROVE q \in W
      OBVIOUS
    <2>1. PICK r \in Seq(X), e \in X : q = Append(r, e)
      <3>1. q # <<>>
        OBVIOUS
      <3> QED BY <3>1, SequenceEmptyOrAppend
    <2>2. Len(r) = n
      BY <2>1, AppendElements
    <2>3. r \in W
      BY <2>2
    <2> QED BY <2>1, <2>3
  <1> HIDE DEF T
  <1>3. T = Nat
    <2>1. T \subseteq Nat
      BY DEF T
    <2> QED BY <1>1, <1>2, <2>1, NumberInduction
  <1>4. \A q \in Seq(X) : Len(q) \in T
    BY <1>3
  <1> QED BY <1>4 DEF T

-------------------------------------------------------------------------------
(* Kept *)

\* The equation of the recursive function in Kept, up to element n.
Unrolled(q, S, n, F) ==
    F = [i \in 0..n |-> IF i = 0 THEN <<>>
                        ELSE IF q[i] \in S THEN Append(F[i - 1], q[i]) ELSE F[i - 1]]

\* The function exists for every number of elements.
LEMMA KeptExists ==
    ASSUME NEW q, NEW S
    PROVE  \A n \in Nat : \E F : Unrolled(q, S, n, F)
  <1> DEFINE T == {n \in Nat : \E F : Unrolled(q, S, n, F)}
  <1>1. 0 \in T
    <2>1. Unrolled(q, S, 0, [i \in 0..0 |-> <<>>])
      BY DEF Unrolled
    <2> QED BY <2>1
  <1>2. ASSUME NEW n \in T PROVE n + 1 \in T
    <2>1. PICK F : Unrolled(q, S, n, F)
      OBVIOUS
    <2> DEFINE x == IF q[n + 1] \in S THEN Append(F[n], q[n + 1]) ELSE F[n]
               G == [i \in 0..(n + 1) |-> IF i = n + 1 THEN x ELSE F[i]]
    <2> HIDE DEF x
    <2>2. \A i \in 0..n : G[i] = F[i]
      OBVIOUS
    <2>a. G[n + 1] = x
      OBVIOUS
    <2> HIDE DEF G
    <2>b. \A i \in 0..n : F[i] = IF i = 0 THEN <<>>
          ELSE IF q[i] \in S THEN Append(F[i - 1], q[i]) ELSE F[i - 1]
      BY <2>1 DEF Unrolled
    <2>c. \A i \in 0..n : G[i] = IF i = 0 THEN <<>>
          ELSE IF q[i] \in S THEN Append(G[i - 1], q[i]) ELSE G[i - 1]
      <3> TAKE i \in 0..n
      <3>1. CASE i = 0
        BY <3>1, <2>2, <2>b
      <3>2. CASE i # 0
        <4>1. i - 1 \in 0..n
          BY <3>2
        <4> QED BY <4>1, <3>2, <2>2, <2>b
      <3> QED BY <3>1, <3>2
    <2>d. G[n + 1] = IF q[n + 1] \in S THEN Append(G[n], q[n + 1]) ELSE G[n]
      BY <2>a, <2>2 DEF x
    <2>3. \A i \in 0..(n + 1) : G[i] = IF i = 0 THEN <<>>
          ELSE IF q[i] \in S THEN Append(G[i - 1], q[i]) ELSE G[i - 1]
      <3> TAKE i \in 0..(n + 1)
      <3>1. CASE i = n + 1
        <4>1. i - 1 = n /\ i # 0
          BY <3>1
        <4> QED BY <4>1, <3>1, <2>d
      <3>2. CASE i # n + 1
        <4>1. i \in 0..n
          BY <3>2
        <4> QED BY <4>1, <2>c
      <3> QED BY <3>1, <3>2
    <2>4. G = [i \in 0..(n + 1) |-> G[i]]
      BY DEF G
    <2>5. Unrolled(q, S, n + 1, G)
      BY <2>3, <2>4 DEF Unrolled
    <2> QED BY <2>5
  <1> HIDE DEF T
  <1>3. T = Nat
    <2>1. T \subseteq Nat
      BY DEF T
    <2> QED BY <1>1, <1>2, <2>1, NumberInduction
  <1> QED BY <1>3 DEF T

\* Kept is the last value of that function.
LEMMA KeptUnrolled ==
    ASSUME NEW X, NEW q \in Seq(X), NEW S
    PROVE  \E F : Unrolled(q, S, Len(q), F) /\ Kept(q, S) = F[Len(q)]
  <1> DEFINE G == CHOOSE F : Unrolled(q, S, Len(q), F)
  <1>1. Len(q) \in Nat
    OBVIOUS
  <1>2. \E F : Unrolled(q, S, Len(q), F)
    BY <1>1, KeptExists
  <1>3. Unrolled(q, S, Len(q), G)
    BY <1>2
  <1>4. Kept(q, S) = G[Len(q)]
    BY DEF Kept, Unrolled
  <1> QED BY <1>3, <1>4

\* Nothing is kept of nothing.
LEMMA KeptEmpty == \A S : Kept(<<>>, S) = <<>>
  <1> TAKE S
  <1>1. <<>> \in Seq({}) /\ Len(<<>>) = 0
    OBVIOUS
  <1>2. PICK F : Unrolled(<<>>, S, 0, F) /\ Kept(<<>>, S) = F[0]
    BY <1>1, KeptUnrolled
  <1>3. F[0] = <<>>
    BY <1>2 DEF Unrolled
  <1> QED BY <1>2, <1>3

\* The newest element is kept or not, whatever is before it.
LEMMA KeptAppend ==
    ASSUME NEW X, NEW q \in Seq(X), NEW e \in X, NEW S
    PROVE  Kept(Append(q, e), S) = IF e \in S THEN Append(Kept(q, S), e) ELSE Kept(q, S)
  <1> DEFINE r == Append(q, e)
             n == Len(q)
  <1>1. /\ r \in Seq(X) /\ Len(r) = n + 1 /\ n \in Nat /\ r[n + 1] = e
        /\ \A i \in 1..n : r[i] = q[i]
    BY AppendElements
  <1> HIDE DEF r, n
  <1>2. PICK F : Unrolled(q, S, n, F) /\ Kept(q, S) = F[n]
    BY KeptUnrolled DEF n
  <1>3. PICK G : Unrolled(r, S, n + 1, G) /\ Kept(r, S) = G[n + 1]
    BY <1>1, KeptUnrolled
  <1>f. \A i \in 0..n : F[i] = IF i = 0 THEN <<>>
          ELSE IF q[i] \in S THEN Append(F[i - 1], q[i]) ELSE F[i - 1]
    BY <1>2 DEF Unrolled
  <1>g. \A i \in 0..(n + 1) : G[i] = IF i = 0 THEN <<>>
          ELSE IF r[i] \in S THEN Append(G[i - 1], r[i]) ELSE G[i - 1]
    BY <1>3 DEF Unrolled
  <1> DEFINE T == {i \in Nat : i <= n => G[i] = F[i]}
  <1>4. 0 \in T
    BY <1>1, <1>f, <1>g
  <1>5. ASSUME NEW i \in T PROVE i + 1 \in T
    <2> SUFFICES ASSUME i + 1 <= n PROVE G[i + 1] = F[i + 1]
      OBVIOUS
    <2>1. /\ i + 1 \in 0..n /\ i + 1 \in 0..(n + 1) /\ i + 1 \in 1..n /\ i + 1 # 0
          /\ (i + 1) - 1 = i /\ i <= n
      BY <1>1
    <2>2. G[i] = F[i] /\ r[i + 1] = q[i + 1]
      BY <1>1, <2>1
    <2> QED BY <1>f, <1>g, <2>1, <2>2
  <1> HIDE DEF T
  <1>6. T = Nat
    <2>1. T \subseteq Nat
      BY DEF T
    <2> QED BY <1>4, <1>5, <2>1, NumberInduction
  <1>7. G[n] = F[n]
    BY <1>1, <1>6 DEF T
  <1>8. n + 1 \in 0..(n + 1) /\ n + 1 # 0 /\ (n + 1) - 1 = n
    BY <1>1
  <1>9. G[n + 1] = IF e \in S THEN Append(G[n], e) ELSE G[n]
    BY <1>1, <1>g, <1>8
  <1> QED BY <1>2, <1>3, <1>7, <1>9 DEF r

\* What is kept are elements of the queue that are in the set.
LEMMA KeptType ==
    ASSUME NEW X, NEW S
    PROVE  \A q \in Seq(X) : Kept(q, S) \in Seq(X \intersect S) /\ Kept(q, S) \in Seq(X)
  <1> DEFINE W == {q \in Seq(X) : Kept(q, S) \in Seq(X \intersect S)}
  <1>1. <<>> \in W
    <2> DEFINE z == <<>>
    <2>1. z \in Seq(X) /\ z \in Seq(X \intersect S)
      OBVIOUS
    <2>2. Kept(z, S) = z
      BY KeptEmpty
    <2> HIDE DEF z
    <2>3. z \in W
      BY <2>1, <2>2
    <2> QED BY <2>3 DEF z
  <1>2. ASSUME NEW q \in W, NEW e \in X PROVE Append(q, e) \in W
    <2>1. Kept(Append(q, e), S) = IF e \in S THEN Append(Kept(q, S), e) ELSE Kept(q, S)
      BY KeptAppend
    <2>2. Kept(Append(q, e), S) \in Seq(X \intersect S)
      BY <2>1
    <2> QED BY <2>2
  <1> HIDE DEF W
  <1>3. W = Seq(X)
    <2>1. W \subseteq Seq(X)
      BY DEF W
    <2> QED BY <1>1, <1>2, <2>1, QueueInduction
  <1>4. \A r \in Seq(X \intersect S) : r \in Seq(X)
    BY SeqMonotonic
  <1> QED BY <1>3, <1>4 DEF W

\* Two queues one behind the other are filtered one by one.
LEMMA KeptConcat ==
    ASSUME NEW X, NEW S, NEW a \in Seq(X)
    PROVE  \A b \in Seq(X) : Kept(a \o b, S) = Kept(a, S) \o Kept(b, S)
  <1> DEFINE W == {b \in Seq(X) : Kept(a \o b, S) = Kept(a, S) \o Kept(b, S)}
  <1>a. \A q \in Seq(X) : Kept(q, S) \in Seq(X)
    BY KeptType
  <1>1. <<>> \in W
    <2> DEFINE z == <<>>
    <2>1. a \o z = a /\ Kept(a, S) \o z = Kept(a, S) /\ z \in Seq(X)
      BY <1>a
    <2>2. Kept(z, S) = z
      BY KeptEmpty
    <2> HIDE DEF z
    <2>3. z \in W
      BY <2>1, <2>2
    <2> QED BY <2>3 DEF z
  <1>2. ASSUME NEW q \in W, NEW e \in X PROVE Append(q, e) \in W
    <2>1. a \o Append(q, e) = Append(a \o q, e) /\ a \o q \in Seq(X)
      OBVIOUS
    <2>2. Kept(Append(a \o q, e), S) = IF e \in S THEN Append(Kept(a \o q, S), e) ELSE Kept(a \o q, S)
      <3> DEFINE r == a \o q
      <3>1. r \in Seq(X)
        BY <2>1
      <3> HIDE DEF r
      <3>2. Kept(Append(r, e), S) = IF e \in S THEN Append(Kept(r, S), e) ELSE Kept(r, S)
        BY <3>1, KeptAppend
      <3> QED BY <3>2 DEF r
    <2>3. Kept(Append(q, e), S) = IF e \in S THEN Append(Kept(q, S), e) ELSE Kept(q, S)
      BY KeptAppend
    <2>4. Kept(a, S) \o Append(Kept(q, S), e) = Append(Kept(a, S) \o Kept(q, S), e)
      BY <1>a
    <2>5. Kept(a \o q, S) = Kept(a, S) \o Kept(q, S)
      OBVIOUS
    <2>6. Kept(a \o Append(q, e), S) = Kept(a, S) \o Kept(Append(q, e), S)
      BY <2>1, <2>2, <2>3, <2>4, <2>5
    <2> QED BY <2>6
  <1> HIDE DEF W
  <1>3. W = Seq(X)
    <2>1. W \subseteq Seq(X)
      BY DEF W
    <2> QED BY <1>1, <1>2, <2>1, QueueInduction
  <1> QED BY <1>3 DEF W

\* A single element is kept or not.
LEMMA KeptSingle ==
    ASSUME NEW X, NEW e \in X, NEW S
    PROVE  Kept(<<e>>, S) = IF e \in S THEN <<e>> ELSE <<>>
  <1>1. <<>> \in Seq(X) /\ <<e>> = Append(<<>>, e) /\ Append(<<>>, e) = <<e>>
    OBVIOUS
  <1>2. Kept(Append(<<>>, e), S) = IF e \in S THEN Append(Kept(<<>>, S), e) ELSE Kept(<<>>, S)
    BY <1>1, KeptAppend, Zenon
  <1>3. Kept(<<>>, S) = <<>>
    BY KeptEmpty, Zenon
  <1> QED BY <1>1, <1>2, <1>3, Zenon

\* The oldest element is kept or not, whatever is behind it.
LEMMA KeptHead ==
    ASSUME NEW X, NEW q \in Seq(X), q # <<>>, NEW S
    PROVE  /\ Head(q) \in S => Kept(q, S) = <<Head(q)>> \o Kept(Tail(q), S)
           /\ Head(q) \notin S => Kept(q, S) = Kept(Tail(q), S)
  <1>1. Head(q) \in X /\ <<Head(q)>> \in Seq(X) /\ Tail(q) \in Seq(X) /\ q = <<Head(q)>> \o Tail(q)
    OBVIOUS
  <1>2. Kept(<<Head(q)>> \o Tail(q), S) = Kept(<<Head(q)>>, S) \o Kept(Tail(q), S)
    BY <1>1, KeptConcat
  <1>3. Kept(<<Head(q)>>, S) = IF Head(q) \in S THEN <<Head(q)>> ELSE <<>>
    BY <1>1, KeptSingle
  <1>4. Kept(Tail(q), S) \in Seq(X \intersect S)
    BY <1>1, KeptType
  <1>5. <<>> \o Kept(Tail(q), S) = Kept(Tail(q), S)
    BY <1>4
  <1>6. Kept(q, S) = Kept(<<Head(q)>>, S) \o Kept(Tail(q), S)
    BY <1>1, <1>2
  <1> QED BY <1>3, <1>5, <1>6

\* A queue without elements in the set leaves nothing, one with all of them in
\* the set itself.
LEMMA KeptNoneOrAll ==
    ASSUME NEW X, NEW S
    PROVE  /\ X \intersect S = {} => \A q \in Seq(X) : Kept(q, S) = <<>>
           /\ X \subseteq S => \A q \in Seq(X) : Kept(q, S) = q
  <1>1. ASSUME X \intersect S = {} PROVE \A q \in Seq(X) : Kept(q, S) = <<>>
    <2>1. \A q \in Seq(X) : Kept(q, S) \in Seq({})
      BY <1>1, KeptType
    <2>2. \A r \in Seq({}) : r = <<>>
      <3> TAKE r \in Seq({})
      <3>1. Len(r) = 0
        <4>1. Len(r) \in Nat /\ \A i \in 1..Len(r) : r[i] \in {}
          OBVIOUS
        <4>2. Len(r) # 0 => 1 \in 1..Len(r)
          BY <4>1
        <4> QED BY <4>1, <4>2
      <3> QED BY <3>1, EmptySequence
    <2> QED BY <2>1, <2>2
  <1>2. ASSUME X \subseteq S PROVE \A q \in Seq(X) : Kept(q, S) = q
    <2> DEFINE W == {q \in Seq(X) : Kept(q, S) = q}
    <2>1. <<>> \in W
      BY KeptEmpty
    <2>2. ASSUME NEW q \in W, NEW e \in X PROVE Append(q, e) \in W
      <3>1. Kept(Append(q, e), S) = Append(Kept(q, S), e)
        BY <1>2, KeptAppend
      <3> QED BY <3>1
    <2> HIDE DEF W
    <2>3. W = Seq(X)
      <3>1. W \subseteq Seq(X)
        BY DEF W
      <3> QED BY <2>1, <2>2, <3>1, QueueInduction
    <2> QED BY <2>3 DEF W
  <1> QED BY <1>1, <1>2

\* Filtering twice keeps what is in both sets.
LEMMA KeptKept ==
    ASSUME NEW X, NEW S, NEW R
    PROVE  \A q \in Seq(X) : Kept(Kept(q, S), R) = Kept(q, S \intersect R)
  <1> DEFINE W == {q \in Seq(X) : Kept(Kept(q, S), R) = Kept(q, S \intersect R)}
  <1>1. <<>> \in W
    BY KeptEmpty
  <1>2. ASSUME NEW q \in W, NEW e \in X PROVE Append(q, e) \in W
    <2>1. Kept(q, S) \in Seq(X)
      BY KeptType
    <2>2. Kept(Append(q, e), S) = IF e \in S THEN Append(Kept(q, S), e) ELSE Kept(q, S)
      BY KeptAppend
    <2>3. Kept(Append(Kept(q, S), e), R)
            = IF e \in R THEN Append(Kept(Kept(q, S), R), e) ELSE Kept(Kept(q, S), R)
      BY <2>1, KeptAppend
    <2>4. Kept(Append(q, e), S \intersect R)
            = IF e \in S \intersect R THEN Append(Kept(q, S \intersect R), e) ELSE Kept(q, S \intersect R)
      BY KeptAppend
    <2>5. Kept(Kept(q, S), R) = Kept(q, S \intersect R) /\ Append(q, e) \in Seq(X)
      OBVIOUS
    <2>6. CASE e \in S /\ e \in R
      BY <2>2, <2>3, <2>4, <2>5, <2>6
    <2>7. CASE e \in S /\ e \notin R
      BY <2>2, <2>3, <2>4, <2>5, <2>7
    <2>8. CASE e \notin S
      BY <2>2, <2>4, <2>5, <2>8
    <2> QED BY <2>6, <2>7, <2>8
  <1> HIDE DEF W
  <1>3. W = Seq(X)
    <2>1. W \subseteq Seq(X)
      BY DEF W
    <2> QED BY <1>1, <1>2, <2>1, QueueInduction
  <1> QED BY <1>3 DEF W
===============================================================================
