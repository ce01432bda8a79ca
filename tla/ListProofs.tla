------------------------------ MODULE ListProofs ------------------------------
(***************************************************************************)
(* Lemmas about the lists of descriptors the event loops keep: what Filter *)
(* returns, and what becomes of epoll's lists; about the texts that        *)
(* FlattenSeq joins; and about lists made from others by losing, copying,  *)
(* moving or appending entries.  The induction is over a set of numbers,   *)
(* so that no theorem with an operator parameter is needed.                *)
(***************************************************************************)
EXTENDS Epoll, SequenceTheorems, WellFoundedInduction, TLAPS

\* The natural numbers in their order, as a set of pairs.
Less == {ss \in Nat \X Nat : ss[1] < ss[2]}

\* There is no infinite descent.
LEMMA LessIsWellFounded == IsWellFoundedOn(Less, Nat)
  BY NatLessThanWellFounded, Zenon DEF OpToRel, Less

\* A set that has 0 and, with a number below L, the next one, has all up to L.
LEMMA Induction ==
    ASSUME NEW L \in Nat, NEW G, 0 \in G, \A n \in 0..(L - 1) : n \in G => n + 1 \in G
    PROVE  \A n \in 0..L : n \in G
<1> DEFINE Missing == {n \in 0..L : n \notin G}
<1>1. SUFFICES ASSUME Missing # {} PROVE FALSE
  OBVIOUS
<1>2. PICK n \in Missing : \A m \in Missing : ~ (<<m, n>> \in Less)
  <2>1. Missing \subseteq Nat
    OBVIOUS
  <2>. QED  BY <1>1, <2>1, LessIsWellFounded, WFMin
<1>3. \A m \in Missing : ~ (m < n)
  <2>1. ASSUME NEW m \in Missing, m < n PROVE <<m, n>> \in Less
    <3>1. m \in Nat /\ n \in Nat
      OBVIOUS
    <3>. QED  BY <2>1, <3>1 DEF Less
  <2>. QED  BY <1>2, <2>1
<1>4. n # 0 /\ n - 1 \in 0..(L - 1) /\ n - 1 < n
  BY <1>2
<1>5. n - 1 \in G
  BY <1>3, <1>4
<1>. QED  BY <1>2, <1>4, <1>5

\* The recursion of Filter defines a function: the part kept of each prefix.
LEMMA FilterRecursion ==
    ASSUME NEW T, NEW s \in Seq(T), NEW S
    PROVE  \E kept \in [0..Len(s) -> Seq(T)] :
              /\ kept[0] = <<>> /\ Filter(s, S) = kept[Len(s)]
              /\ \A n \in 1..Len(s) :
                    kept[n] = IF s[n] \in S THEN Append(kept[n - 1], s[n]) ELSE kept[n - 1]
<1> DEFINE L == Len(s)
           Next1(q, n) == IF s[n] \in S THEN Append(q, s[n]) ELSE q
           UpTo(n, g) == \A k \in 0..n : g[k] = IF k = 0 THEN <<>> ELSE Next1(g[k - 1], k)
           G == {n \in 0..L : \E g \in [0..n -> Seq(T)] : UpTo(n, g)}
           Whole(g) == g = [n \in 0..L |-> IF n = 0 THEN <<>> ELSE Next1(g[n - 1], n)]
<1>1. L \in Nat
  OBVIOUS
<1>2. 0 \in G
  <2>1. PICK g : g = [k \in 0..0 |-> <<>>]
    OBVIOUS
  <2>2. g \in [0..0 -> Seq(T)] /\ UpTo(0, g)
    BY <2>1
  <2>3. 0 \in 0..L
    BY <1>1
  <2>. HIDE DEF UpTo
  <2>. QED  BY <2>2, <2>3
<1>3. ASSUME NEW n \in 0..(L - 1), n \in G PROVE n + 1 \in G
  <2>1. PICK g \in [0..n -> Seq(T)] : UpTo(n, g)
    BY <1>3
  <2> DEFINE h == [k \in 0..(n + 1) |-> IF k <= n THEN g[k] ELSE Next1(g[n], n + 1)]
  <2>2. n + 1 \in 1..L /\ s[n + 1] \in T /\ g[n] \in Seq(T)
    BY <1>1
  <2>3. Next1(g[n], n + 1) \in Seq(T)
    BY <2>2
  <2>4. h \in [0..(n + 1) -> Seq(T)]
    BY <2>3
  <2>5. ASSUME NEW k \in 0..(n + 1) PROVE h[k] = IF k = 0 THEN <<>> ELSE Next1(h[k - 1], k)
    <3>1. CASE k <= n
      <4>1. h[k] = g[k] /\ (k # 0 => h[k - 1] = g[k - 1])
        BY <3>1
      <4>2. k \in 0..n
        BY <3>1
      <4>. QED  BY <2>1, <4>1, <4>2
    <3>2. CASE k = n + 1
      BY <3>2
    <3>. QED  BY <3>1, <3>2
  <2>6. UpTo(n + 1, h)
    <3>. HIDE DEF h, Next1
    <3>. QED  BY <2>5
  <2>7. n + 1 \in 0..L
    BY <2>2
  <2> HIDE DEF h, UpTo
  <2>. QED  BY <2>4, <2>6, <2>7
<1>4. L \in G
  <2>1. \A n \in 0..L : n \in G
    <3>. HIDE DEF G
    <3>. QED  BY <1>1, <1>2, <1>3, Induction
  <2>2. L \in 0..L
    BY <1>1
  <2>. HIDE DEF G
  <2>. QED  BY <2>1, <2>2
<1>5. PICK g \in [0..L -> Seq(T)] : UpTo(L, g)
  BY <1>4
<1>6. Whole(g)
  BY <1>5
<1> DEFINE kept == CHOOSE f : Whole(f)
<1>7. Whole(kept)
  BY <1>6
<1>8. Filter(s, S) = kept[L]
  BY DEF Filter
<1> HIDE DEF kept
<1>9. kept[0] = <<>> /\ \A n \in 1..L : kept[n] = Next1(kept[n - 1], n)
  <2>1. \A n \in 0..L : kept[n] = IF n = 0 THEN <<>> ELSE Next1(kept[n - 1], n)
    <3>. HIDE DEF Next1
    <3>. QED  BY <1>7, Zenon
  <2>2. 0 \in 0..L /\ \A n \in 1..L : n \in 0..L /\ n # 0
    BY <1>1
  <2>. HIDE DEF Next1
  <2>. QED  BY <2>1, <2>2, Zenon
<1>10. kept \in [0..L -> Seq(T)]
  <2> DEFINE H == {n \in 0..L : kept[n] \in Seq(T)}
  <2>1. 0 \in H
    <3>1. 0 \in 0..L /\ kept[0] \in Seq(T)
      BY <1>1, <1>9
    <3>. QED  BY <3>1
  <2>2. ASSUME NEW n \in 0..(L - 1), n \in H PROVE n + 1 \in H
    <3>1. n + 1 \in 1..L /\ n + 1 - 1 = n /\ s[n + 1] \in T
      BY <1>1
    <3>2. kept[n + 1] = Next1(kept[n], n + 1)
      BY <1>9, <3>1
    <3>3. kept[n] \in Seq(T)
      BY <2>2
    <3>4. kept[n + 1] \in Seq(T)
      BY <3>1, <3>2, <3>3
    <3>5. n + 1 \in 0..L
      BY <1>1
    <3>. QED  BY <3>4, <3>5
  <2>3. \A n \in 0..L : n \in H
    <3>. HIDE DEF H
    <3>. QED  BY <1>1, <2>1, <2>2, Induction
  <2>. QED  BY <1>7, <2>3
<1>. QED  BY <1>8, <1>9, <1>10

\* Filter keeps exactly the entries in S, each as often as it is there: at
\* every prefix, what is kept so far has the members of the prefix in S.
THEOREM FilterProperties ==
    ASSUME NEW T, NEW s \in Seq(T), NEW S
    PROVE  /\ Filter(s, S) \in Seq(T \cap S) /\ Len(Filter(s, S)) <= Len(s)
           /\ ToSet(Filter(s, S)) = ToSet(s) \cap S
           /\ IsInjective(s) => IsInjective(Filter(s, S))
<1> DEFINE L == Len(s)
<1>1. PICK kept \in [0..L -> Seq(T)] :
         /\ kept[0] = <<>> /\ Filter(s, S) = kept[L]
         /\ \A n \in 1..L : kept[n] = IF s[n] \in S THEN Append(kept[n - 1], s[n]) ELSE kept[n - 1]
  BY FilterRecursion
<1> DEFINE Good(n) ==
             /\ kept[n] \in Seq(T \cap S) /\ Len(kept[n]) <= n
             /\ \A j \in 1..Len(kept[n]) : \E k \in 1..n : kept[n][j] = s[k]
             /\ \A k \in 1..n : s[k] \in S => \E j \in 1..Len(kept[n]) : kept[n][j] = s[k]
             /\ IsInjective(s) => \A i, j \in 1..Len(kept[n]) : kept[n][i] = kept[n][j] => i = j
           G == {n \in 0..L : Good(n)}
<1>2. L \in Nat
  OBVIOUS
<1>3. 0 \in G
  BY <1>1, <1>2
<1>4. ASSUME NEW n \in 0..(L - 1), n \in G PROVE n + 1 \in G
  <2> DEFINE q == kept[n]
             e == s[n + 1]
  <2>1. /\ n + 1 \in 1..L /\ e \in T /\ n \in Nat /\ n + 1 \in 0..L
        /\ kept[n + 1] = IF e \in S THEN Append(q, e) ELSE q
    <3>1. n + 1 \in 1..L /\ n + 1 - 1 = n /\ n \in Nat
      BY <1>2
    <3>. QED  BY <1>1, <3>1
  <2>2. Good(n)
    BY <1>4
  <2>3. CASE e \notin S
    <3>1. kept[n + 1] = q
      BY <2>1, <2>3
    <3>2. Len(kept[n + 1]) <= n + 1 /\ kept[n + 1] \in Seq(T \cap S)
      BY <2>1, <2>2, <3>1
    <3>3. \A j \in 1..Len(q) : \E k \in 1..(n + 1) : q[j] = s[k]
      BY <2>1, <2>2
    <3>4. \A k \in 1..(n + 1) : s[k] \in S => \E j \in 1..Len(q) : q[j] = s[k]
      BY <2>1, <2>2, <2>3
    <3>5. Good(n + 1)
      <4>1. IsInjective(s) => \A i, j \in 1..Len(q) : q[i] = q[j] => i = j
        BY <2>2
      <4>. HIDE DEF q
      <4>. QED  BY <3>1, <3>2, <3>3, <3>4, <4>1
    <3>. HIDE DEF Good
    <3>. QED  BY <2>1, <3>5
  <2>4. CASE e \in S
    <3> DEFINE r == kept[n + 1]
    <3>1. r = Append(q, e) /\ q \in Seq(T \cap S) /\ e \in T \cap S
      BY <2>1, <2>2, <2>4
    <3>2. /\ r \in Seq(T \cap S) /\ Len(r) = Len(q) + 1 /\ Len(q) \in Nat /\ r[Len(q) + 1] = e
          /\ \A j \in 1..Len(q) : r[j] = q[j]
      BY <3>1
    <3> HIDE DEF r
    <3>3. \A j \in 1..Len(r) : \E k \in 1..(n + 1) : r[j] = s[k]
      BY <2>1, <2>2, <3>2
    <3>4. ASSUME NEW k \in 1..(n + 1), s[k] \in S PROVE \E j \in 1..Len(r) : r[j] = s[k]
      <4>1. CASE k = n + 1
        BY <3>2, <4>1
      <4>2. CASE k \in 1..n
        <5>1. PICK j \in 1..Len(q) : q[j] = s[k]
          BY <2>2, <3>4, <4>2
        <5>. QED  BY <3>2, <5>1
      <4>. QED  BY <2>1, <4>1, <4>2
    <3>5. ASSUME IsInjective(s), NEW i \in 1..Len(r), NEW j \in 1..Len(r), r[i] = r[j] PROVE i = j
      <4>1. ASSUME NEW a \in 1..Len(q) PROVE r[a] # e
        <5>1. PICK k \in 1..n : q[a] = s[k]
          BY <2>2
        <5>2. k \in 1..L /\ k # n + 1
          BY <2>1
        <5>3. s[k] # s[n + 1]
          BY <2>1, <3>5, <5>2 DEF IsInjective
        <5>. QED  BY <3>2, <5>1, <5>3
      <4>2. CASE i \in 1..Len(q) /\ j \in 1..Len(q)
        BY <2>2, <3>2, <3>5, <4>2
      <4>. QED  BY <3>2, <3>5, <4>1, <4>2
    <3>6. Len(r) <= n + 1
      BY <2>1, <2>2, <3>2
    <3>7. Good(n + 1)
      BY <3>2, <3>3, <3>4, <3>5, <3>6 DEF r
    <3>. HIDE DEF Good
    <3>. QED  BY <2>1, <3>7
  <2>. QED  BY <2>3, <2>4
<1>5. Good(L)
  <2>1. \A n \in 0..L : n \in G
    <3>. HIDE DEF G
    <3>. QED  BY <1>2, <1>3, <1>4, Induction
  <2>2. L \in 0..L
    BY <1>2
  <2>3. L \in G
    <3>. HIDE DEF G
    <3>. QED  BY <2>1, <2>2
  <2>. HIDE DEF Good
  <2>. QED  BY <2>3
<1>6. ToSet(kept[L]) = ToSet(s) \cap S
  <2>1. kept[L] \in Seq(T \cap S)
    BY <1>5
  <2>2. ToSet(kept[L]) \subseteq ToSet(s) \cap S
    BY <1>5, <2>1 DEF ToSet
  <2>3. ToSet(s) \cap S \subseteq ToSet(kept[L])
    BY <1>5, <2>1 DEF ToSet
  <2>. QED  BY <2>2, <2>3
<1>7. IsInjective(s) => IsInjective(kept[L])
  <2>1. kept[L] \in Seq(T \cap S) /\ DOMAIN kept[L] = 1..Len(kept[L])
    BY <1>5
  <2>2. IsInjective(s) => \A i, j \in 1..Len(kept[L]) : kept[L][i] = kept[L][j] => i = j
    BY <1>5
  <2>. QED  BY <2>1, <2>2, Zenon DEF IsInjective
<1>. QED  BY <1>1, <1>5, <1>6, <1>7

\* Filter only moves entries to the front, and a first entry in S stays the first.
LEMMA FilterOrder ==
    ASSUME NEW T, NEW s \in Seq(T), NEW S
    PROVE  /\ \A j \in 1..Len(Filter(s, S)) : \E k \in j..Len(s) : Filter(s, S)[j] = s[k]
           /\ s # <<>> /\ s[1] \in S => Filter(s, S) # <<>> /\ Filter(s, S)[1] = s[1]
<1> DEFINE L == Len(s)
<1>1. PICK kept \in [0..L -> Seq(T)] :
         /\ kept[0] = <<>> /\ Filter(s, S) = kept[L]
         /\ \A n \in 1..L : kept[n] = IF s[n] \in S THEN Append(kept[n - 1], s[n]) ELSE kept[n - 1]
  BY FilterRecursion
<1> DEFINE Good(n) ==
             /\ Len(kept[n]) <= n
             /\ \A j \in 1..Len(kept[n]) : \E k \in j..n : kept[n][j] = s[k]
             /\ n > 0 /\ s[1] \in S => Len(kept[n]) > 0 /\ kept[n][1] = s[1]
           G == {n \in 0..L : Good(n)}
<1>2. L \in Nat
  OBVIOUS
<1>3. 0 \in G
  BY <1>1, <1>2
<1>4. ASSUME NEW n \in 0..(L - 1), n \in G PROVE n + 1 \in G
  <2> DEFINE q == kept[n]
             r == kept[n + 1]
             e == s[n + 1]
  <2>1. /\ n + 1 \in 1..L /\ e \in T /\ n \in Nat /\ n + 1 \in 0..L /\ q \in Seq(T)
        /\ r = IF e \in S THEN Append(q, e) ELSE q
    <3>1. n + 1 \in 1..L /\ n + 1 - 1 = n /\ n \in Nat
      BY <1>2
    <3>. QED  BY <1>1, <3>1
  <2>2. Good(n)
    BY <1>4
  <2>3. /\ Len(q) \in Nat /\ Len(r) \in {Len(q), Len(q) + 1} /\ \A j \in 1..Len(q) : r[j] = q[j]
        /\ Len(r) = Len(q) + 1 <=> e \in S
        /\ e \in S => r[Len(q) + 1] = e
    BY <2>1
  <2>4. ASSUME NEW j \in 1..Len(r) PROVE \E k \in j..(n + 1) : r[j] = s[k]
    <3>1. CASE j \in 1..Len(q)
      <4>1. PICK k \in j..n : q[j] = s[k]
        BY <2>2, <3>1
      <4>. QED  BY <2>1, <2>3, <3>1, <4>1
    <3>2. CASE j = Len(q) + 1
      <4>1. e \in S /\ r[j] = s[n + 1] /\ j <= n + 1
        BY <2>2, <2>3, <3>2
      <4>. QED  BY <2>1, <4>1
    <3>. QED  BY <2>3, <3>1, <3>2
  <2>5. s[1] \in S => Len(r) > 0 /\ r[1] = s[1]
    <3>1. CASE n = 0
      <4>1. q = <<>> /\ Len(q) = 0
        BY <1>1, <3>1
      <4>. QED  BY <2>3, <3>1, <4>1
    <3>2. CASE n > 0
      BY <2>2, <2>3, <3>2
    <3>. QED  BY <2>1, <3>1, <3>2
  <2>6. Len(r) <= n + 1
    BY <2>1, <2>2, <2>3
  <2>. HIDE DEF q
  <2>. QED  BY <2>1, <2>4, <2>5, <2>6
<1>5. Good(L)
  <2>1. \A n \in 0..L : n \in G
    <3>. HIDE DEF G
    <3>. QED  BY <1>2, <1>3, <1>4, Induction
  <2>2. L \in 0..L
    BY <1>2
  <2>. HIDE DEF Good
  <2>. QED  BY <2>1, <2>2
<1>6. s # <<>> => L > 0
  OBVIOUS
<1>. QED  BY <1>1, <1>2, <1>5, <1>6

-----------------------------------------------------------------------------
(* Members and repetition.                                                 *)

\* ToSet and IsInjective of a sequence, by its indices.
LEMMA ToSetByIndex ==
    ASSUME NEW T, NEW s \in Seq(T)
    PROVE  /\ \A e : e \in ToSet(s) <=> \E k \in 1..Len(s) : s[k] = e
           /\ IsInjective(s) <=> \A k, l \in 1..Len(s) : s[k] = s[l] => k = l
<1>1. DOMAIN s = 1..Len(s)
  OBVIOUS
<1>2. \A e : e \in ToSet(s) <=> \E k \in 1..Len(s) : s[k] = e
  BY <1>1, Zenon DEF ToSet
<1>. QED  BY <1>1, <1>2, Zenon DEF IsInjective

\* The smaller of two numbers.
LEMMA MinOfTwo ==
    ASSUME NEW a \in Int, NEW b \in Int
    PROVE  Min({a, b}) = IF a <= b THEN a ELSE b
<1> DEFINE m == IF a <= b THEN a ELSE b
<1>1. m \in {a, b} /\ \A y \in {a, b} : m <= y
  OBVIOUS
<1>2. \A x \in {a, b} : (\A y \in {a, b} : x <= y) => x = m
  OBVIOUS
<1>. QED  BY <1>1, <1>2 DEF Min

\* A set of numbers that is not empty has a smallest one.
LEMMA MinOfSet ==
    ASSUME NEW M, M \subseteq Nat, M # {}
    PROVE  Min(M) \in M /\ \A y \in M : Min(M) <= y
<1>1. PICK n \in M : \A m \in M : ~ (<<m, n>> \in Less)
  BY LessIsWellFounded, WFMin
<1>2. ASSUME NEW m \in M PROVE n <= m
  <2>1. m \in Nat /\ n \in Nat
    OBVIOUS
  <2>2. ~ (m < n)
    BY <1>1, <2>1 DEF Less
  <2>. QED  BY <2>1, <2>2
<1>. QED  BY <1>2 DEF Min

\* A longer list has one member more, and repeats nothing unless that one was there.
LEMMA AppendMembers ==
    ASSUME NEW T, NEW s \in Seq(T), NEW e \in T
    PROVE  /\ Append(s, e) \in Seq(T) /\ ToSet(Append(s, e)) = ToSet(s) \cup {e}
           /\ IsInjective(s) /\ e \notin ToSet(s) => IsInjective(Append(s, e))
<1>1. Append(s, e) \in Seq(T) /\ Len(Append(s, e)) = Len(s) + 1
  OBVIOUS
<1>2. ToSet(Append(s, e)) = ToSet(s) \cup {e}
  <2>1. ASSUME NEW x PROVE x \in ToSet(Append(s, e)) <=> x \in ToSet(s) \/ x = e
    <3>1. \A k \in 1..Len(s) : Append(s, e)[k] = s[k] /\ k \in 1..(Len(s) + 1)
      OBVIOUS
    <3>2. Append(s, e)[Len(s) + 1] = e /\ Len(s) + 1 \in 1..(Len(s) + 1)
      OBVIOUS
    <3>3. \A k \in 1..(Len(s) + 1) : k \in 1..Len(s) \/ k = Len(s) + 1
      OBVIOUS
    <3>4. x \in ToSet(s) <=> \E k \in 1..Len(s) : s[k] = x
      BY ToSetByIndex
    <3>5. x \in ToSet(Append(s, e)) <=> \E k \in 1..(Len(s) + 1) : Append(s, e)[k] = x
      BY <1>1, ToSetByIndex
    <3>. QED  BY <3>1, <3>2, <3>3, <3>4, <3>5, Zenon
  <2>. QED  BY <2>1, Zenon
<1>3. ASSUME IsInjective(s), e \notin ToSet(s) PROVE IsInjective(Append(s, e))
  <2>1. \A k, l \in 1..Len(s) : s[k] = s[l] => k = l
    BY <1>3, ToSetByIndex
  <2>2. \A k \in 1..Len(s) : s[k] # e
    BY <1>3, ToSetByIndex
  <2>3. \A k, l \in 1..Len(Append(s, e)) : Append(s, e)[k] = Append(s, e)[l] => k = l
    BY <2>1, <2>2
  <2>. QED  BY <1>1, <2>3, ToSetByIndex
<1>. QED  BY <1>1, <1>2, <1>3

\* The first entry and the others.
LEMMA TailMembers ==
    ASSUME NEW T, NEW s \in Seq(T), s # <<>>
    PROVE  /\ Tail(s) \in Seq(T) /\ Len(Tail(s)) = Len(s) - 1 /\ Head(s) \in T
           /\ ToSet(s) = ToSet(Tail(s)) \cup {Head(s)}
           /\ IsInjective(s) => IsInjective(Tail(s)) /\ Head(s) \notin ToSet(Tail(s))
<1>1. /\ Tail(s) \in Seq(T) /\ Len(Tail(s)) = Len(s) - 1 /\ Head(s) \in T /\ Head(s) = s[1]
      /\ \A k \in 1..Len(Tail(s)) : Tail(s)[k] = s[k + 1] /\ k + 1 \in 1..Len(s)
      /\ 1 \in 1..Len(s) /\ \A k \in 1..Len(s) : k = 1 \/ (k - 1 \in 1..Len(Tail(s)) /\ Tail(s)[k - 1] = s[k])
  OBVIOUS
<1>2. ToSet(s) = ToSet(Tail(s)) \cup {Head(s)}
  <2>1. \A x : x \in ToSet(s) <=> \E k \in 1..Len(s) : s[k] = x
    BY ToSetByIndex
  <2>2. \A x : x \in ToSet(Tail(s)) <=> \E k \in 1..Len(Tail(s)) : Tail(s)[k] = x
    <3>. PICK t : t = Tail(s)
      OBVIOUS
    <3>1. t \in Seq(T)
      BY <1>1
    <3>2. \A x : x \in ToSet(t) <=> \E k \in 1..Len(t) : t[k] = x
      BY <3>1, ToSetByIndex
    <3>. QED  BY <3>2, Zenon
  <2>3. \A x : x \in ToSet(s) <=> x \in ToSet(Tail(s)) \/ x = Head(s)
    BY <1>1, <2>1, <2>2, Zenon
  <2>. QED  BY <2>3, Zenon
<1>3. ASSUME IsInjective(s) PROVE IsInjective(Tail(s)) /\ Head(s) \notin ToSet(Tail(s))
  <2>1. \A k, l \in 1..Len(s) : s[k] = s[l] => k = l
    BY <1>3, ToSetByIndex
  <2>2. \A k, l \in 1..Len(Tail(s)) : Tail(s)[k] = Tail(s)[l] => k = l
    BY <1>1, <2>1
  <2>3. \A k \in 1..Len(Tail(s)) : Tail(s)[k] # Head(s)
    BY <1>1, <2>1
  <2>4. \A x : x \in ToSet(Tail(s)) <=> \E k \in 1..Len(Tail(s)) : Tail(s)[k] = x
    <3>. PICK t : t = Tail(s)
      OBVIOUS
    <3>1. t \in Seq(T)
      BY <1>1
    <3>2. \A x : x \in ToSet(t) <=> \E k \in 1..Len(t) : t[k] = x
      BY <3>1, ToSetByIndex
    <3>. QED  BY <3>2, Zenon
  <2>5. IsInjective(Tail(s))
    BY <1>1, <2>2, ToSetByIndex
  <2>. QED  BY <2>3, <2>4, <2>5, Zenon
<1>. QED  BY <1>1, <1>2, <1>3

\* A list cut in two.
LEMMA SplitMembers ==
    ASSUME NEW T, NEW s \in Seq(T), NEW n \in 0..Len(s)
    PROVE  LET a == SubSeq(s, 1, n)
               b == SubSeq(s, n + 1, Len(s))
           IN  /\ a \in Seq(T) /\ b \in Seq(T) /\ Len(a) = n /\ Len(b) = Len(s) - n
               /\ ToSet(s) = ToSet(a) \cup ToSet(b)
               /\ IsInjective(s) => /\ IsInjective(a) /\ IsInjective(b)
                                    /\ ToSet(a) \cap ToSet(b) = {}
<1> DEFINE a == SubSeq(s, 1, n)
           b == SubSeq(s, n + 1, Len(s))
<1>1. /\ a \in Seq(T) /\ b \in Seq(T) /\ Len(a) = n /\ Len(b) = Len(s) - n /\ Len(s) \in Nat
      /\ \A k \in 1..n : a[k] = s[k] /\ k \in 1..Len(s)
      /\ \A k \in 1..(Len(s) - n) : b[k] = s[n + k] /\ n + k \in 1..Len(s)
      /\ \A k \in 1..Len(s) : k \in 1..n \/ (k - n \in 1..(Len(s) - n) /\ b[k - n] = s[k])
  OBVIOUS
<1>. HIDE DEF a, b
<1>2. /\ \A x : x \in ToSet(a) <=> \E k \in 1..n : a[k] = x
      /\ \A x : x \in ToSet(b) <=> \E k \in 1..(Len(s) - n) : b[k] = x
  <2>1. a \in Seq(T) /\ b \in Seq(T) /\ Len(a) = n /\ Len(b) = Len(s) - n
    BY <1>1
  <2>2. \A x : x \in ToSet(a) <=> \E k \in 1..Len(a) : a[k] = x
    BY <2>1, ToSetByIndex
  <2>3. \A x : x \in ToSet(b) <=> \E k \in 1..Len(b) : b[k] = x
    BY <2>1, ToSetByIndex
  <2>. QED  BY <2>1, <2>2, <2>3
<1>3. ToSet(s) = ToSet(a) \cup ToSet(b)
  <2>1. \A x : x \in ToSet(s) <=> \E k \in 1..Len(s) : s[k] = x
    BY ToSetByIndex
  <2>2. \A k \in 1..Len(s) : k \in 1..n \/ k - n \in 1..(Len(s) - n)
    BY <1>1
  <2>3. ASSUME NEW x \in ToSet(s) PROVE x \in ToSet(a) \/ x \in ToSet(b)
    <3>1. PICK k \in 1..Len(s) : s[k] = x
      BY <2>1
    <3>2. CASE k \in 1..n
      BY <1>1, <1>2, <3>1, <3>2
    <3>3. CASE k \notin 1..n
      <4>1. k - n \in 1..(Len(s) - n) /\ b[k - n] = x
        BY <1>1, <3>1, <3>3
      <4>. QED  BY <1>2, <4>1
    <3>. QED  BY <3>2, <3>3
  <2>4. ASSUME NEW x, x \in ToSet(a) \/ x \in ToSet(b) PROVE x \in ToSet(s)
    <3>1. \A k \in 1..n : a[k] = s[k] /\ k \in 1..Len(s)
      BY <1>1
    <3>2. \A k \in 1..(Len(s) - n) : b[k] = s[n + k] /\ n + k \in 1..Len(s)
      BY <1>1
    <3>. QED  BY <1>2, <2>1, <2>4, <3>1, <3>2, Zenon
  <2>. QED  BY <2>3, <2>4
<1>4. ASSUME IsInjective(s)
      PROVE  IsInjective(a) /\ IsInjective(b) /\ ToSet(a) \cap ToSet(b) = {}
  <2>1. \A k, l \in 1..Len(s) : s[k] = s[l] => k = l
    BY <1>4, ToSetByIndex
  <2>2. \A k, l \in 1..n : a[k] = a[l] => k = l
    BY <1>1, <2>1
  <2>3. \A k, l \in 1..(Len(s) - n) : b[k] = b[l] => k = l
    BY <1>1, <2>1
  <2>4. \A k \in 1..n, l \in 1..(Len(s) - n) : a[k] # b[l]
    BY <1>1, <2>1
  <2>7. ToSet(a) \cap ToSet(b) = {}
    BY <1>2, <2>4, Zenon
  <2>8. IsInjective(a)
    BY <1>1, <2>2, ToSetByIndex
  <2>9. IsInjective(b)
    BY <1>1, <2>3, ToSetByIndex
  <2>. QED  BY <2>7, <2>8, <2>9
<1>. QED  BY <1>1, <1>3, <1>4 DEF a, b

\* Two lists one after the other.
LEMMA ConcatMembers ==
    ASSUME NEW T, NEW s \in Seq(T), NEW t \in Seq(T)
    PROVE  /\ s \o t \in Seq(T) /\ ToSet(s \o t) = ToSet(s) \cup ToSet(t)
           /\ IsInjective(s) /\ IsInjective(t) /\ ToSet(s) \cap ToSet(t) = {} => IsInjective(s \o t)
<1> DEFINE r == s \o t
<1>1. /\ r \in Seq(T) /\ Len(r) = Len(s) + Len(t) /\ Len(s) \in Nat /\ Len(t) \in Nat
      /\ \A k \in 1..Len(s) : r[k] = s[k] /\ k \in 1..Len(r)
      /\ \A k \in 1..Len(t) : r[Len(s) + k] = t[k] /\ Len(s) + k \in 1..Len(r)
      /\ \A k \in 1..Len(r) : k \in 1..Len(s) \/ (k - Len(s) \in 1..Len(t) /\ r[k] = t[k - Len(s)])
  OBVIOUS
<1>. HIDE DEF r
<1>2. ToSet(r) = ToSet(s) \cup ToSet(t)
  <2>1. \A x : x \in ToSet(s) <=> \E k \in 1..Len(s) : s[k] = x
    BY ToSetByIndex
  <2>2. \A x : x \in ToSet(t) <=> \E k \in 1..Len(t) : t[k] = x
    BY ToSetByIndex
  <2>3. \A x : x \in ToSet(r) <=> \E k \in 1..Len(r) : r[k] = x
    BY <1>1, ToSetByIndex
  <2>4. \A x : x \in ToSet(r) <=> x \in ToSet(s) \/ x \in ToSet(t)
    BY <1>1, <2>1, <2>2, <2>3, Zenon
  <2>. QED  BY <2>4, Zenon
<1>3. ASSUME IsInjective(s), IsInjective(t), ToSet(s) \cap ToSet(t) = {} PROVE IsInjective(r)
  <2>1. /\ \A k, l \in 1..Len(s) : s[k] = s[l] => k = l
        /\ \A k, l \in 1..Len(t) : t[k] = t[l] => k = l
    BY <1>3, ToSetByIndex
  <2>2. \A k \in 1..Len(s), l \in 1..Len(t) : s[k] # t[l]
    BY <1>3, ToSetByIndex
  <2>3. ASSUME NEW k \in 1..Len(r), NEW l \in 1..Len(r), r[k] = r[l] PROVE k = l
    <3>1. CASE k \in 1..Len(s) /\ l \in 1..Len(s)
      BY <1>1, <2>1, <2>3, <3>1
    <3>2. CASE k \in 1..Len(s) /\ l \notin 1..Len(s)
      BY <1>1, <2>2, <2>3, <3>2
    <3>3. CASE k \notin 1..Len(s) /\ l \in 1..Len(s)
      BY <1>1, <2>2, <2>3, <3>3
    <3>4. CASE k \notin 1..Len(s) /\ l \notin 1..Len(s)
      <4>1. k - Len(s) = l - Len(s)
        BY <1>1, <2>1, <2>3, <3>4
      <4>. QED  BY <1>1, <4>1
    <3>. QED  BY <3>1, <3>2, <3>3, <3>4
  <2>. QED  BY <1>1, <2>3, ToSetByIndex
<1>. QED  BY <1>1, <1>2, <1>3 DEF r

-----------------------------------------------------------------------------
(* Parts of a text that is on its way.                                     *)

\* A text cut in two, and put together again.
LEMMA CutParts ==
    ASSUME NEW T, NEW q \in Seq(T), NEW n \in 1..Len(q)
    PROVE  /\ SubSeq(q, 1, n) \in Seq(T) /\ Len(SubSeq(q, 1, n)) = n
           /\ SubSeq(q, n + 1, Len(q)) \in Seq(T)
           /\ SubSeq(q, 1, n) \o SubSeq(q, n + 1, Len(q)) = q
<1>1. /\ SubSeq(q, 1, n) \in Seq(T) /\ Len(SubSeq(q, 1, n)) = n
      /\ SubSeq(q, n + 1, Len(q)) \in Seq(T)
  BY SplitMembers
<1>2. SubSeq(q, 1, n) \o SubSeq(q, n + 1, Len(q)) = SubSeq(q, 1, Len(q))
  <2>1. 1 \in 1..(Len(q) + 1) /\ n \in 0..Len(q) /\ Len(q) \in n..Len(q) /\ n \in 1 - 1..Len(q)
    OBVIOUS
  <2>. QED  BY <2>1, ConcatAdjacentSubSeq
<1>3. SubSeq(q, 1, Len(q)) = q
  BY SubSeqFull
<1>. QED  BY <1>1, <1>2, <1>3

\* Moving a part to the end of the part before it changes nothing of the whole.
LEMMA MovePart ==
    ASSUME NEW T
    PROVE  \A x, q, a, b \in Seq(T) : (x \o (q \o a)) \o b = (x \o q) \o (a \o b)
  OBVIOUS

-----------------------------------------------------------------------------
(* epoll's lists.                                                          *)

\* News on a descriptor that is in the list already changes nothing.
LEMMA WokenProperties ==
    ASSUME NEW T, NEW ready \in Seq(T), NEW fd \in T
    PROVE  /\ Woken(ready, fd) \in Seq(T) /\ ToSet(Woken(ready, fd)) = ToSet(ready) \cup {fd}
           /\ IsInjective(ready) => IsInjective(Woken(ready, fd))
  BY AppendMembers DEF Woken

\* A descriptor that is closed is out of the list, and no other is.
LEMMA ForgottenProperties ==
    ASSUME NEW T, NEW ready \in Seq(T), NEW fd
    PROVE  /\ Forgotten(ready, fd) \in Seq(T) /\ ToSet(Forgotten(ready, fd)) = ToSet(ready) \ {fd}
           /\ IsInjective(ready) => IsInjective(Forgotten(ready, fd))
<1>1. Forgotten(ready, fd) \in Seq(T \cap (ToSet(ready) \ {fd}))
  BY FilterProperties DEF Forgotten
<1>2. Forgotten(ready, fd) \in Seq(T)
  BY <1>1
<1>3. /\ ToSet(Forgotten(ready, fd)) = ToSet(ready) \cap (ToSet(ready) \ {fd})
      /\ IsInjective(ready) => IsInjective(Forgotten(ready, fd))
  BY FilterProperties DEF Forgotten
<1>. QED  BY <1>2, <1>3

\* What one epoll_wait reports and what it leaves, of the list of those with
\* news: together they are the list, and a level-triggered one is in both.
LEMMA ReportedProperties ==
    ASSUME NEW T, NEW live \in Seq(T), NEW level, NEW size \in Nat
    PROVE  /\ Reported(live, size) \in Seq(T) /\ Len(Reported(live, size)) <= size
           /\ Requeued(live, level, size) \in Seq(T)
           /\ ToSet(Reported(live, size)) \subseteq ToSet(live)
           /\ ToSet(live) \subseteq ToSet(Reported(live, size)) \cup ToSet(Requeued(live, level, size))
           /\ ToSet(Reported(live, size)) \cap level \subseteq ToSet(Requeued(live, level, size))
           /\ IsInjective(live) => /\ IsInjective(Reported(live, size))
                                   /\ IsInjective(Requeued(live, level, size))
<1> DEFINE a == Reported(live, size)
           b == SubSeq(live, size + 1, Len(live))
           n == IF size <= Len(live) THEN size ELSE Len(live)
<1>1. n \in 0..Len(live) /\ n <= size /\ a = SubSeq(live, 1, n)
  BY MinOfTwo DEF Reported
<1>2. b = SubSeq(live, n + 1, Len(live))
  <2>1. CASE size <= Len(live)
    BY <2>1
  <2>2. CASE ~ (size <= Len(live))
    <3>1. n = Len(live) /\ Len(live) \in Nat
      BY <2>2
    <3>2. b = <<>>
      BY <2>2
    <3>3. SubSeq(live, Len(live) + 1, Len(live)) = <<>>
      OBVIOUS
    <3>. QED  BY <3>1, <3>2, <3>3
  <2>. QED  BY <2>1, <2>2
<1>. HIDE DEF a, b, n
<1>3. /\ a \in Seq(T) /\ b \in Seq(T) /\ Len(a) = n /\ ToSet(live) = ToSet(a) \cup ToSet(b)
      /\ IsInjective(live) => IsInjective(a) /\ IsInjective(b) /\ ToSet(a) \cap ToSet(b) = {}
  BY <1>1, <1>2, SplitMembers
<1> DEFINE f == Filter(a, level)
<1>4. /\ f \in Seq(T) /\ ToSet(f) = ToSet(a) \cap level
      /\ IsInjective(a) => IsInjective(f)
  <2>1. f \in Seq(T \cap level)
    BY <1>3, FilterProperties
  <2>2. f \in Seq(T)
    BY <2>1
  <2>. QED  BY <1>3, <2>2, FilterProperties
<1>5. Requeued(live, level, size) = b \o f
  BY DEF Requeued, a, b
<1>. HIDE DEF f
<1>6. /\ b \o f \in Seq(T) /\ ToSet(b \o f) = ToSet(b) \cup ToSet(f)
      /\ IsInjective(live) => IsInjective(b \o f)
  BY <1>3, <1>4, ConcatMembers
<1>. QED  BY <1>1, <1>3, <1>4, <1>5, <1>6 DEF a

-----------------------------------------------------------------------------
(* Texts joined by FlattenSeq, entry by entry.                            *)

\* What FlattenSeq computes: in flat[n], the text of the first n entries.
Grows(f, q, L) == \A n \in 1..L : f[n] = f[n - 1] \o q[n]
Adds(f, q, n)  == f[n + 1] = f[n] \o q[n + 1]
FlatUpTo(s, flat) == flat[0] = <<>> /\ Grows(flat, s, Len(s))

\* The recursion, from n to its successor.
LEMMA FlatStep ==
    ASSUME NEW f, NEW q, NEW L, Grows(f, q, L)
    PROVE  \A n \in Nat : n + 1 \in 1..L => Adds(f, q, n)
<1>1. ASSUME NEW n \in Nat, n + 1 \in 1..L PROVE Adds(f, q, n)
  <2>1. PICK m \in 1..L : m = n + 1
    BY <1>1
  <2>2. f[m] = f[m - 1] \o q[m]
    BY Zenon DEF Grows
  <2>3. m - 1 = n
    BY <2>1
  <2>4. QED BY <2>1, <2>2, <2>3, Zenon DEF Adds
<1>2. QED BY <1>1

\* The recursion of FlattenSeq defines a function.
LEMMA FlattenRecursion ==
    ASSUME NEW T, NEW s \in Seq(Seq(T))
    PROVE  \E flat \in [0..Len(s) -> Seq(T)] : FlatUpTo(s, flat) /\ FlattenSeq(s) = flat[Len(s)]
<1> DEFINE L == Len(s)
           UpTo(n, g) == g[0] = <<>> /\ \A j \in 1..n : g[j] = g[j - 1] \o s[j]
           G == {n \in 0..L : \E g \in [0..n -> Seq(T)] : UpTo(n, g)}
           Whole(g) == g = [j \in 1..L |-> IF j = 1 THEN s[j] ELSE g[j - 1] \o s[j]]
<1>1. L \in Nat /\ \A n \in 1..L : s[n] \in Seq(T)
  OBVIOUS
<1>2. 0 \in G
  <2>1. PICK g : g = [j \in 0..0 |-> <<>>]
    OBVIOUS
  <2>2. g \in [0..0 -> Seq(T)] /\ UpTo(0, g)
    BY <2>1
  <2>3. 0 \in 0..L
    BY <1>1
  <2> HIDE DEF UpTo, L
  <2>4. QED BY <2>2, <2>3
<1>3. ASSUME NEW n \in 0..(L - 1), n \in G PROVE n + 1 \in G
  <2>1. PICK g \in [0..n -> Seq(T)] : UpTo(n, g)
    BY <1>3
  <2> DEFINE h == [j \in 0..(n + 1) |-> IF j <= n THEN g[j] ELSE g[n] \o s[n + 1]]
  <2>2. n + 1 \in 1..L /\ s[n + 1] \in Seq(T) /\ g[n] \in Seq(T) /\ n \in Nat
    BY <1>1
  <2>3. g[n] \o s[n + 1] \in Seq(T)
    BY <2>2
  <2>4. h \in [0..(n + 1) -> Seq(T)]
    BY <2>3
  <2>5. h[0] = <<>>
    BY <2>1, <2>2
  <2>6. ASSUME NEW j \in 1..(n + 1) PROVE h[j] = h[j - 1] \o s[j]
    <3>1. CASE j <= n
      <4>1. h[j] = g[j] /\ h[j - 1] = g[j - 1] /\ j \in 1..n
        BY <3>1
      <4>2. g[j] = g[j - 1] \o s[j]
        BY <2>1, <4>1, Zenon
      <4>3. QED BY <4>1, <4>2, Zenon
    <3>2. CASE j = n + 1
      <4>1. h[j] = g[n] \o s[n + 1] /\ h[j - 1] = g[n] /\ s[j] = s[n + 1]
        BY <2>2, <3>2
      <4>2. QED BY <4>1, Zenon
    <3>3. j <= n \/ j = n + 1
      BY <2>2
    <3> HIDE DEF h
    <3>4. QED BY <3>1, <3>2, <3>3
  <2>7. UpTo(n + 1, h)
    <3> HIDE DEF h
    <3>1. QED BY <2>5, <2>6
  <2>8. n + 1 \in 0..L
    BY <2>2
  <2> HIDE DEF h, UpTo, L
  <2>9. QED BY <2>4, <2>7, <2>8
<1>4. L \in G
  <2>1. \A n \in 0..L : n \in G
    <3> HIDE DEF G, L
    <3>1. QED BY <1>1, <1>2, <1>3, Induction
  <2>2. L \in 0..L
    BY <1>1
  <2> HIDE DEF G, L
  <2>3. QED BY <2>1, <2>2
<1>5. PICK flat \in [0..L -> Seq(T)] : UpTo(L, flat)
  BY <1>4
<1>6. FlatUpTo(s, flat)
  BY <1>5 DEF FlatUpTo, Grows
<1>7. CASE L = 0
  <2>1. FlattenSeq(s) = s /\ s = <<>>
    BY <1>7 DEF FlattenSeq
  <2>2. QED BY <1>5, <1>6, <1>7, <2>1
<1>8. CASE L # 0
  <2> DEFINE f == [j \in 1..L |-> flat[j]]
  <2>1. ASSUME NEW j \in 1..L PROVE f[j] = IF j = 1 THEN s[j] ELSE f[j - 1] \o s[j]
    <3>1. CASE j = 1
      <4>1. flat[j] = flat[j - 1] \o s[j]
        BY <1>5, Zenon
      <4>2. j - 1 = 0 /\ flat[0] = <<>> /\ f[j] = flat[j] /\ s[j] \in Seq(T)
        BY <1>1, <1>5, <3>1
      <4>3. f[j] = <<>> \o s[j]
        BY <4>1, <4>2, Zenon
      <4>4. <<>> \o s[j] = s[j]
        BY <4>2
      <4>5. f[j] = s[j]
        BY <4>3, <4>4, Zenon
      <4> HIDE DEF f
      <4>6. QED BY <3>1, <4>5
    <3>2. CASE j # 1
      <4>1. flat[j] = flat[j - 1] \o s[j]
        BY <1>5, Zenon
      <4>2. f[j] = flat[j] /\ f[j - 1] = flat[j - 1]
        BY <1>1, <3>2
      <4>3. f[j] = f[j - 1] \o s[j]
        BY <4>1, <4>2, Zenon
      <4> HIDE DEF f
      <4>4. QED BY <3>2, <4>3
    <3> HIDE DEF f
    <3>3. QED BY <3>1, <3>2
  <2>2. Whole(f)
    BY <2>1
  <2> DEFINE w == CHOOSE g : Whole(g)
  <2>3. Whole(w)
    BY <2>2
  <2>4. FlattenSeq(s) = w[L]
    BY <1>8 DEF FlattenSeq
  <2> HIDE DEF w
  <2>5. \A j \in 1..L : w[j] = IF j = 1 THEN s[j] ELSE w[j - 1] \o s[j]
    BY <2>3, Zenon
  <2> DEFINE H == {n \in 0..L : n = 0 \/ w[n] = flat[n]}
  <2>6. 0 \in H
    BY <1>1
  <2>7. ASSUME NEW n \in 0..(L - 1), n \in H PROVE n + 1 \in H
    <3>1. n + 1 \in 1..L /\ n + 1 \in 0..L /\ n + 1 - 1 = n /\ s[n + 1] \in Seq(T)
      BY <1>1
    <3>2. flat[n + 1] = flat[n] \o s[n + 1]
      <4>1. Grows(flat, s, L)
        BY <1>5 DEF Grows
      <4> HIDE DEF L
      <4>2. n \in Nat /\ n + 1 \in 1..L
        BY <1>1, <3>1
      <4>3. Adds(flat, s, n)
        BY <4>1, <4>2, FlatStep
      <4>4. QED BY <4>3 DEF Adds
    <3>3. CASE n = 0
      <4>1. w[n + 1] = s[n + 1] /\ flat[n] = <<>>
        BY <1>5, <2>5, <3>1, <3>3
      <4>2. flat[n + 1] = s[n + 1]
        BY <3>1, <3>2, <4>1
      <4>3. QED BY <3>1, <4>1, <4>2
    <3>4. CASE n # 0
      <4>1. n + 1 # 1
        BY <1>1, <3>4
      <4>2. w[n + 1] = w[n] \o s[n + 1]
        <5>1. PICK m \in 1..L : m = n + 1
          BY <3>1
        <5>2. m # 1 /\ m - 1 = n
          BY <3>1, <4>1, <5>1
        <5>3. w[m] = w[m - 1] \o s[m]
          BY <2>5, <5>2
        <5>4. QED BY <5>1, <5>2, <5>3, Zenon
      <4>3. w[n] = flat[n]
        BY <2>7, <3>4
      <4>4. QED BY <3>1, <3>2, <4>2, <4>3
    <3>5. QED BY <3>3, <3>4
  <2>8. \A n \in 0..L : n \in H
    <3> HIDE DEF H, L
    <3>1. QED BY <1>1, <2>6, <2>7, Induction
  <2>9. w[L] = flat[L]
    BY <1>1, <1>8, <2>8
  <2>10. QED BY <1>6, <2>4, <2>9
<1>9. QED BY <1>7, <1>8

\* FlattenSeq of no texts, and what it returns.
LEMMA FlattenType ==
    ASSUME NEW T
    PROVE  FlattenSeq(<<>>) = <<>> /\ \A s \in Seq(Seq(T)) : FlattenSeq(s) \in Seq(T)
<1>1. FlattenSeq(<<>>) = <<>>
  BY DEF FlattenSeq
<1>2. ASSUME NEW s \in Seq(Seq(T)) PROVE FlattenSeq(s) \in Seq(T)
  <2>1. PICK flat \in [0..Len(s) -> Seq(T)] : FlattenSeq(s) = flat[Len(s)]
    BY FlattenRecursion
  <2>2. Len(s) \in 0..Len(s)
    OBVIOUS
  <2>3. QED BY <2>1, <2>2
<1>3. QED BY <1>1, <1>2

\* One more text comes behind the others.
LEMMA FlattenAppend ==
    ASSUME NEW T, NEW s \in Seq(Seq(T)), NEW e \in Seq(T)
    PROVE  FlattenSeq(Append(s, e)) = FlattenSeq(s) \o e
<1> DEFINE r == Append(s, e)
           L == Len(s)
<1>1. /\ r \in Seq(Seq(T)) /\ Len(r) = L + 1 /\ L \in Nat /\ r[L + 1] = e
      /\ \A n \in 1..L : r[n] = s[n]
  OBVIOUS
<1> HIDE DEF r
<1>2. PICK a \in [0..L -> Seq(T)] : FlatUpTo(s, a) /\ FlattenSeq(s) = a[L]
  BY FlattenRecursion
<1>3. PICK b \in [0..Len(r) -> Seq(T)] : FlatUpTo(r, b) /\ FlattenSeq(r) = b[Len(r)]
  BY <1>1, FlattenRecursion
<1> HIDE DEF L
<1>4. a[0] = <<>> /\ b[0] = <<>> /\ Grows(b, r, L + 1)
  BY <1>1, <1>2, <1>3 DEF FlatUpTo
<1>5. Grows(a, s, L)
  BY <1>2 DEF FlatUpTo, L
<1> DEFINE H == {n \in 0..L : a[n] = b[n]}
<1>6. 0 \in H
  BY <1>1, <1>4
<1>7. ASSUME NEW n \in 0..(L - 1), n \in H PROVE n + 1 \in H
  <2>1. n + 1 \in 1..L /\ n + 1 \in 1..L + 1 /\ n + 1 \in 0..L /\ n + 1 - 1 = n
    BY <1>1
  <2>2. a[n + 1] = a[n] \o s[n + 1] /\ b[n + 1] = b[n] \o r[n + 1]
    <3>1. n \in Nat
      BY <1>1
    <3>2. Adds(a, s, n)
      BY <1>5, <2>1, <3>1, FlatStep
    <3>3. Adds(b, r, n)
      BY <1>4, <2>1, <3>1, FlatStep
    <3>4. QED BY <3>2, <3>3 DEF Adds
  <2>3. a[n] = b[n] /\ r[n + 1] = s[n + 1]
    BY <1>1, <1>7, <2>1
  <2>4. QED BY <2>1, <2>2, <2>3
<1>8. \A n \in 0..L : n \in H
  <2> HIDE DEF H
  <2>1. QED BY <1>1, <1>6, <1>7, Induction
<1>9. L \in 0..L /\ L + 1 \in 1..L + 1 /\ L + 1 - 1 = L
  BY <1>1
<1>10. a[L] = b[L] /\ b[L + 1] = b[L] \o r[L + 1]
  <2>1. a[L] = b[L]
    BY <1>8, <1>9
  <2>2. Adds(b, r, L)
    BY <1>1, <1>4, <1>9, FlatStep
  <2>3. QED BY <2>1, <2>2 DEF Adds
<1>11. FlattenSeq(r) = FlattenSeq(s) \o e
  BY <1>1, <1>2, <1>3, <1>10
<1>12. QED BY <1>11 DEF r

\* The first text comes before what the others make.
LEMMA FlattenTail ==
    ASSUME NEW T, NEW s \in Seq(Seq(T)), s # <<>>
    PROVE  FlattenSeq(s) = Head(s) \o FlattenSeq(Tail(s))
<1> DEFINE r == Tail(s)
           L == Len(r)
           h == Head(s)
<1>1. /\ r \in Seq(Seq(T)) /\ Len(s) = L + 1 /\ L \in Nat /\ h \in Seq(T) /\ s[1] = h
      /\ \A n \in 1..L : r[n] = s[n + 1] /\ r[n] \in Seq(T)
  OBVIOUS
<1> HIDE DEF r, h
<1>2. PICK a \in [0..Len(s) -> Seq(T)] : FlatUpTo(s, a) /\ FlattenSeq(s) = a[Len(s)]
  BY FlattenRecursion
<1>3. PICK b \in [0..L -> Seq(T)] : FlatUpTo(r, b) /\ FlattenSeq(r) = b[L]
  BY <1>1, FlattenRecursion
<1>4. Grows(b, r, L)
  BY <1>3 DEF FlatUpTo
<1> HIDE DEF L
<1>5. a[0] = <<>> /\ b[0] = <<>> /\ Grows(a, s, L + 1)
  BY <1>1, <1>2, <1>3 DEF FlatUpTo
<1> DEFINE H == {n \in 0..L : a[n + 1] = h \o b[n]}
<1>6. 0 \in H
  <2>1. 1 \in 1..L + 1 /\ 1 - 1 = 0 /\ 0 \in 0..L
    BY <1>1
  <2>2. a[1] = <<>> \o h
    <3>1. a[1] = a[1 - 1] \o s[1]
      BY <1>5, <2>1, Zenon DEF Grows
    <3>2. QED BY <1>1, <1>5, <2>1, <3>1, Zenon
  <2>3. <<>> \o h = h \o <<>>
    BY <1>1
  <2>4. a[1] = h \o b[0]
    BY <1>5, <2>2, <2>3, Zenon
  <2>5. 0 + 1 = 1
    OBVIOUS
  <2>6. QED BY <2>1, <2>4, <2>5
<1>7. ASSUME NEW n \in 0..(L - 1), n \in H PROVE n + 1 \in H
  <2>1. /\ n + 1 \in 1..L /\ n + 2 \in 1..L + 1 /\ n + 1 \in 0..L /\ n + 1 - 1 = n /\ n + 2 - 1 = n + 1
        /\ n + 1 + 1 = n + 2 /\ n \in 0..L
    BY <1>1
  <2>2. a[n + 2] = a[n + 1] \o s[n + 2]
    <3>1. n + 1 \in Nat /\ n + 1 + 1 \in 1..L + 1
      BY <1>1, <2>1
    <3>2. Adds(a, s, n + 1)
      BY <1>5, <3>1, FlatStep
    <3>3. QED BY <2>1, <3>2 DEF Adds
  <2>3. b[n + 1] = b[n] \o r[n + 1]
    <3>1. n \in Nat
      BY <1>1
    <3>2. Adds(b, r, n)
      BY <1>4, <2>1, <3>1, FlatStep
    <3>3. QED BY <3>2 DEF Adds
  <2>4. a[n + 1] = h \o b[n] /\ r[n + 1] = s[n + 2]
    BY <1>1, <1>7, <2>1
  <2>5. b[n] \in Seq(T) /\ r[n + 1] \in Seq(T)
    BY <1>1, <1>3, <2>1
  <2>6. \A x, y, z \in Seq(T) : (x \o y) \o z = x \o (y \o z)
    OBVIOUS
  <2>7. (h \o b[n]) \o r[n + 1] = h \o (b[n] \o r[n + 1])
    BY <1>1, <2>5, <2>6
  <2>8. a[n + 1 + 1] = h \o b[n + 1]
    BY <2>1, <2>2, <2>3, <2>4, <2>7
  <2>9. QED BY <2>1, <2>8
<1>8. \A n \in 0..L : n \in H
  <2> HIDE DEF H
  <2>1. QED BY <1>1, <1>6, <1>7, Induction
<1>9. a[L + 1] = h \o b[L]
  BY <1>1, <1>8
<1>10. FlattenSeq(s) = h \o FlattenSeq(r)
  BY <1>1, <1>2, <1>3, <1>9
<1>11. QED BY <1>10 DEF r, h

-----------------------------------------------------------------------------
(* Lists made from another by losing, copying or moving entries.           *)

\* t has entries of s only; each at most once; in their order.
Among(t, s) == \A n \in DOMAIN t : \E l \in DOMAIN s : t[n] = s[l]
Keeps(t, s) ==
    \E f \in [DOMAIN t -> DOMAIN s] : /\ \A n, l \in DOMAIN t : f[n] = f[l] => n = l
                                      /\ \A n \in DOMAIN t : t[n] = s[f[n]]
KeepsOrder(t, s) ==
    \E f \in [DOMAIN t -> DOMAIN s] : /\ \A n, l \in DOMAIN t : n < l => f[n] < f[l]
                                      /\ \A n \in DOMAIN t : t[n] = s[f[n]]

LEMMA KeepsMore ==
    ASSUME NEW C, NEW s \in Seq(C), NEW t \in Seq(C)
    PROVE  (KeepsOrder(t, s) => Keeps(t, s)) /\ (Keeps(t, s) => Among(t, s))
<1>1. ASSUME KeepsOrder(t, s) PROVE Keeps(t, s)
  <2>1. PICK f \in [DOMAIN t -> DOMAIN s] : /\ \A n, l \in DOMAIN t : n < l => f[n] < f[l]
                                            /\ \A n \in DOMAIN t : t[n] = s[f[n]]
    BY <1>1 DEF KeepsOrder
  <2>2. ASSUME NEW n \in DOMAIN t, NEW l \in DOMAIN t, f[n] = f[l] PROVE n = l
    <3>1. n \in Nat /\ l \in Nat /\ f[n] \in Nat /\ f[l] \in Nat
      OBVIOUS
    <3>2. ~(n < l) /\ ~(l < n)
      BY <2>1, <2>2, <3>1
    <3>3. QED BY <3>1, <3>2
  <2>3. QED BY <2>1, <2>2 DEF Keeps
<1>2. ASSUME Keeps(t, s) PROVE Among(t, s)
  BY <1>2 DEF Keeps, Among
<1>3. QED BY <1>1, <1>2

\* A datagram that is taken, lost, late.
LEMMA TailKeeps ==
    ASSUME NEW C, NEW s \in Seq(C), s # <<>> PROVE Tail(s) \in Seq(C) /\ KeepsOrder(Tail(s), s)
<1> DEFINE f == [n \in DOMAIN Tail(s) |-> n + 1]
<1>1. f \in [DOMAIN Tail(s) -> DOMAIN s] /\ \A n \in DOMAIN Tail(s) : f[n] = n + 1 /\ Tail(s)[n] = s[n + 1]
  OBVIOUS
<1>2. \A n, l \in DOMAIN Tail(s) : n < l => f[n] < f[l]
  OBVIOUS
<1>3. Tail(s) \in Seq(C) /\ \A n \in DOMAIN Tail(s) : Tail(s)[n] = s[f[n]]
  BY <1>1
<1> HIDE DEF f
<1>4. QED BY <1>1, <1>2, <1>3 DEF KeepsOrder

LEMMA RemoveKeeps ==
    ASSUME NEW C, NEW s \in Seq(C), NEW k \in DOMAIN s
    PROVE  RemoveAt(s, k) \in Seq(C) /\ KeepsOrder(RemoveAt(s, k), s)
<1> DEFINE a == SubSeq(s, 1, k - 1)
           b == SubSeq(s, k + 1, Len(s))
           t == a \o b
           f == [n \in DOMAIN t |-> IF n < k THEN n ELSE n + 1]
<1>1. k \in 1..Len(s) /\ Len(s) \in Nat
  OBVIOUS
<1>2. /\ a \in Seq(C) /\ Len(a) = k - 1 /\ b \in Seq(C) /\ Len(b) = Len(s) - k
      /\ \A n \in 1..k - 1 : a[n] = s[n]
      /\ \A n \in 1..Len(s) - k : b[n] = s[n + k]
  BY <1>1
<1> HIDE DEF a, b
<1>3. t \in Seq(C) /\ Len(t) = Len(s) - 1
      /\ \A n \in 1..Len(s) - 1 : t[n] = IF n < k THEN a[n] ELSE b[n - (k - 1)]
  <2>0. a \in Seq(C) /\ b \in Seq(C)
    BY <1>2
  <2>1. t \in Seq(C) /\ Len(t) = Len(a) + Len(b)
        /\ \A n \in 1..Len(a) + Len(b) : t[n] = IF n <= Len(a) THEN a[n] ELSE b[n - Len(a)]
    BY <2>0
  <2>2. Len(a) + Len(b) = Len(s) - 1 /\ \A n \in 1..Len(s) - 1 : n <= Len(a) <=> n < k
    BY <1>1, <1>2
  <2>3. QED BY <1>2, <2>1, <2>2
<1>4. ASSUME NEW n \in 1..Len(s) - 1 PROVE t[n] = s[IF n < k THEN n ELSE n + 1]
  <2>1. CASE n < k
    BY <1>1, <1>2, <1>3, <2>1
  <2>2. CASE ~(n < k)
    <3>1. n - (k - 1) \in 1..Len(s) - k /\ n - (k - 1) + k = n + 1
      BY <1>1, <2>2
    <3>2. QED BY <1>2, <1>3, <2>2, <3>1
  <2>3. QED BY <2>1, <2>2
<1>5. DOMAIN t = 1..Len(s) - 1 /\ DOMAIN s = 1..Len(s)
  BY <1>3
<1> HIDE DEF t
<1>6. f \in [DOMAIN t -> DOMAIN s] /\ \A n \in DOMAIN t : t[n] = s[f[n]]
  BY <1>1, <1>4, <1>5
<1>7. \A n, l \in DOMAIN t : n < l => f[n] < f[l]
  BY <1>1, <1>5
<1>8. RemoveAt(s, k) = t
  BY DEF RemoveAt, t, a, b
<1>9. KeepsOrder(t, s)
  <2> HIDE DEF f
  <2>1. QED BY <1>6, <1>7 DEF KeepsOrder
<1>10. QED BY <1>3, <1>8, <1>9

LEMMA LateKeeps ==
    ASSUME NEW C, NEW s \in Seq(C), s # <<>>
    PROVE  Append(Tail(s), Head(s)) \in Seq(C) /\ Keeps(Append(Tail(s), Head(s)), s)
<1> DEFINE t == Append(Tail(s), Head(s))
           f == [n \in DOMAIN t |-> IF n = Len(s) THEN 1 ELSE n + 1]
<1>1. t \in Seq(C) /\ Len(t) = Len(s) /\ DOMAIN t = 1..Len(s) /\ DOMAIN s = 1..Len(s)
      /\ Len(s) \in Nat \ {0}
  OBVIOUS
<1>2. \A n \in 1..Len(s) : t[n] = IF n = Len(s) THEN s[1] ELSE s[n + 1]
  OBVIOUS
<1> HIDE DEF t
<1>3. f \in [DOMAIN t -> DOMAIN s] /\ \A n \in DOMAIN t : t[n] = s[f[n]]
  <2> DEFINE L == Len(s)
  <2>1. L \in Nat \ {0}
    BY <1>1
  <2> HIDE DEF L
  <2>2. \A n \in 1..L : (IF n = L THEN 1 ELSE n + 1) \in 1..L
    BY <2>1
  <2>3. QED BY <1>1, <1>2, <2>2 DEF L
<1>4. \A n, l \in DOMAIN t : f[n] = f[l] => n = l
  BY <1>1
<1>5. QED
  <2> HIDE DEF f
  <2>1. Keeps(t, s)
    BY <1>3, <1>4 DEF Keeps
  <2>2. QED BY <1>1, <2>1 DEF t

LEMMA CopyAmong ==
    ASSUME NEW C, NEW s \in Seq(C), s # <<>>
    PROVE  Append(s, Head(s)) \in Seq(C) /\ Among(Append(s, Head(s)), s)
<1>1. Append(s, Head(s)) \in Seq(C) /\ DOMAIN Append(s, Head(s)) = 1..Len(s) + 1
  OBVIOUS
<1>2. \A n \in 1..Len(s) + 1 : Append(s, Head(s))[n] = IF n = Len(s) + 1 THEN s[1] ELSE s[n]
  OBVIOUS
<1>3. QED BY <1>1, <1>2 DEF Among

\* What is said of all entries of s, of its length and of pairs of entries
\* remains true of t.
LEMMA KeptFew ==
    ASSUME NEW C, NEW s \in Seq(C), NEW t \in Seq(C), Keeps(t, s)
    PROVE  (Len(s) <= 1 => Len(t) <= 1) /\ (s = <<>> => t = <<>>)
<1>1. PICK f \in [DOMAIN t -> DOMAIN s] : \A n, l \in DOMAIN t : f[n] = f[l] => n = l
  BY DEF Keeps
<1>2. ASSUME Len(s) <= 1, ~(Len(t) <= 1) PROVE FALSE
  <2>1. 1 \in DOMAIN t /\ 2 \in DOMAIN t
    BY <1>2
  <2>2. f[1] = 1 /\ f[2] = 1
    BY <1>2, <2>1
  <2>3. QED BY <1>1, <2>1, <2>2
<1>3. ASSUME s = <<>>, t # <<>> PROVE FALSE
  <2>1. 1 \in DOMAIN t
    BY <1>3
  <2>2. f[1] \in DOMAIN s
    BY <2>1
  <2>3. QED BY <1>3, <2>2
<1>4. QED BY <1>2, <1>3

-----------------------------------------------------------------------------
(* Lists put together.                                                     *)

LEMMA JoinParts ==
    ASSUME NEW C, NEW p \in Seq(C), NEW q \in Seq(C)
    PROVE  /\ p \o q \in Seq(C) /\ Len(p \o q) = Len(p) + Len(q)
           /\ \A n \in 1..Len(p) + Len(q) :
                 (p \o q)[n] = IF n <= Len(p) THEN p[n] ELSE q[n - Len(p)]
OBVIOUS

LEMMA OneMore ==
    ASSUME NEW C, NEW p \in Seq(C), NEW c \in C
    PROVE  /\ p \o <<c>> \in Seq(C) /\ Len(p \o <<c>>) = Len(p) + 1
           /\ \A n \in 1..Len(p) : (p \o <<c>>)[n] = p[n]
           /\ (p \o <<c>>)[Len(p) + 1] = c
<1> DEFINE q == <<c>>
<1>1. q \in Seq(C) /\ Len(q) = 1 /\ q[1] = c
  OBVIOUS
<1> HIDE DEF q
<1> DEFINE t == p \o q
<1>2. /\ t \in Seq(C) /\ Len(t) = Len(p) + Len(q)
      /\ \A n \in 1..Len(p) + Len(q) : t[n] = IF n <= Len(p) THEN p[n] ELSE q[n - Len(p)]
  BY <1>1, JoinParts
<1> HIDE DEF t
<1>3. /\ t \in Seq(C) /\ Len(t) = Len(p) + 1
      /\ \A n \in 1..Len(p) : t[n] = p[n]
      /\ t[Len(p) + 1] = c
  BY <1>1, <1>2
<1>4. QED BY <1>3 DEF t, q

\* The short ones, entry by entry.
LEMMA Short ==
    \A x, y : /\ <<>> \o <<x>> = <<x>> /\ Append(<<>>, x) = <<x>>
              /\ <<x>> \o <<y>> = <<x, y>> /\ Append(<<x>>, y) = <<x, y>>
<1> SUFFICES ASSUME NEW x, NEW y
             PROVE  /\ <<>> \o <<x>> = <<x>> /\ Append(<<>>, x) = <<x>>
                    /\ <<x>> \o <<y>> = <<x, y>> /\ Append(<<x>>, y) = <<x, y>>
  OBVIOUS
<1>1. \A C : \A s \in Seq(C), c \in C : Append(s, c) = s \o <<c>> /\ <<>> \o s = s
  OBVIOUS
<1>2. x \in {x, y} /\ y \in {x, y} /\ <<>> \in Seq({x, y}) /\ <<x>> \in Seq({x, y})
  OBVIOUS
<1>3. <<x>> \o <<y>> = <<x, y>>
  <2> DEFINE p == <<x>>
             s == p \o <<y>>
  <2>1. p \in Seq({x, y}) /\ Len(p) = 1 /\ p[1] = x
    OBVIOUS
  <2> HIDE DEF p
  <2>2. s \in Seq({x, y}) /\ Len(s) = Len(p) + 1 /\ (\A n \in 1..Len(p) : s[n] = p[n]) /\ s[Len(p) + 1] = y
    BY <1>2, <2>1, OneMore
  <2> HIDE DEF s
  <2>3. s \in Seq({x, y}) /\ Len(s) = 2 /\ s[1] = x /\ s[2] = y
    BY <2>1, <2>2
  <2>4. \A C : \A u \in Seq(C) : Len(u) = 2 => u = <<u[1], u[2]>>
    OBVIOUS
  <2>5. s = <<x, y>>
    BY <2>3, <2>4
  <2>6. QED BY <2>5 DEF s, p
<1>4. QED BY <1>1, <1>2, <1>3, Zenon
=============================================================================
