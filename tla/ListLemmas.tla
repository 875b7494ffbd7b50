----------------------------- MODULE ListLemmas -----------------------------
(***************************************************************************)
(* Facts about the operators of module RtList, and about appending to a    *)
(* sequence, in terms of its elements and of their order; induction, and   *)
(* sums.                                                                   *)
(***************************************************************************)
EXTENDS RtList, FiniteSetTheorems, SequenceTheorems, WellFoundedInduction, TLAPS

(* A sequence without repetitions, and what Without leaves of it.          *)
NoRepeat(s) == \A i, j \in DOMAIN s : s[i] = s[j] => i = j

(* A sequence without t has the other elements in the same order; the first *)
(* one stays unless it was t.                                              *)
LEMMA WithoutFacts ==
  ASSUME NEW T, NEW s \in Seq(T), NEW t, NoRepeat(s)
  PROVE  /\ Without(s, t) \in Seq(T)
         /\ Elements(Without(s, t)) = Elements(s) \ {t}
         /\ NoRepeat(Without(s, t))
         /\ s # << >> /\ s[1] # t => Without(s, t) # << >> /\ Without(s, t)[1] = s[1]
<1>1. CASE t \notin Elements(s)
  BY <1>1 DEF Without, Elements, NoRepeat
<1>2. CASE t \in Elements(s)
  <2> DEFINE at == CHOOSE i \in DOMAIN s : s[i] = t
             r  == [i \in 1 .. Len(s) - 1 |-> IF i < at THEN s[i] ELSE s[i + 1]]
  <2>1. at \in 1 .. Len(s) /\ s[at] = t
    BY <1>2 DEF Elements
  <2>2. Without(s, t) = r
    BY <1>2 DEF Without
  <2>3. Len(s) - 1 \in Nat
    BY <2>1
  <2> HIDE DEF at
  <2>4. r \in Seq(T) /\ Len(r) = Len(s) - 1 /\ DOMAIN r = 1 .. Len(s) - 1
    BY <2>1, <2>3
  <2>5. \A i \in DOMAIN r : r[i] # t /\ r[i] \in Elements(s)
    BY <2>1, <2>4 DEF NoRepeat, Elements
  <2>6. ASSUME NEW i \in 1 .. Len(s), s[i] # t
        PROVE  \E j \in DOMAIN r : r[j] = s[i]
    <3>1. CASE i < at
      BY <3>1, <2>1, <2>4
    <3>2. CASE i > at
      <4>1. i - 1 \in DOMAIN r /\ r[i - 1] = s[i]
        BY <3>2, <2>1, <2>4
      <4> QED BY <4>1
    <3> QED BY <3>1, <3>2, <2>1, <2>6
  <2>7. Elements(r) = Elements(s) \ {t}
    <3>1. Elements(r) = {r[i] : i \in DOMAIN r} /\ Elements(s) = {s[i] : i \in 1 .. Len(s)}
      BY <2>4 DEF Elements
    <3>2. ASSUME NEW e \in Elements(r) PROVE e \in Elements(s) \ {t}
      BY ONLY <2>5, <3>1, <3>2
    <3>3. ASSUME NEW e \in Elements(s) \ {t} PROVE e \in Elements(r)
      <4>1. PICK i \in 1 .. Len(s) : s[i] = e
        BY ONLY <3>1, <3>3
      <4>2. PICK j \in DOMAIN r : r[j] = e
        BY <2>6, <3>3, <4>1
      <4> QED BY ONLY <3>1, <4>2
    <3> QED BY <3>2, <3>3
  <2>8. NoRepeat(r)
    BY <2>1, <2>4 DEF NoRepeat
  <2>9. ASSUME s[1] # t
        PROVE  r # << >> /\ r[1] = s[1]
    <3>1. at > 1 /\ 1 \in DOMAIN r
      BY <2>1, <2>4, <2>9
    <3>2. r[1] = s[1]
      BY <3>1, <2>1, <2>4
    <3> HIDE DEF r
    <3>3. r # << >>
      BY <3>1, <2>4
    <3> QED BY <3>2, <3>3
  <2> QED BY <2>2, <2>4, <2>7, <2>8, <2>9
<1> QED BY <1>1, <1>2

(* Appending t to a sequence adds it behind the first element.             *)
LEMMA AppendFacts ==
  ASSUME NEW T, NEW s \in Seq(T), NEW t \in T
  PROVE  /\ Append(s, t) \in Seq(T) /\ Append(s, t) # << >>
         /\ Elements(Append(s, t)) = Elements(s) \cup {t}
         /\ NoRepeat(s) /\ t \notin Elements(s) => NoRepeat(Append(s, t))
         /\ s # << >> => Append(s, t)[1] = s[1]
<1>1. /\ Len(Append(s, t)) = Len(s) + 1
      /\ DOMAIN Append(s, t) = 1 .. Len(s) + 1
      /\ \A i \in 1 .. Len(s) : Append(s, t)[i] = s[i]
      /\ Append(s, t)[Len(s) + 1] = t
  OBVIOUS
<1>2. Elements(Append(s, t)) = Elements(s) \cup {t}
  BY <1>1 DEF Elements
<1>3. NoRepeat(s) /\ t \notin Elements(s) => NoRepeat(Append(s, t))
  BY <1>1 DEF Elements, NoRepeat
<1>4. s # << >> => Append(s, t)[1] = s[1]
  BY <1>1
<1>5. Append(s, t) \in Seq(T) /\ Len(<< >>) = 0
  BY AppendProperties, EmptySeq
<1>6. Append(s, t) # << >>
  BY <1>1, <1>5, LenProperties
<1> QED BY <1>2, <1>3, <1>4, <1>5, <1>6

(* The last element is the one that has been appended, and no other is.    *)
LEMMA AppendLast ==
  ASSUME NEW T, NEW s \in Seq(T), NEW t \in T, t \notin Elements(s),
         NEW r, r = Append(s, t)
  PROVE  /\ r # << >> /\ r[Len(r)] = t
         /\ \A i \in 1 .. Len(r) - 1 : r[i] # t
         /\ Without(r, t) = s
<1>1. /\ Len(s) \in Nat /\ Len(r) = Len(s) + 1 /\ DOMAIN s = 1 .. Len(s)
      /\ DOMAIN r = 1 .. Len(s) + 1 /\ r # << >>
  BY LenProperties, AppendFacts
<1>2. r[Len(s) + 1] = t /\ \A i \in 1 .. Len(s) : r[i] = s[i]
  BY AppendProperties
<1>3. \A i \in 1 .. Len(s) : r[i] # t
  BY <1>1, <1>2 DEF Elements
<1>4. Len(s) + 1 \in DOMAIN r /\ t \in Elements(r)
  BY <1>1, <1>2 DEF Elements
<1> DEFINE at == CHOOSE i \in DOMAIN r : r[i] = t
<1>5. Without(r, t) = [i \in 1 .. Len(r) - 1 |-> IF i < at THEN r[i] ELSE r[i + 1]]
  BY <1>4 DEF Without
<1>6. at = Len(s) + 1
  <2>1. r[Len(s) + 1] = t
    BY <1>2
  <2>2. \A i \in DOMAIN r : r[i] = t => i = Len(s) + 1
    BY <1>1, <1>3
  <2> QED BY <1>4, <2>1, <2>2
<1> HIDE DEF at
<1>7. Without(r, t) = [i \in 1 .. Len(s) |-> s[i]]
  BY <1>1, <1>2, <1>5, <1>6
<1>8. s = [i \in 1 .. Len(s) |-> s[i]]
  BY <1>1
<1> QED BY <1>1, <1>2, <1>3, <1>7, <1>8

(* Putting t in front of a sequence adds one element.                      *)
LEMMA ConsFacts ==
  ASSUME NEW T, NEW s \in Seq(T), NEW t \in T
  PROVE  /\ <<t>> \o s \in Seq(T)
         /\ Elements(<<t>> \o s) = Elements(s) \cup {t}
         /\ NoRepeat(s) /\ t \notin Elements(s) => NoRepeat(<<t>> \o s)
<1> DEFINE r == <<t>> \o s
<1>1. /\ Len(r) = Len(s) + 1 /\ r \in Seq(T) /\ r[1] = t
      /\ \A i \in 1 .. Len(s) : r[i + 1] = s[i]
  OBVIOUS
<1> HIDE DEF r
<1>2. DOMAIN r = 1 .. Len(s) + 1 /\ DOMAIN s = 1 .. Len(s) /\ Len(s) \in Nat
  BY <1>1, LenProperties
<1>3. \A i \in DOMAIN r : i = 1 \/ (i - 1 \in DOMAIN s /\ r[i] = s[i - 1])
  BY <1>1, <1>2
<1>4. \A i \in DOMAIN s : i + 1 \in DOMAIN r /\ r[i + 1] = s[i]
  BY <1>1, <1>2
<1>5. 1 \in DOMAIN r
  BY <1>2
<1>6. Elements(r) = Elements(s) \cup {t}
  <2>1. ASSUME NEW i \in DOMAIN r PROVE r[i] \in Elements(s) \cup {t}
    BY <1>1, <1>3, <2>1 DEF Elements
  <2>2. ASSUME NEW i \in DOMAIN s PROVE s[i] \in Elements(r)
    BY <1>4, <2>2 DEF Elements
  <2>3. t \in Elements(r)
    BY <1>1, <1>5 DEF Elements
  <2>4. Elements(r) \subseteq Elements(s) \cup {t}
    BY <2>1 DEF Elements
  <2>5. Elements(s) \subseteq Elements(r)
    BY <2>2 DEF Elements
  <2> QED BY <2>3, <2>4, <2>5
<1>7. ASSUME NoRepeat(s), t \notin Elements(s), NEW i \in DOMAIN r, NEW j \in DOMAIN r,
             r[i] = r[j]
      PROVE  i = j
  BY <1>1, <1>2, <1>3, <1>7 DEF Elements, NoRepeat
<1> QED BY <1>1, <1>6, <1>7 DEF r, NoRepeat

(* A sequence is empty when it has no elements, and starts with one of them *)
(* when it is not.                                                         *)
LEMMA EmptyElements ==
  ASSUME NEW T, NEW s \in Seq(T)
  PROVE  /\ s = << >> <=> Elements(s) = {}
         /\ s # << >> => Head(s) = s[1] /\ s[1] \in Elements(s)
         /\ Elements(s) \subseteq T
<1>1. Len(s) \in Nat /\ DOMAIN s = 1 .. Len(s) /\ s \in [1 .. Len(s) -> T]
  BY LenProperties
<1>2. s # << >> => Len(s) \in Nat \ {0}
  BY EmptySeq
<1>3. s # << >> => Head(s) = s[1] /\ 1 \in DOMAIN s
  BY <1>1, <1>2
<1>4. s = << >> => Elements(s) = {}
  BY DEF Elements
<1>5. s # << >> => s[1] \in Elements(s)
  BY <1>3 DEF Elements
<1>6. Elements(s) \subseteq T
  BY <1>1 DEF Elements
<1> QED BY <1>3, <1>4, <1>5, <1>6

(* What is left after a removal is in the order in which it was.           *)
LEMMA WithoutOrder ==
  ASSUME NEW T, NEW s \in Seq(T), NEW t, NoRepeat(s), NEW r, r = Without(s, t),
         NEW i \in DOMAIN r, NEW j \in DOMAIN r, i < j
  PROVE  \E a, b \in DOMAIN s : a < b /\ s[a] = r[i] /\ s[b] = r[j]
<1>1. CASE t \notin Elements(s)
  BY <1>1 DEF Without
<1>2. CASE t \in Elements(s)
  <2> DEFINE at == CHOOSE k \in DOMAIN s : s[k] = t
             to(k) == IF k < at THEN k ELSE k + 1
  <2>1. at \in 1 .. Len(s) /\ DOMAIN s = 1 .. Len(s) /\ Len(s) \in Nat
    BY <1>2, LenProperties DEF Elements
  <2>2. r = [k \in 1 .. Len(s) - 1 |-> IF k < at THEN s[k] ELSE s[k + 1]]
    BY <1>2 DEF Without
  <2> HIDE DEF at
  <2>3. to(i) \in DOMAIN s /\ to(j) \in DOMAIN s /\ to(i) < to(j)
    BY <2>1, <2>2
  <2>4. s[to(i)] = r[i] /\ s[to(j)] = r[j]
    BY <2>1, <2>2
  <2> QED BY <2>3, <2>4
<1> QED BY <1>1, <1>2

(* An insertion at place p moves what was at p and behind it by one place. *)
LEMMA InsertAtFacts ==
  ASSUME NEW T, NEW s \in Seq(T), NEW t \in T, NEW p \in 1 .. Len(s) + 1,
         NEW r, r = InsertAt(s, p, t)
  PROVE  /\ r \in Seq(T) /\ r[p] = t /\ p \in DOMAIN r
         /\ \A i \in DOMAIN r : i < p => i \in DOMAIN s /\ r[i] = s[i]
         /\ \A i \in DOMAIN r : i > p => i - 1 \in DOMAIN s /\ r[i] = s[i - 1]
         /\ Elements(r) = Elements(s) \cup {t}
<1>1. Len(s) \in Nat /\ DOMAIN s = 1 .. Len(s) /\ \A i \in 1 .. Len(s) : s[i] \in T
  BY LenProperties
<1>2. /\ DOMAIN r = 1 .. Len(s) + 1 /\ r[p] = t
      /\ \A i \in DOMAIN r : i < p => i \in DOMAIN s /\ r[i] = s[i]
      /\ \A i \in DOMAIN r : i > p => i - 1 \in DOMAIN s /\ r[i] = s[i - 1]
  BY <1>1 DEF InsertAt
<1>3. r \in Seq(T)
  <2>1. \A i \in 1 .. Len(s) + 1 : r[i] \in T
    BY <1>1, <1>2
  <2>2. r = [i \in 1 .. Len(s) + 1 |-> r[i]]
    BY DEF InsertAt
  <2>3. Len(s) + 1 \in Nat
    BY <1>1
  <2> QED BY <2>1, <2>2, <2>3, IsASeq
<1>4. \A i \in DOMAIN r : r[i] \in Elements(s) \cup {t}
  BY <1>1, <1>2 DEF Elements
<1>5. ASSUME NEW i \in DOMAIN s PROVE s[i] \in Elements(r)
  <2>1. CASE i < p
    <3>1. i \in DOMAIN r /\ r[i] = s[i]
      BY <1>1, <1>2, <2>1
    <3> QED BY <3>1 DEF Elements
  <2>2. CASE i >= p
    <3>1. i + 1 \in DOMAIN r /\ i + 1 > p /\ (i + 1) - 1 = i
      BY <1>1, <1>2, <2>2
    <3>2. r[i + 1] = s[i]
      BY <1>2, <3>1
    <3> QED BY <3>1, <3>2 DEF Elements
  <2> QED BY <1>1, <2>1, <2>2
<1>6. Elements(r) = Elements(s) \cup {t}
  BY <1>2, <1>4, <1>5 DEF Elements
<1> QED BY <1>2, <1>3, <1>6

(* A set of numbers has a least one.                                       *)
LEMMA LeastElement ==
  ASSUME NEW S, S \subseteq Nat, S # {}
  PROVE  \E n \in S : \A k \in S : n <= k
<1> DEFINE R == OpToRel(<, Nat)
<1>1. IsWellFoundedOn(R, Nat)
  BY NatLessThanWellFounded
<1>2. PICK n \in S : \A k \in S : ~ (<<k, n>> \in R)
  <2> HIDE DEF R
  <2> QED BY <1>1, WFMin
<1>3. ASSUME NEW k \in S, ~ (n <= k) PROVE <<k, n>> \in R
  <2>1. k \in Nat /\ n \in Nat /\ k < n
    BY <1>3
  <2>2. <<k, n>> \in Nat \X Nat /\ <<k, n>>[1] < <<k, n>>[2]
    BY <2>1
  <2> QED BY ONLY <2>2 DEF OpToRel
<1> QED BY <1>2, <1>3

-----------------------------------------------------------------------------
(* Recursive functions on Nat.                                             *)

(* Induction over Nat, for the set of the numbers that have a property.    *)
LEMMA SetInduction ==
  ASSUME NEW S, S \subseteq Nat, 0 \in S, \A n \in S : n + 1 \in S
  PROVE  S = Nat
<1> SUFFICES ASSUME Nat \ S # {} PROVE FALSE
  OBVIOUS
<1> DEFINE R == Nat \ S
<1>1. PICK n \in R : \A i \in R : n <= i
  <2>1. R \subseteq Nat /\ R # {}
    OBVIOUS
  <2> QED BY <2>1, LeastElement
<1>2. n \in Nat /\ n # 0 /\ n \notin S
  BY <1>1
<1>3. n - 1 \in Nat /\ ~ (n <= n - 1) /\ (n - 1) + 1 = n
  BY <1>2
<1>4. n - 1 \in S
  BY <1>1, <1>3
<1>5. (n - 1) + 1 \in S
  BY <1>4
<1> QED BY <1>2, <1>3, <1>5

(* A set of pairs that holds the graph of the iteration of f from x        *)
LOCAL IterateGraph(T, A, x, f) ==
  <<0, x>> \in T /\ \A n \in Nat, a \in A : <<n, a>> \in T => <<n + 1, f[a]>> \in T

(* A function can be iterated, from any value of its domain.               *)
LEMMA IterateExists ==
  ASSUME NEW A, NEW x \in A, NEW f \in [A -> A]
  PROVE  \E g \in [Nat -> A] : g[0] = x /\ \A n \in Nat : g[n + 1] = f[g[n]]
<1> DEFINE P == Nat \X A
           R == {p \in P : \A T \in SUBSET P : IterateGraph(T, A, x, f) => p \in T}
<1>1. IterateGraph(R, A, x, f)
  <2>1. <<0, x>> \in R
    BY DEF IterateGraph
  <2>2. ASSUME NEW n \in Nat, NEW a \in A, <<n, a>> \in R PROVE <<n + 1, f[a]>> \in R
    <3>1. <<n + 1, f[a]>> \in P
      OBVIOUS
    <3>2. ASSUME NEW T \in SUBSET P, IterateGraph(T, A, x, f) PROVE <<n + 1, f[a]>> \in T
      <4>1. <<n, a>> \in T
        BY <2>2, <3>2
      <4> QED BY <3>2, <4>1 DEF IterateGraph
    <3> QED BY <3>1, <3>2
  <2> QED BY <2>1, <2>2 DEF IterateGraph
<1>2. ASSUME NEW p \in R, IterateGraph(R \ {p}, A, x, f) PROVE FALSE
  BY <1>2
<1> DEFINE One(n) == \E a \in A : <<n, a>> \in R /\ \A b \in A : <<n, b>> \in R => b = a
           S == {n \in Nat : One(n)}
<1> HIDE DEF R
<1>3. 0 \in S
  <2> SUFFICES ASSUME NEW b \in A, <<0, b>> \in R, b # x PROVE FALSE
    BY <1>1 DEF IterateGraph
  <2> IterateGraph(R \ {<<0, b>>}, A, x, f)
    BY <1>1 DEF IterateGraph
  <2> QED BY <1>2
<1>4. ASSUME NEW n \in S PROVE n + 1 \in S
  <2>1. PICK a \in A : <<n, a>> \in R /\ \A b \in A : <<n, b>> \in R => b = a
    BY <1>4
  <2>2. n \in Nat /\ <<n + 1, f[a]>> \in R /\ f[a] \in A
    BY <1>1, <1>4, <2>1 DEF IterateGraph
  <2>3. ASSUME NEW b \in A, <<n + 1, b>> \in R, b # f[a] PROVE FALSE
    <3> IterateGraph(R \ {<<n + 1, b>>}, A, x, f)
      <4>1. <<0, x>> \in R /\ <<0, x>> # <<n + 1, b>>
        BY <1>1, <2>2 DEF IterateGraph
      <4>2. ASSUME NEW m \in Nat, NEW c \in A, <<m, c>> \in R
            PROVE  <<m + 1, f[c]>> \in R /\ <<m + 1, f[c]>> # <<n + 1, b>>
        <5>1. <<m + 1, f[c]>> \in R
          BY <1>1, <4>2 DEF IterateGraph
        <5>2. n \in Nat /\ (m + 1 = n + 1 => m = n)
          BY <2>2
        <5>3. m = n => f[c] = f[a]
          BY <2>1, <4>2
        <5> QED BY <2>3, <5>1, <5>2, <5>3
      <4> QED BY <4>1, <4>2 DEF IterateGraph
    <3> QED BY <1>2, <2>3
  <2>4. One(n + 1)
    <3> WITNESS f[a] \in A
    <3> QED BY ONLY <2>2, <2>3
  <2>5. n + 1 \in Nat
    BY <2>2
  <2> HIDE DEF One
  <2> QED BY ONLY <2>4, <2>5 DEF S
<1>5. S = Nat
  <2> HIDE DEF S
  <2> S \subseteq Nat
    BY DEF S
  <2> QED BY <1>3, <1>4, SetInduction
<1> DEFINE g == [n \in Nat |-> CHOOSE a \in A : <<n, a>> \in R]
<1>6. ASSUME NEW n \in Nat
      PROVE  g[n] \in A /\ <<n, g[n]>> \in R /\ \A b \in A : <<n, b>> \in R => b = g[n]
  BY <1>5
<1>7. g \in [Nat -> A]
  BY <1>6
<1> HIDE DEF g
<1>8. g[0] = x
  BY <1>1, <1>6 DEF IterateGraph
<1>9. ASSUME NEW n \in Nat PROVE g[n + 1] = f[g[n]]
  <2>1. g[n] \in A /\ <<n, g[n]>> \in R
    BY <1>6
  <2>2. <<n + 1, f[g[n]]>> \in R /\ f[g[n]] \in A /\ n + 1 \in Nat
    BY <1>1, <2>1 DEF IterateGraph
  <2>3. \A b \in A : <<n + 1, b>> \in R => b = g[n + 1]
    BY <1>6, <2>2
  <2> QED BY <2>2, <2>3
<1> QED BY <1>7, <1>8, <1>9

(* Taking the first element out of a sequence without repetitions          *)
LEMMA WithoutHead ==
  ASSUME NEW T, NEW s \in Seq(T), NoRepeat(s), s # << >>
  PROVE  /\ Head(s) \in Elements(s) /\ Head(s) \in T
         /\ Without(s, Head(s)) = Tail(s)
         /\ Tail(s) \in Seq(T) /\ NoRepeat(Tail(s))
         /\ Elements(Tail(s)) = Elements(s) \ {Head(s)}
<1> DEFINE h == Head(s)
<1>1. Len(s) \in Nat /\ DOMAIN s = 1 .. Len(s) /\ 1 \in DOMAIN s /\ h = s[1]
  OBVIOUS
<1>2. h \in Elements(s) /\ h \in T
  BY <1>1 DEF Elements
<1>3. (CHOOSE i \in DOMAIN s : s[i] = h) = 1
  BY <1>1 DEF NoRepeat
<1>4. Without(s, h) = [i \in 1 .. Len(s) - 1 |-> IF i < 1 THEN s[i] ELSE s[i + 1]]
  BY <1>2, <1>3 DEF Without
<1>5. Tail(s) \in Seq(T) /\ Len(Tail(s)) = Len(s) - 1
      /\ \A i \in 1 .. Len(s) - 1 : Tail(s)[i] = s[i + 1]
  BY <1>1
<1>6. Without(s, h) = Tail(s)
  BY <1>1, <1>4, <1>5
<1>7. NoRepeat(s) /\ s \in Seq(T)
  OBVIOUS
<1>8. /\ Without(s, h) \in Seq(T) /\ NoRepeat(Without(s, h))
      /\ Elements(Without(s, h)) = Elements(s) \ {h}
  BY <1>7, WithoutFacts
<1> QED BY <1>2, <1>6, <1>8

(* The same with the formula named                                         *)
LOCAL Iterated(A, x, f) ==
  \E g \in [Nat -> A] : g[0] = x /\ \A n \in Nat : g[n + 1] = f[g[n]]

LEMMA IterateNamed ==
  ASSUME NEW A, NEW x \in A, NEW f \in [A -> A] PROVE Iterated(A, x, f)
BY IterateExists DEF Iterated

(* f is the function that G defines by recursion from x.                   *)
Recursive(f, N, x, G) == f = [n \in 0 .. N |-> IF n = 0 THEN x ELSE G[<<n, f[n - 1]>>]]

(* A recursion over 1 .. N, whose n-th value is in the set K[n], has a     *)
(* solution.                                                               *)
LEMMA FiniteRecursion ==
  ASSUME NEW N \in Nat, NEW K, NEW x \in K[0], NEW G,
         \A n \in 1 .. N : \A y \in K[n - 1] : G[<<n, y>>] \in K[n]
  PROVE  \E f : Recursive(f, N, x, G)
<1> DEFINE B == UNION {K[n] : n \in 0 .. N}
           A == {p \in Nat \X B : p[1] <= N => p[2] \in K[p[1]]}
           h == [p \in A |-> IF p[1] < N THEN <<p[1] + 1, G[<<p[1] + 1, p[2]>>]>>
                                         ELSE <<p[1] + 1, p[2]>>]
<1>1. <<0, x>> \in A
  BY x \in K[0], 0 \in 0 .. N
<1>2. h \in [A -> A]
  <2> SUFFICES ASSUME NEW p \in A PROVE h[p] \in A
    OBVIOUS
  <2>1. p \in Nat \X B /\ p[1] \in Nat /\ p[2] \in B
    OBVIOUS
  <2>2. CASE p[1] < N
    <3> DEFINE m == p[1] + 1
    <3>1. m \in 1 .. N /\ m \in 0 .. N /\ m \in Nat /\ m - 1 = p[1] /\ p[2] \in K[m - 1]
      BY <2>1, <2>2
    <3>2. h[p] = <<m, G[<<m, p[2]>>]>>
      BY <2>2
    <3> HIDE DEF m, h, A
    <3>3. G[<<m, p[2]>>] \in K[m]
      BY <3>1
    <3>4. G[<<m, p[2]>>] \in B
      BY <3>1, <3>3
    <3> QED BY <3>1, <3>2, <3>3, <3>4 DEF A
  <2>3. CASE ~(p[1] < N)
    <3>1. h[p] = <<p[1] + 1, p[2]>> /\ ~(p[1] + 1 <= N) /\ p[1] + 1 \in Nat
      BY <2>1, <2>3
    <3> QED BY <2>1, <3>1
  <2> QED BY <2>2, <2>3
<1> HIDE DEF A, h
<1>3. PICK g \in [Nat -> A] : g[0] = <<0, x>> /\ \A n \in Nat : g[n + 1] = h[g[n]]
  <2> DEFINE q == <<0, x>>
  <2>1. q \in A
    BY <1>1
  <2> HIDE DEF q
  <2>2. Iterated(A, q, h)
    BY ONLY <1>2, <2>1, IterateNamed
  <2> QED BY <2>2 DEF q, Iterated
<1>4. \A n \in Nat : g[n][1] = n
  <2> DEFINE S == {n \in Nat : g[n][1] = n}
  <2>1. 0 \in S
    BY <1>3
  <2>2. ASSUME NEW n \in S PROVE n + 1 \in S
    <3>1. n \in Nat /\ g[n] \in A /\ g[n][1] = n /\ g[n + 1] = h[g[n]] /\ n + 1 \in Nat
      BY <1>3
    <3>2. h[g[n]][1] = n + 1
      BY <3>1 DEF h
    <3> QED BY <3>1, <3>2
  <2>3. S \subseteq Nat
    OBVIOUS
  <2> HIDE DEF S
  <2>4. S = Nat
    BY <2>1, <2>2, <2>3, SetInduction
  <2> QED BY <2>4 DEF S
<1> DEFINE f == [n \in 0 .. N |-> g[n][2]]
<1>5. ASSUME NEW n \in 0 .. N PROVE f[n] = IF n = 0 THEN x ELSE G[<<n, f[n - 1]>>]
  <2>1. CASE n = 0
    BY <1>3, <2>1
  <2>2. CASE n # 0
    <3>1. n - 1 \in Nat /\ n - 1 \in 0 .. N /\ n - 1 < N /\ n - 1 + 1 = n
      BY <2>2
    <3>2. g[n - 1] \in A /\ g[n - 1][1] = n - 1 /\ g[n] = h[g[n - 1]]
      BY <1>3, <1>4, <3>1
    <3>3. g[n][2] = G[<<n, g[n - 1][2]>>]
      BY <3>1, <3>2 DEF h
    <3> QED BY <2>2, <3>1, <3>3
  <2> QED BY <2>1, <2>2
<1>6. f = [n \in 0 .. N |-> IF n = 0 THEN x ELSE G[<<n, f[n - 1]>>]]
  BY <1>5
<1> QED BY <1>6 DEF Recursive

(* Any solution has its values in the sets.                                *)
LEMMA FiniteRecursionStays ==
  ASSUME NEW N \in Nat, NEW K, NEW f, f[0] \in K[0],
         \A n \in 1 .. N : f[n - 1] \in K[n - 1] => f[n] \in K[n]
  PROVE  \A n \in 0 .. N : f[n] \in K[n]
<1> DEFINE S == {n \in Nat : n <= N => f[n] \in K[n]}
<1>1. 0 \in S
  OBVIOUS
<1>2. ASSUME NEW n \in S PROVE n + 1 \in S
  <2> SUFFICES ASSUME n + 1 <= N PROVE f[n + 1] \in K[n + 1]
    OBVIOUS
  <2>1. n + 1 \in 1 .. N /\ n + 1 - 1 = n /\ f[n] \in K[n]
    OBVIOUS
  <2> QED BY <2>1
<1>3. S \subseteq Nat
  OBVIOUS
<1> HIDE DEF S
<1>4. S = Nat
  BY <1>1, <1>2, <1>3, SetInduction
<1> QED BY <1>4 DEF S

(* One list after another                                                  *)
LEMMA ConcatFacts ==
  ASSUME NEW T, NEW s \in Seq(T), NEW r \in Seq(T)
  PROVE  /\ s \o r \in Seq(T)
         /\ Elements(s \o r) = Elements(s) \cup Elements(r)
         /\ NoRepeat(s) /\ NoRepeat(r) /\ Elements(s) \cap Elements(r) = {} => NoRepeat(s \o r)
<1> DEFINE c == s \o r
           m == Len(s)
           n == Len(r)
<1>1. /\ m \in Nat /\ n \in Nat /\ c \in Seq(T) /\ Len(c) = m + n
      /\ DOMAIN s = 1 .. m /\ DOMAIN r = 1 .. n /\ DOMAIN c = 1 .. m + n
  BY LenProperties
<1>2. \A i \in 1 .. m + n : c[i] = IF i <= m THEN s[i] ELSE r[i - m]
  BY ConcatProperties
<1> HIDE DEF c, m, n
<1>3. ASSUME NEW i \in 1 .. m + n
      PROVE  IF i <= m THEN i \in 1 .. m /\ c[i] = s[i] /\ c[i] \in Elements(s)
                       ELSE i - m \in 1 .. n /\ c[i] = r[i - m] /\ c[i] \in Elements(r)
  <2>1. CASE i <= m
    <3>1. i \in 1 .. m
      BY <1>1, <2>1
    <3> QED BY <1>1, <1>2, <2>1, <3>1 DEF Elements
  <2>2. CASE ~(i <= m)
    <3>1. i - m \in 1 .. n
      BY <1>1, <2>2
    <3> QED BY <1>1, <1>2, <2>2, <3>1 DEF Elements
  <2> QED BY <2>1, <2>2
<1>4. Elements(c) = Elements(s) \cup Elements(r)
  <2>1. Elements(c) \subseteq Elements(s) \cup Elements(r)
    BY <1>1, <1>3 DEF Elements
  <2>2. ASSUME NEW i \in 1 .. m PROVE s[i] \in Elements(c)
    <3>1. i \in 1 .. m + n /\ c[i] = s[i]
      BY <1>1, <1>2
    <3> QED BY <1>1, <3>1 DEF Elements
  <2>3. ASSUME NEW i \in 1 .. n PROVE r[i] \in Elements(c)
    <3>1. PICK j \in 1 .. m + n : j = i + m /\ ~(j <= m) /\ j - m = i
      BY <1>1
    <3>2. c[j] = r[i]
      BY <1>3, <3>1
    <3>3. c[j] \in Elements(c)
      BY <1>1, <3>1 DEF Elements
    <3> QED BY <3>2, <3>3
  <2> QED BY <1>1, <2>1, <2>2, <2>3 DEF Elements
<1>5. ASSUME NoRepeat(s), NoRepeat(r), Elements(s) \cap Elements(r) = {} PROVE NoRepeat(c)
  <2> SUFFICES ASSUME NEW i \in 1 .. m + n, NEW j \in 1 .. m + n, c[i] = c[j] PROVE i = j
    BY <1>1 DEF NoRepeat
  <2>1. CASE i <= m /\ j <= m
    BY <1>1, <1>3, <1>5, <2>1 DEF NoRepeat
  <2>2. CASE ~(i <= m) /\ ~(j <= m)
    <3>1. i - m = j - m
      BY <1>1, <1>3, <1>5, <2>2 DEF NoRepeat
    <3> QED BY <1>1, <3>1
  <2>3. CASE (i <= m) # (j <= m)
    BY <1>3, <1>5, <2>3
  <2> QED BY <2>1, <2>2, <2>3
<1> QED BY <1>1, <1>4, <1>5 DEF c

(* A list in reverse                                                       *)
LEMMA ReverseFacts ==
  ASSUME NEW T, NEW s \in Seq(T), NEW r, r = [i \in DOMAIN s |-> s[Len(s) + 1 - i]]
  PROVE  /\ r \in Seq(T) /\ Elements(r) = Elements(s)
         /\ NoRepeat(s) => NoRepeat(r)
<1> DEFINE n == Len(s)
<1>1. n \in Nat /\ DOMAIN s = 1 .. n
  BY LenProperties
<1>2. \A i \in 1 .. n : n + 1 - i \in 1 .. n /\ n + 1 - (n + 1 - i) = i
  BY <1>1
<1>3. r \in [1 .. n -> T] /\ DOMAIN r = 1 .. n /\ \A i \in 1 .. n : r[i] = s[n + 1 - i]
  BY <1>1, <1>2
<1>4. r \in Seq(T)
  BY <1>1, <1>3
<1> HIDE DEF n
<1>5. Elements(r) = Elements(s)
  <2>1. \A i \in 1 .. n : r[i] \in Elements(s)
    BY <1>1, <1>2, <1>3 DEF Elements
  <2>2. ASSUME NEW i \in 1 .. n PROVE s[i] \in Elements(r)
    <3>1. n + 1 - i \in 1 .. n /\ n + 1 - (n + 1 - i) = i
      BY <1>2
    <3>2. r[n + 1 - i] = s[n + 1 - (n + 1 - i)]
      BY <1>3, <3>1
    <3>3. r[n + 1 - i] = s[i]
      BY <3>1, <3>2
    <3>4. r[n + 1 - i] \in Elements(r)
      BY <1>3, <3>1 DEF Elements
    <3> QED BY <3>3, <3>4
  <2>3. Elements(s) = {s[i] : i \in 1 .. n} /\ Elements(r) = {r[i] : i \in 1 .. n}
    BY <1>1, <1>3 DEF Elements
  <2> QED BY ONLY <2>1, <2>2, <2>3
<1>6. ASSUME NoRepeat(s) PROVE NoRepeat(r)
  <2> SUFFICES ASSUME NEW i \in 1 .. n, NEW j \in 1 .. n, r[i] = r[j] PROVE i = j
    BY <1>3 DEF NoRepeat
  <2>1. n + 1 - i \in DOMAIN s /\ n + 1 - j \in DOMAIN s
    BY <1>1, <1>2
  <2>2. s[n + 1 - i] = s[n + 1 - j]
    BY <1>3
  <2>3. n + 1 - i = n + 1 - j
    BY <1>6, <2>1, <2>2 DEF NoRepeat
  <2> QED BY <1>1, <2>3
<1> QED BY <1>4, <1>5, <1>6

-----------------------------------------------------------------------------
(* Sums.                                                                   *)

Some(s) == CHOOSE x \in s : TRUE

(* it[s] is the sum of f over s, for the subsets s of S.                   *)
Adds(f, S, it) ==
  \A s \in SUBSET S : it[s] = IF s = {} THEN 0 ELSE f[Some(s)] + it[s \ {Some(s)}]
Sums(f, S, it) ==
  it \in [SUBSET S -> Int] /\ Adds(f, S, it)

(* The same as far as sets of n elements                                   *)
SumsTo(f, S, n, it) ==
  /\ it \in [{s \in SUBSET S : Cardinality(s) <= n} -> Int]
  /\ \A s \in DOMAIN it : it[s] = IF s = {} THEN 0 ELSE f[Some(s)] + it[s \ {Some(s)}]

LEMMA SmallerSets ==
  ASSUME NEW S, IsFiniteSet(S), NEW s \in SUBSET S
  PROVE  /\ Cardinality(s) \in Nat /\ Cardinality(s) <= Cardinality(S)
         /\ s = {} <=> Cardinality(s) = 0
         /\ \A x \in s : Cardinality(s \ {x}) = Cardinality(s) - 1
         /\ s # {} => Some(s) \in s
<1>1. IsFiniteSet(s) /\ Cardinality(s) <= Cardinality(S)
  BY FS_Subset
<1>2. Cardinality(s) \in Nat
  BY <1>1, FS_CardinalityType
<1>3. s = {} <=> Cardinality(s) = 0
  BY <1>1, FS_EmptySet
<1>4. \A x \in s : Cardinality(s \ {x}) = Cardinality(s) - 1
  BY <1>1, FS_RemoveElement
<1> QED BY <1>1, <1>2, <1>3, <1>4 DEF Some

LEMMA SumsExist ==
  ASSUME NEW S, IsFiniteSet(S), NEW f \in [S -> Int]
  PROVE  \E it : Sums(f, S, it)
<1> DEFINE T == {n \in Nat : \E it : SumsTo(f, S, n, it)}
<1>1. 0 \in T
  <2> DEFINE it == [s \in {s \in SUBSET S : Cardinality(s) <= 0} |-> 0]
  <2>1. \A s \in DOMAIN it : s = {}
    BY SmallerSets
  <2>2. SumsTo(f, S, 0, it)
    BY <2>1 DEF SumsTo
  <2> QED BY <2>2
<1>2. ASSUME NEW n \in T PROVE n + 1 \in T
  <2>1. PICK it : SumsTo(f, S, n, it)
    BY <1>2
  <2> DEFINE L == {s \in SUBSET S : Cardinality(s) <= n + 1}
             to == [s \in L |-> IF Cardinality(s) <= n THEN it[s]
                                ELSE f[Some(s)] + it[s \ {Some(s)}]]
  <2>2. \A s \in L : s # {} => /\ Some(s) \in S /\ f[Some(s)] \in Int
                               /\ s \ {Some(s)} \in DOMAIN it
                               /\ s \ {Some(s)} \in L /\ Cardinality(s \ {Some(s)}) <= n
    BY <2>1, SmallerSets DEF SumsTo
  <2>3. \A s \in L : Cardinality(s) <= n => s \in DOMAIN it
    BY <2>1 DEF SumsTo
  <2>4. \A s \in L : ~(Cardinality(s) <= n) => s # {}
    BY SmallerSets
  <2>5. to \in [L -> Int]
    BY <2>1, <2>2, <2>3, <2>4 DEF SumsTo
  <2>6. \A s \in L : to[s] = IF s = {} THEN 0 ELSE f[Some(s)] + to[s \ {Some(s)}]
    BY <2>1, <2>2, <2>3, <2>4 DEF SumsTo
  <2>7. SumsTo(f, S, n + 1, to)
    BY <2>5, <2>6 DEF SumsTo
  <2> QED BY <2>7
<1>3. T = Nat
  <2> HIDE DEF T
  <2>1. T \subseteq Nat
    BY DEF T
  <2> QED BY <1>1, <1>2, <2>1, SetInduction
<1>4. Cardinality(S) \in T
  BY <1>3, FS_CardinalityType
<1>5. PICK it : SumsTo(f, S, Cardinality(S), it)
  BY <1>4
<1>6. {s \in SUBSET S : Cardinality(s) <= Cardinality(S)} = SUBSET S
  BY SmallerSets
<1> QED BY <1>5, <1>6 DEF SumsTo, Sums, Adds

(* Any element may be the one that is added last.                          *)
LEMMA SumsAny ==
  ASSUME NEW S, IsFiniteSet(S), NEW f \in [S -> Int], NEW it, Sums(f, S, it),
         NEW s \in SUBSET S, NEW x \in s
  PROVE  it[s] = f[x] + it[s \ {x}]
<1> DEFINE Holds(n) == \A r \in SUBSET S : Cardinality(r) = n =>
                          \A z \in r : it[r] = f[z] + it[r \ {z}]
           T == {n \in Nat : Holds(n)}
<1>1. 0 \in T
  BY SmallerSets
<1>2. ASSUME NEW n \in T PROVE n + 1 \in T
  <2> SUFFICES ASSUME NEW r \in SUBSET S, Cardinality(r) = n + 1, NEW z \in r
               PROVE  it[r] = f[z] + it[r \ {z}]
    BY <1>2
  <2> DEFINE y == Some(r)
  <2>1. y \in r /\ it[r] = f[y] + it[r \ {y}]
    BY SmallerSets DEF Sums, Adds
  <2> HIDE DEF y
  <2>2. CASE y = z
    BY <2>1, <2>2
  <2>3. CASE y # z
    <3>1. /\ r \ {y} \in SUBSET S /\ Cardinality(r \ {y}) = n /\ z \in r \ {y}
          /\ r \ {z} \in SUBSET S /\ Cardinality(r \ {z}) = n /\ y \in r \ {z}
      BY <2>1, <2>3, SmallerSets
    <3>2. it[r \ {y}] = f[z] + it[(r \ {y}) \ {z}]
      BY <1>2, <3>1
    <3>3. it[r \ {z}] = f[y] + it[(r \ {z}) \ {y}]
      BY <1>2, <3>1
    <3>4. (r \ {y}) \ {z} = (r \ {z}) \ {y} /\ (r \ {y}) \ {z} \in SUBSET S
      OBVIOUS
    <3>5. f[y] \in Int /\ f[z] \in Int /\ it[(r \ {y}) \ {z}] \in Int
      BY <2>1, <3>4 DEF Sums, Adds
    <3> DEFINE c == it[(r \ {y}) \ {z}]
    <3>6. it[r \ {y}] = f[z] + c /\ it[r \ {z}] = f[y] + c /\ c \in Int
      BY ONLY <3>2, <3>3, <3>4, <3>5
    <3> HIDE DEF c
    <3> QED BY ONLY <2>1, <3>5, <3>6
  <2> QED BY <2>2, <2>3
<1>3. T = Nat
  <2> HIDE DEF T
  <2>1. T \subseteq Nat
    BY DEF T
  <2> QED BY <1>1, <1>2, <2>1, SetInduction
<1> QED BY <1>3, SmallerSets

(* There is one such function, for all functions that agree with f.        *)
LEMMA SumsUnique ==
  ASSUME NEW S, IsFiniteSet(S), NEW f \in [S -> Int], NEW it, Sums(f, S, it),
         NEW R \in SUBSET S, NEW g, NEW jt,
         \A x \in R : g[x] = f[x], Adds(g, R, jt)
  PROVE  jt[R] = it[R]
<1> DEFINE T == {n \in Nat : \A s \in SUBSET R : Cardinality(s) = n => jt[s] = it[s]}
<1>1. 0 \in T
  BY SmallerSets DEF Sums, Adds
<1>2. ASSUME NEW n \in T PROVE n + 1 \in T
  <2> SUFFICES ASSUME NEW s \in SUBSET R, Cardinality(s) = n + 1 PROVE jt[s] = it[s]
    BY <1>2
  <2>1. /\ s # {} /\ Some(s) \in s /\ Cardinality(s \ {Some(s)}) = n
        /\ s \ {Some(s)} \in SUBSET R /\ s \in SUBSET S
    BY SmallerSets
  <2>2. jt[s \ {Some(s)}] = it[s \ {Some(s)}]
    BY <2>1
  <2>3. it[s] = f[Some(s)] + it[s \ {Some(s)}]
    BY <2>1 DEF Sums, Adds
  <2>4. jt[s] = g[Some(s)] + jt[s \ {Some(s)}] /\ g[Some(s)] = f[Some(s)]
    BY <2>1 DEF Adds
  <2> QED BY <2>2, <2>3, <2>4
<1>3. T = Nat
  <2> HIDE DEF T
  <2>1. T \subseteq Nat
    BY DEF T
  <2> QED BY <1>1, <1>2, <2>1, SetInduction
<1>4. Cardinality(R) \in Nat
  BY SmallerSets
<1> QED BY <1>3, <1>4

(* What becomes of the sum when one number is another                      *)
LEMMA SumsChange ==
  ASSUME NEW S, IsFiniteSet(S), NEW f \in [S -> Int], NEW g \in [S -> Int],
         NEW it, Sums(f, S, it), NEW jt, Sums(g, S, jt),
         NEW u \in S, \A x \in S \ {u} : g[x] = f[x]
  PROVE  it[S] \in Int /\ jt[S] = it[S] - f[u] + g[u]
<1>1. it[S] = f[u] + it[S \ {u}] /\ jt[S] = g[u] + jt[S \ {u}]
  BY SumsAny, SMTT(60)
<1>2. jt[S \ {u}] = it[S \ {u}]
  <2>1. Adds(g, S \ {u}, jt)
    BY DEF Sums, Adds
  <2> QED BY <2>1, SumsUnique
<1>3. it[S \ {u}] \in Int /\ it[S] \in Int
  BY DEF Sums, Adds
<1> QED BY <1>1, <1>2, <1>3

=============================================================================
