----------------------------- MODULE HeapProofs -----------------------------
(***************************************************************************)
(* The heaps of modules Mem and MemHeap, for a memory of any size, any     *)
(* alignment, any size of a header and any number of clients.              *)
(***************************************************************************)
EXTENDS Heaps, ListLemmas, FiniteSetTheorems

-----------------------------------------------------------------------------
(* Sums.                                                                   *)

LEMMA TotalSums ==
  ASSUME NEW f, IsFiniteSet(DOMAIN f), f \in [DOMAIN f -> Int]
  PROVE  \E it : Sums(f, DOMAIN f, it) /\ Total(f) = it[DOMAIN f]
<1> DEFINE S == DOMAIN f
           Eq(it) == it = [s \in SUBSET S |-> IF s = {} THEN 0 ELSE f[Some(s)] + it[s \ {Some(s)}]]
           ch == CHOOSE it : Eq(it)
<1>1. PICK it : Sums(f, S, it)
  BY SumsExist
<1>2. Eq(it)
  BY <1>1 DEF Sums, Adds
<1>3. Eq(ch)
  BY <1>2
<1>4. Total(f) = ch[S]
  BY DEF Total, MapThenSumSet, MapThenFoldSet, Some
<1> HIDE DEF ch
<1>5. Adds(f, S, ch)
  BY <1>3 DEF Adds
<1>6. ch[S] = it[S]
  BY <1>1, <1>5, SumsUnique
<1> QED BY <1>1, <1>4, <1>6

(* The functions that are summed up                                        *)
Summable(f) == IsFiniteSet(DOMAIN f) /\ f \in [DOMAIN f -> Int]

LEMMA TotalWith ==
  ASSUME NEW f, Summable(f), NEW x, x \notin DOMAIN f, NEW v \in Int
  PROVE  Summable(With(f, x, v)) /\ Total(With(f, x, v)) = Total(f) + v
<1> DEFINE S == DOMAIN f
           g == With(f, x, v)
<1>1. DOMAIN g = S \cup {x} /\ g[x] = v /\ (\A y \in S : g[y] = f[y]) /\ g \in [DOMAIN g -> Int]
  BY DEF With, Summable
<1>2. IsFiniteSet(DOMAIN g) /\ IsFiniteSet(S)
  BY <1>1, FS_AddElement DEF Summable
<1> HIDE DEF g
<1>3. PICK it : Sums(f, S, it) /\ Total(f) = it[S]
  BY TotalSums DEF Summable
<1>4. PICK jt : Sums(g, DOMAIN g, jt) /\ Total(g) = jt[DOMAIN g]
  BY <1>1, <1>2, TotalSums
<1> DEFINE Holds(n) == \A s \in SUBSET S : Cardinality(s) = n => jt[s] = it[s]
           T == {n \in Nat : Holds(n)}
<1>5. \A s \in SUBSET S : s \in SUBSET DOMAIN g
  BY <1>1
<1>6. 0 \in T
  BY <1>2, <1>3, <1>4, <1>5, SmallerSets DEF Sums, Adds
<1>7. ASSUME NEW n \in T PROVE n + 1 \in T
  <2> SUFFICES ASSUME NEW s \in SUBSET S, Cardinality(s) = n + 1 PROVE jt[s] = it[s]
    BY <1>7
  <2>1. s # {} /\ Cardinality(s \ {Some(s)}) = n /\ s \ {Some(s)} \in SUBSET S /\ Some(s) \in S
    BY <1>2, SmallerSets
  <2>2. jt[s \ {Some(s)}] = it[s \ {Some(s)}] /\ g[Some(s)] = f[Some(s)]
    BY <1>1, <1>7, <2>1
  <2> QED BY <1>3, <1>4, <1>5, <2>1, <2>2 DEF Sums, Adds
<1>8. T = Nat
  <2> HIDE DEF T
  <2>1. T \subseteq Nat
    BY DEF T
  <2> QED BY <1>6, <1>7, <2>1, SetInduction
<1>9. jt[S] = it[S] /\ it[S] \in Int
  BY <1>2, <1>3, <1>8, SmallerSets DEF Sums, Adds
<1>10. jt[DOMAIN g] = g[x] + jt[DOMAIN g \ {x}]
  BY <1>1, <1>2, <1>4, SumsAny
<1>11. DOMAIN g \ {x} = S
  BY <1>1
<1> QED BY <1>1, <1>2, <1>3, <1>4, <1>9, <1>10, <1>11 DEF Summable, g

LEMMA TotalWithout ==
  ASSUME NEW f, Summable(f), NEW x \in DOMAIN f
  PROVE  /\ Summable(Absorbed(f, x)) /\ Total(f) \in Int
         /\ Total(Absorbed(f, x)) = Total(f) - f[x]
<1> DEFINE g == Absorbed(f, x)
<1>1. /\ DOMAIN g = DOMAIN f \ {x} /\ g \in [DOMAIN g -> Int] /\ f[x] \in Int
      /\ With(g, x, f[x]) = f
  BY DEF Absorbed, Summable, With
<1>2. Summable(g)
  BY <1>1, FS_RemoveElement DEF Summable
<1> HIDE DEF g
<1>3. Total(f) = Total(g) + f[x]
  BY <1>1, <1>2, TotalWith
<1>4. PICK it : Sums(g, DOMAIN g, it) /\ Total(g) = it[DOMAIN g]
  BY <1>2, TotalSums DEF Summable
<1>5. Total(g) \in Int
  BY <1>4 DEF Sums, Adds
<1> QED BY <1>1, <1>2, <1>3, <1>5 DEF g

LEMMA TotalInt ==
  ASSUME NEW f, Summable(f) PROVE Total(f) \in Int
<1>1. PICK it : Sums(f, DOMAIN f, it) /\ Total(f) = it[DOMAIN f]
  BY TotalSums DEF Summable
<1> QED BY <1>1 DEF Sums, Adds

LEMMA TotalEmpty ==
  ASSUME NEW f, DOMAIN f = {} PROVE Summable(f) /\ Total(f) = 0
<1>1. Summable(f)
  BY FS_EmptySet DEF Summable
<1>2. PICK it : Sums(f, DOMAIN f, it) /\ Total(f) = it[DOMAIN f]
  BY <1>1, TotalSums DEF Summable
<1> QED BY <1>1, <1>2 DEF Sums, Adds

-----------------------------------------------------------------------------
(* Alignment.                                                              *)

LEMMA LessThanOnce ==
  ASSUME NEW a \in Nat \ {0}, NEW d \in Int, 0 <= a * d, a * d < a
  PROVE  d = 0
<1>1. CASE d >= 1
  <2>1. a * d = a + a * (d - 1) /\ d - 1 \in Nat
    BY <1>1
  <2>2. a * (d - 1) >= 0
    BY <2>1
  <2> QED BY <2>1, <2>2
<1>2. CASE d <= -1
  <2>1. a * d = a * (d + 1) - a /\ -(d + 1) \in Nat
    BY <1>2
  <2>2. a * (-(d + 1)) >= 0
    BY <2>1
  <2>3. a * (d + 1) <= 0
    BY <2>2
  <2> QED BY <2>1, <2>3
<1> QED BY <1>1, <1>2

LEMMA MultipleOf ==
  ASSUME NEW a \in Nat \ {0}, NEW q \in Nat
  PROVE  (a * q) % a = 0
<1> DEFINE w == a * q
<1>1. w \in Nat
  OBVIOUS
<1> HIDE DEF w
<1>2. w = a * (w \div a) + (w % a) /\ w % a \in 0 .. a - 1 /\ w \div a \in Int
  BY <1>1
<1>3. a * (q - (w \div a)) = w % a
  BY <1>2 DEF w
<1>4. q - (w \div a) = 0
  BY <1>2, <1>3, LessThanOnce
<1> QED BY <1>2, <1>3, <1>4 DEF w

LEMMA MultiplesAdd ==
  ASSUME NEW a \in Nat \ {0}, NEW x \in Nat, NEW y \in Nat, x % a = 0, y % a = 0
  PROVE  (x + y) % a = 0
<1>1. x = a * (x \div a) /\ y = a * (y \div a) /\ x \div a \in Nat /\ y \div a \in Nat
  OBVIOUS
<1>2. x + y = a * ((x \div a) + (y \div a))
  BY <1>1
<1>3. (x \div a) + (y \div a) \in Nat
  BY <1>1
<1> QED BY <1>2, <1>3, MultipleOf

LEMMA AlignFacts ==
  /\ \A n \in Nat : AlignUp(n) \in Nat /\ n <= AlignUp(n) /\ AlignUp(n) % Align = 0
  /\ AlignUp(0) = 0
  /\ \A n \in Nat : AlignDown(n) \in Nat /\ AlignDown(n) <= n
<1>1. Align \in Nat \ {0}
  BY HeapAssumption
<1>2. ASSUME NEW n \in Nat PROVE AlignUp(n) \in Nat /\ n <= AlignUp(n) /\ AlignUp(n) % Align = 0
  <2> DEFINE q == (n + Align - 1) \div Align
  <2>1. /\ n + Align - 1 \in Nat /\ q \in Nat
        /\ n + Align - 1 = Align * q + ((n + Align - 1) % Align)
        /\ (n + Align - 1) % Align \in 0 .. Align - 1
    BY <1>1
  <2>2. AlignUp(n) = Align * q
    BY <1>1, <2>1 DEF AlignUp
  <2> HIDE DEF q
  <2>3. Align * q \in Nat /\ n <= Align * q
    BY <1>1, <2>1
  <2> QED BY <1>1, <2>1, <2>2, <2>3, MultipleOf
<1>3. AlignUp(0) = 0
  <2>1. (0 + Align - 1) \div Align = 0
    BY <1>1
  <2> QED BY <1>1, <2>1 DEF AlignUp
<1>4. ASSUME NEW n \in Nat PROVE AlignDown(n) \in Nat /\ AlignDown(n) <= n
  <2>1. n = Align * (n \div Align) + (n % Align) /\ n % Align \in Nat /\ n \div Align \in Nat
    BY <1>1
  <2> DEFINE q == n \div Align
  <2>2. AlignDown(n) = Align * q /\ q \in Nat
    BY <1>1, <2>1 DEF AlignDown
  <2> HIDE DEF q
  <2>3. Align * q \in Nat
    BY <1>1, <2>2
  <2> QED BY <2>1, <2>2, <2>3 DEF q
<1> QED BY <1>2, <1>3, <1>4

-----------------------------------------------------------------------------
(* Blocks, and what marking, merging and splitting do to them.             *)

HeaderType == [used : BOOLEAN, next : Nat, prev : Nat]

(* No block is smaller.  (A memory that has no room for MinSize bytes is   *)
(* one small block in the beginning, and is never split.)                  *)
Least == IF MinSize <= mem_size_aligned /\ MinSize <= pool_size - 2 * Header THEN MinSize ELSE 1

Blocks(h, last) ==
  /\ h \in [DOMAIN h -> HeaderType]
  /\ last \in Nat \ {0} /\ {0, last} \subseteq DOMAIN h /\ DOMAIN h \subseteq 0 .. last
  /\ h[last].used
  /\ \A p \in DOMAIN h \ {last} :
       /\ h[p].next \in DOMAIN h /\ p % Align = 0
       /\ p + Header + Least <= h[p].next
       /\ \A q \in DOMAIN h : q > p => q >= h[p].next

(* The links go back as they go forward, but for some blocks E.            *)
LinkedBack(h, last, E) ==
  \A p \in DOMAIN h \ E : h[p].prev \in DOMAIN h \ {last} /\ h[h[p].prev].next = p

Chain(h, last, E) ==
  Blocks(h, last) /\ LinkedBack(h, last, E) /\ 0 \in E /\ E \subseteq {0, last}

LEMMA LeastFacts ==
  /\ Least \in Nat \ {0} /\ Least <= MinSize /\ MinSize \in Nat \ {0} /\ Header \in Nat \ {0}
  /\ Align \in Nat \ {0} /\ Header % Align = 0 /\ MinSize % Align = 0
BY HeapAssumption DEF Least

LEMMA NextFacts ==
  ASSUME NEW h, NEW last, NEW E, Chain(h, last, E), NEW p \in DOMAIN h \ {last}
  PROVE  /\ p \in Nat /\ p < last /\ h[p].next \in DOMAIN h \ {0} /\ h[p].next \in Nat
         /\ p < h[p].next /\ p + Header < h[p].next
         /\ \A q \in DOMAIN h \ {last} : h[q].next = h[p].next => q = p
         /\ h[p].next \notin E => h[h[p].next].prev = p
         /\ p \notin E => h[p].prev \in DOMAIN h /\ h[p].prev < p
<1>1. /\ DOMAIN h \subseteq 0 .. last /\ last \in Nat
      /\ \A q \in DOMAIN h \ {last} :
           /\ h[q].next \in DOMAIN h /\ q + Header + Least <= h[q].next
           /\ \A r \in DOMAIN h : r > q => r >= h[q].next
  BY DEF Chain, Blocks
<1>2. \A q \in DOMAIN h \ {last} : q \in Nat /\ q < last /\ h[q].next \in Nat /\ q < h[q].next
                                   /\ q + Header < h[q].next
  BY <1>1, LeastFacts
<1>3. \A q \in DOMAIN h \ {last} : h[q].next = h[p].next => q = p
  <2> SUFFICES ASSUME NEW q \in DOMAIN h \ {last}, h[q].next = h[p].next, q # p PROVE FALSE
    OBVIOUS
  <2>1. q < p \/ p < q
    BY <1>2
  <2>2. q < p => p >= h[q].next
    BY <1>1
  <2>3. p < q => q >= h[p].next
    BY <1>1
  <2> QED BY <1>2, <2>1, <2>2, <2>3
<1>4. ASSUME h[p].next \notin E PROVE h[h[p].next].prev = p
  BY <1>1, <1>3, <1>4 DEF Chain, LinkedBack
<1>5. ASSUME p \notin E PROVE h[p].prev \in DOMAIN h /\ h[p].prev < p
  BY <1>2, <1>5 DEF Chain, LinkedBack
<1> QED BY <1>1, <1>2, <1>3, <1>4, <1>5

Marked(h, p, b) == [h EXCEPT ![p].used = b]

(* g is h but for whether p is used.                                       *)
SameLinks(h, g, p) ==
  /\ DOMAIN g = DOMAIN h
  /\ \A q \in DOMAIN h : /\ g[q].next = h[q].next /\ g[q].prev = h[q].prev
                         /\ q # p => g[q].used = h[q].used

LEMMA MarkedFacts ==
  ASSUME NEW h, NEW last, NEW E, Chain(h, last, E), NEW p \in DOMAIN h \ {last}
  PROVE  /\ Chain(Marked(h, p, TRUE), last, E) /\ SameLinks(h, Marked(h, p, TRUE), p)
         /\ Marked(h, p, TRUE)[p].used
         /\ Chain(Marked(h, p, FALSE), last, E) /\ SameLinks(h, Marked(h, p, FALSE), p)
         /\ ~Marked(h, p, FALSE)[p].used
<1>1. h \in [DOMAIN h -> HeaderType]
  BY DEF Chain, Blocks
<1>2. ASSUME NEW g, g \in [DOMAIN h -> HeaderType], SameLinks(h, g, p) PROVE Chain(g, last, E)
  <2>1. Blocks(g, last)
    BY <1>2 DEF Chain, Blocks, SameLinks
  <2>2. LinkedBack(g, last, E)
    BY <1>2 DEF Chain, LinkedBack, SameLinks
  <2> QED BY <2>1, <2>2 DEF Chain
<1>3. /\ Marked(h, p, TRUE) \in [DOMAIN h -> HeaderType] /\ Marked(h, p, TRUE)[p].used
      /\ SameLinks(h, Marked(h, p, TRUE), p)
  BY <1>1 DEF Marked, HeaderType, SameLinks
<1>4. /\ Marked(h, p, FALSE) \in [DOMAIN h -> HeaderType] /\ ~Marked(h, p, FALSE)[p].used
      /\ SameLinks(h, Marked(h, p, FALSE), p)
  BY <1>1 DEF Marked, HeaderType, SameLinks
<1> QED BY <1>2, <1>3, <1>4

(* g is h with block p merged with n, the one behind it.                   *)
IsMerge(h, g, p, n) ==
  /\ DOMAIN g = DOMAIN h \ {n}
  /\ n \in DOMAIN h /\ n # p /\ n # 0 /\ h[n].next # 0 /\ h[n].next # n
  /\ h[n].next \in DOMAIN h
  /\ g[p].next = h[n].next
  /\ \A q \in DOMAIN h \ {n} : /\ g[q].used = h[q].used
                               /\ q # p => g[q].next = h[q].next
                               /\ q # h[n].next => g[q].prev = h[q].prev

LEMMA MergedFacts ==
  ASSUME NEW h, NEW last, NEW E, Chain(h, last, E), NEW p \in DOMAIN h \ {last},
         h[p].next # last
  PROVE  Chain(Merged(h, p), last, E) /\ IsMerge(h, Merged(h, p), p, h[p].next)
<1> DEFINE n == h[p].next
           g == Merged(h, p)
           D == DOMAIN h \ {n}
<1>1. h \in [DOMAIN h -> HeaderType] /\ last \in DOMAIN h /\ 0 \in DOMAIN h
  BY DEF Chain, Blocks
<1>2. /\ n \in DOMAIN h \ {0, last} /\ p < n /\ p \in Nat /\ n \in Nat
      /\ h[n].next \in DOMAIN h \ {0} /\ n < h[n].next /\ h[n].next \in Nat
  BY NextFacts
<1>3. /\ DOMAIN g = D /\ g \in [D -> HeaderType] /\ g[p].next = h[n].next
      /\ \A q \in D : /\ g[q].used = h[q].used
                      /\ q # p => g[q].next = h[q].next
                      /\ q # h[n].next => g[q].prev = h[q].prev
      /\ g[h[n].next].prev = p
  <2> DEFINE z == h[n].next
             e == [h EXCEPT ![p].next = z, ![z].prev = p]
  <2>1. g = [q \in DOMAIN e \ {n} |-> e[q]]
    BY DEF Merged, Absorbed
  <2>2. h \in [DOMAIN h -> HeaderType] /\ p \in DOMAIN h /\ z \in DOMAIN h /\ p # z
        /\ p # n /\ z # n /\ p \in Nat /\ z \in Nat
    BY <1>1, <1>2
  <2> HIDE DEF g, n, z
  <2>3. /\ DOMAIN e = DOMAIN h
        /\ \A q \in DOMAIN h \ {p, z} : e[q] = h[q]
        /\ e[p] = [h[p] EXCEPT !.next = z] /\ e[z] = [h[z] EXCEPT !.prev = p]
    BY ONLY <2>2
  <2> HIDE DEF e
  <2>4. h[p] \in HeaderType /\ h[z] \in HeaderType
    BY ONLY <2>2
  <2>5. /\ e[p] \in HeaderType /\ e[p].next = z /\ e[p].used = h[p].used /\ e[p].prev = h[p].prev
    BY ONLY <2>2, <2>3, <2>4 DEF HeaderType
  <2>6. /\ e[z] \in HeaderType /\ e[z].prev = p /\ e[z].used = h[z].used /\ e[z].next = h[z].next
    BY ONLY <2>2, <2>3, <2>4 DEF HeaderType
  <2>7. \A q \in DOMAIN h : /\ e[q] \in HeaderType /\ e[q].used = h[q].used
                            /\ q # p => e[q].next = h[q].next
                            /\ q # z => e[q].prev = h[q].prev
    <3> SUFFICES ASSUME NEW q \in DOMAIN h
                 PROVE  /\ e[q] \in HeaderType /\ e[q].used = h[q].used
                        /\ q # p => e[q].next = h[q].next
                        /\ q # z => e[q].prev = h[q].prev
      OBVIOUS
    <3>1. CASE q = p
      BY ONLY <3>1, <2>5
    <3>2. CASE q = z
      BY ONLY <3>2, <2>6
    <3>3. CASE q \notin {p, z}
      BY ONLY <3>3, q \in DOMAIN h, <2>2, <2>3
    <3> QED BY ONLY <3>1, <3>2, <3>3
  <2>8. /\ DOMAIN g = DOMAIN h \ {n} /\ \A q \in DOMAIN h \ {n} : g[q] = e[q]
    BY ONLY <2>1, <2>3
  <2>9. g \in [D -> HeaderType]
    BY ONLY <2>1, <2>3, <2>7
  <2> QED BY ONLY <2>2, <2>5, <2>6, <2>7, <2>8, <2>9 DEF z
<1> HIDE DEF g
<1>4. \A q \in DOMAIN h \ {last} : q # p => h[q].next # n
  BY NextFacts
<1>5. Blocks(g, last)
  <2>1. /\ last \in Nat \ {0} /\ {0, last} \subseteq D /\ D \subseteq 0 .. last
        /\ g[last].used
    BY <1>1, <1>2, <1>3 DEF Chain, Blocks
  <2>2. ASSUME NEW q \in D \ {last}
        PROVE  /\ g[q].next \in D /\ q % Align = 0
               /\ q + Header + Least <= g[q].next
               /\ \A r \in D : r > q => r >= g[q].next
    <3>1. /\ h[q].next \in DOMAIN h /\ q % Align = 0
          /\ q + Header + Least <= h[q].next
          /\ \A r \in DOMAIN h : r > q => r >= h[q].next
      BY DEF Chain, Blocks
    <3>2. CASE q # p
      BY <1>3, <1>4, <3>1, <3>2
    <3>3. CASE q = p
      <4>1. /\ h[n].next \in DOMAIN h
            /\ \A r \in DOMAIN h : r > n => r >= h[n].next
        BY <1>2 DEF Chain, Blocks
      <4>2. \A r \in D : r > p => r >= n /\ r # n
        BY <3>1, <3>3
      <4>3. \A r \in D : r \in Nat
        BY <2>1
      <4> QED BY <1>2, <1>3, <3>1, <3>3, <4>1, <4>2, <4>3, LeastFacts
    <3> QED BY <3>2, <3>3
  <2> QED BY <1>3, <2>1, <2>2 DEF Blocks
<1>6. LinkedBack(g, last, E)
  <2> SUFFICES ASSUME NEW q \in D \ E PROVE g[q].prev \in D \ {last} /\ g[g[q].prev].next = q
    BY <1>3 DEF LinkedBack
  <2>1. h[q].prev \in DOMAIN h \ {last} /\ h[h[q].prev].next = q
    BY DEF Chain, LinkedBack
  <2>2. CASE q = h[n].next
    BY <1>2, <1>3, <2>2
  <2>3. CASE q # h[n].next
    BY <1>2, <1>3, <2>1, <2>3
  <2> QED BY <2>2, <2>3
<1> QED BY <1>2, <1>3, <1>5, <1>6 DEF Chain, IsMerge, g

(* u is h, but its links around block p are those that lead to r.          *)
Relinked(h, u, p, r, E) ==
  /\ u \in [DOMAIN h -> HeaderType] /\ u[p].next = r
  /\ \A q \in DOMAIN h : /\ u[q].used = h[q].used
                         /\ q # p => u[q].next = h[q].next
                         /\ q # h[p].next => u[q].prev = h[q].prev
  /\ h[p].next \notin E => u[h[p].next].prev = r

(* g is h with block p cut at r.                                           *)
IsCut(h, g, p, r) ==
  /\ DOMAIN g = DOMAIN h \cup {r} /\ r \notin DOMAIN h
  /\ g[p].next = r /\ g[r].next = h[p].next /\ ~g[r].used /\ g[r].prev = p
  /\ \A q \in DOMAIN h : /\ g[q].used = h[q].used
                         /\ q # p => g[q].next = h[q].next
                         /\ q # h[p].next => g[q].prev = h[q].prev

FreeHeader(next, prev) == [used |-> FALSE, next |-> next, prev |-> prev]

LEMMA CutFacts ==
  ASSUME NEW h, NEW last, NEW E, Chain(h, last, E), NEW p \in DOMAIN h \ {last},
         NEW r \in Nat, r % Align = 0, p + Header + Least <= r, r + Header + Least <= h[p].next,
         NEW u, Relinked(h, u, p, r, E)
  PROVE  /\ Chain(With(u, r, FreeHeader(h[p].next, p)), last, E)
         /\ IsCut(h, With(u, r, FreeHeader(h[p].next, p)), p, r)
<1> DEFINE D == DOMAIN h \cup {r}
           n == h[p].next
           g == With(u, r, FreeHeader(n, p))
<1>0. /\ u \in [DOMAIN h -> HeaderType] /\ u[p].next = r
      /\ \A q \in DOMAIN h : /\ u[q].used = h[q].used
                             /\ q # p => u[q].next = h[q].next
                             /\ q # n => u[q].prev = h[q].prev
      /\ n \notin E => u[n].prev = r
  BY DEF Relinked
<1>1. /\ h \in [DOMAIN h -> HeaderType] /\ last \in DOMAIN h /\ 0 \in DOMAIN h
      /\ DOMAIN h \subseteq 0 .. last /\ last \in Nat \ {0} /\ h[last].used
  BY DEF Chain, Blocks
<1>2. /\ p \in Nat /\ n \in DOMAIN h \ {0} /\ n \in Nat /\ p < r /\ r < n /\ last \in Nat /\ n <= last
      /\ \A q \in DOMAIN h \ {last} : q # p => h[q].next # n
  <2>1. /\ p \in Nat /\ n \in DOMAIN h \ {0} /\ n \in Nat
        /\ \A q \in DOMAIN h \ {last} : h[q].next = n => q = p
    BY NextFacts
  <2>2. p < r /\ r < n
    BY <2>1, LeastFacts
  <2> QED BY <1>1, <2>1, <2>2
<1>3. /\ \A q \in DOMAIN h : q > p => q >= n
      /\ \A q \in DOMAIN h : q \in Nat
  BY <1>1 DEF Chain, Blocks
<1>4. r \notin DOMAIN h /\ r # last /\ r # 0 /\ r # p
  BY <1>1, <1>2, <1>3
<1>5. /\ DOMAIN g = D /\ g \in [D -> HeaderType] /\ g[p].next = r
      /\ g[r].next = n /\ g[r].prev = p /\ ~g[r].used
      /\ \A q \in DOMAIN h : /\ g[q].used = h[q].used
                             /\ q # p => g[q].next = h[q].next
                             /\ q # n => g[q].prev = h[q].prev
      /\ n \notin E => g[n].prev = r
  <2> DEFINE new == FreeHeader(n, p)
  <2>1. new \in HeaderType /\ new.next = n /\ new.prev = p /\ new.used = FALSE
    BY <1>2 DEF HeaderType, FreeHeader
  <2> HIDE DEF new
  <2>2. g = [q \in D |-> IF q = r THEN new ELSE u[q]]
    BY <1>0 DEF With, new
  <2>3. \A q \in DOMAIN h : g[q] = u[q]
    BY <1>4, <2>2
  <2>4. g[r] = new /\ DOMAIN g = D /\ g \in [D -> HeaderType]
    BY <1>0, <2>1, <2>2
  <2>5. g[r].next = n /\ g[r].prev = p /\ ~g[r].used
    BY <2>1, <2>4
  <2>6. /\ g[p].next = r
        /\ \A q \in DOMAIN h : /\ g[q].used = h[q].used
                               /\ q # p => g[q].next = h[q].next
                               /\ q # n => g[q].prev = h[q].prev
        /\ n \notin E => g[n].prev = r
    BY <1>0, <1>2, <2>3
  <2> QED BY <2>4, <2>5, <2>6
<1> HIDE DEF g
<1>6. Blocks(g, last)
  <2>1. /\ last \in Nat \ {0} /\ {0, last} \subseteq D /\ D \subseteq 0 .. last
        /\ g[last].used
    <3>1. r \in 0 .. last /\ last # 0
      BY <1>1, <1>2
    <3>2. g[last].used
      BY <1>1, <1>5
    <3> QED BY <1>1, <3>1, <3>2
  <2>2. ASSUME NEW q \in D \ {last}
        PROVE  /\ g[q].next \in D /\ q % Align = 0
               /\ q + Header + Least <= g[q].next
               /\ \A x \in D : x > q => x >= g[q].next
    <3>1. CASE q \in DOMAIN h /\ q # p
      <4>1. /\ h[q].next \in DOMAIN h /\ q % Align = 0
            /\ q + Header + Least <= h[q].next /\ h[q].next \in Nat /\ q \in Nat
            /\ \A x \in DOMAIN h : x > q => x >= h[q].next
        BY <1>3, <3>1 DEF Chain, Blocks
      <4>2. r > q => r >= h[q].next
        <5>1. q < p \/ q > p
          BY <1>2, <3>1, <4>1
        <5>2. q < p => p >= h[q].next
          BY <4>1
        <5>3. q > p => q >= n
          BY <1>3, <3>1
        <5> QED BY <1>2, <4>1, <5>1, <5>2, <5>3
      <4> QED BY <1>5, <3>1, <4>1, <4>2
    <3>2. CASE q = p
      <4>1. p % Align = 0
        BY DEF Chain, Blocks
      <4>2. \A x \in D : x > p => x >= r
        BY <1>2, <1>3
      <4> QED BY <1>5, <3>2, <4>1, <4>2
    <3>3. CASE q = r
      <4>1. \A x \in D : x > r => x >= n
        BY <1>2, <1>3
      <4> QED BY <1>2, <1>5, <3>3, <4>1
    <3> QED BY <3>1, <3>2, <3>3
  <2> QED BY <1>5, <2>1, <2>2 DEF Blocks
<1>7. LinkedBack(g, last, E)
  <2> SUFFICES ASSUME NEW q \in D \ E PROVE g[q].prev \in D \ {last} /\ g[g[q].prev].next = q
    BY <1>5 DEF LinkedBack
  <2>1. CASE q = r
    BY <1>5, <2>1
  <2>2. CASE q # r
    <3>1. /\ q \in DOMAIN h /\ h[q].prev \in DOMAIN h \ {last} /\ h[h[q].prev].next = q
      BY <2>2 DEF Chain, LinkedBack
    <3>2. CASE q = n
      BY <1>4, <1>5, <3>2
    <3>3. CASE q # n
      <4>1. g[q].prev = h[q].prev /\ h[q].prev # p
        BY <1>5, <3>1, <3>3
      <4> QED BY <1>5, <3>1, <4>1
    <3> QED BY <3>2, <3>3
  <2> QED BY <2>1, <2>2
<1> QED BY <1>4, <1>5, <1>6, <1>7 DEF Chain, IsCut, g

UsedBlocks(h, last) == {q \in DOMAIN h \ {last} : h[q].used}
FreeBlocks(h) == {q \in DOMAIN h : ~h[q].used}

(* The used blocks of g are those of h, and where they were.               *)
SameUsed(h, g, last) ==
  /\ UsedBlocks(g, last) = UsedBlocks(h, last)
  /\ \A q \in UsedBlocks(h, last) : g[q].next = h[q].next

(* No free block but those of X has a free neighbour behind it.            *)
NoPair(h, X) == \A q \in DOMAIN h \ X : ~h[q].used => h[h[q].next].used

(* g is h with block p merged with the free one behind it.                 *)
PairMerged(h, g, p, last, E, X) ==
  /\ Chain(g, last, E) /\ SameUsed(h, g, last) /\ g[0].prev = h[0].prev
  /\ NoPair(g, X \cup {p}) /\ (h[p].next \notin X => NoPair(g, X \ {p}))

(* A free block p is merged with the free one behind it: there is one pair *)
(* of free neighbours less.                                                *)
LEMMA MergeFree ==
  ASSUME NEW h, NEW last, NEW E, Chain(h, last, E), NEW p \in DOMAIN h \ {last},
         h[p].next # last, ~h[p].used, ~h[h[p].next].used, NEW X, NoPair(h, X)
  PROVE  PairMerged(h, Merged(h, p), p, last, E, X)
<1> DEFINE n == h[p].next
           g == Merged(h, p)
<1>1. Chain(g, last, E) /\ IsMerge(h, g, p, n)
  BY MergedFacts
<1> HIDE DEF g
<1>2. SameUsed(h, g, last)
  BY <1>1 DEF SameUsed, UsedBlocks, IsMerge
<1>3. NoPair(g, X \cup {p})
  <2> SUFFICES ASSUME NEW q \in DOMAIN g \ (X \cup {p}), ~g[q].used PROVE g[g[q].next].used
    BY DEF NoPair
  <2>1. q \in DOMAIN h \ X /\ ~h[q].used /\ q # last /\ q # n
    BY <1>1 DEF Chain, Blocks, IsMerge
  <2>2. h[h[q].next].used /\ h[q].next \in DOMAIN h /\ h[q].next # n
    BY <2>1, NextFacts DEF NoPair
  <2> QED BY <1>1, <2>1, <2>2 DEF IsMerge
<1>4. g[0].prev = h[0].prev
  BY <1>1 DEF IsMerge, Chain, Blocks
<1>5. ASSUME n \notin X PROVE NoPair(g, X \ {p})
  <2>1. h[h[n].next].used
    BY <1>1, <1>5 DEF NoPair, IsMerge
  <2>2. g[g[p].next].used
    BY <1>1, <2>1 DEF IsMerge
  <2> QED BY <1>3, <2>2 DEF NoPair
<1> QED BY <1>1, <1>2, <1>3, <1>4, <1>5 DEF g, PairMerged

(* The used blocks are those of w, and large enough.                       *)
Owned(h, w, last) ==
  /\ DOMAIN w = UsedBlocks(h, last)
  /\ \A q \in DOMAIN w : w[q] \in Nat \ {0} /\ w[q] <= DataSize(h, q)

LEMMA OwnedFacts ==
  ASSUME NEW h, NEW last, NEW E, Chain(h, last, E), NEW w, Owned(h, w, last)
  PROVE  /\ \A q \in DOMAIN w : /\ q \in DOMAIN h \ {last} /\ h[q].used
                                /\ q \in Nat /\ h[q].next \in Nat /\ w[q] \in Nat \ {0}
                                /\ w[q] <= h[q].next - (q + Header) /\ h[q].next <= last
         /\ IsFiniteSet(DOMAIN w)
<1>1. \A q \in DOMAIN w : q \in DOMAIN h \ {last} /\ h[q].used
  BY DEF Owned, UsedBlocks
<1>2. \A q \in DOMAIN h \ {last} : q \in Nat /\ h[q].next \in Nat /\ h[q].next \in DOMAIN h
  BY NextFacts
<1>3. DOMAIN h \subseteq 0 .. last /\ last \in Nat
  BY DEF Chain, Blocks
<1>4. IsFiniteSet(0 .. last)
  BY <1>3, FS_Interval
<1>5. IsFiniteSet(DOMAIN w)
  BY <1>1, <1>3, <1>4, FS_Subset
<1> QED BY <1>1, <1>2, <1>3, <1>5 DEF Owned, DataSize


-----------------------------------------------------------------------------
(* Walks along the blocks, to the first one of a set S, whose value is v.  *)

Walk(h, S, v, f) == f = [p \in DOMAIN h |-> IF p \in S THEN v[p] ELSE f[h[p].next]]

LEMMA WalkExists ==
  ASSUME NEW h, NEW last, NEW E, Chain(h, last, E), NEW S \in SUBSET DOMAIN h, last \in S, NEW v
  PROVE  \E f : Walk(h, S, v, f)
<1> DEFINE Ahead(p) == {q \in S : q >= p}
           First1(p) == CHOOSE q \in Ahead(p) : \A r \in Ahead(p) : q <= r
           f == [p \in DOMAIN h |-> v[First1(p)]]
<1>1. DOMAIN h \subseteq Nat /\ last \in Nat /\ \A p \in DOMAIN h : p <= last
  BY DEF Chain, Blocks
<1>2. ASSUME NEW p \in DOMAIN h
      PROVE  First1(p) \in Ahead(p) /\ \A r \in Ahead(p) : First1(p) <= r
  <2>1. Ahead(p) \subseteq Nat /\ Ahead(p) # {}
    BY <1>1
  <2> QED BY <2>1, LeastElement
<1>3. ASSUME NEW p \in DOMAIN h PROVE f[p] = IF p \in S THEN v[p] ELSE f[h[p].next]
  <2>1. CASE p \in S
    <3>1. p \in Ahead(p)
      BY <1>1, <2>1
    <3>2. First1(p) <= p /\ First1(p) >= p /\ First1(p) \in Nat
      BY <1>1, <1>2, <3>1
    <3>3. First1(p) = p
      BY <1>1, <3>2
    <3> HIDE DEF First1
    <3> QED BY <2>1, <3>3
  <2>2. CASE p \notin S
    <3>1. p \in DOMAIN h \ {last} /\ h[p].next \in DOMAIN h
      BY <2>2, NextFacts
    <3>2. \A q \in S : q >= p <=> q >= h[p].next
      <4>1. \A q \in DOMAIN h : q > p => q >= h[p].next
        BY <3>1 DEF Chain, Blocks
      <4>2. p < h[p].next /\ h[p].next \in Nat /\ p \in Nat
        BY <3>1, NextFacts
      <4>3. \A q \in S : q \in Nat /\ q \in DOMAIN h /\ q # p
        BY <1>1, <2>2
      <4> QED BY <4>1, <4>2, <4>3
    <3>3. Ahead(p) = Ahead(h[p].next)
      BY <3>2
    <3>4. First1(p) = First1(h[p].next)
      BY <3>3
    <3> HIDE DEF First1
    <3> QED BY <2>2, <3>1, <3>4
  <2> QED BY <2>1, <2>2
<1> HIDE DEF First1
<1>4. f = [p \in DOMAIN h |-> IF p \in S THEN v[p] ELSE f[h[p].next]]
  BY <1>3
<1> QED BY <1>4 DEF Walk

LEMMA WalkEnds ==
  ASSUME NEW h, NEW last, NEW E, Chain(h, last, E), NEW S \in SUBSET DOMAIN h, last \in S,
         NEW v, NEW f, Walk(h, S, v, f), NEW p \in DOMAIN h
  PROVE  \E q \in S : f[p] = v[q]
<1> DEFINE Ends(n) == \A q \in DOMAIN h : last - q <= n => \E r \in S : f[q] = v[r]
           T == {n \in Nat : Ends(n)}
<1>1. /\ DOMAIN h \subseteq Nat /\ last \in Nat /\ last \in DOMAIN h
      /\ \A q \in DOMAIN h : q <= last /\ f[q] = IF q \in S THEN v[q] ELSE f[h[q].next]
  BY DEF Chain, Blocks, Walk
<1>2. 0 \in T
  <2>1. \A q \in DOMAIN h : last - q <= 0 => q = last
    BY <1>1
  <2> QED BY <1>1, <2>1
<1>3. ASSUME NEW n \in T PROVE n + 1 \in T
  <2> SUFFICES ASSUME NEW q \in DOMAIN h, last - q <= n + 1 PROVE \E r \in S : f[q] = v[r]
    BY <1>3
  <2>1. CASE q \in S
    BY <1>1, <2>1
  <2>2. CASE q \notin S
    <3>1. h[q].next \in DOMAIN h /\ q < h[q].next /\ h[q].next \in Nat /\ q \in Nat
      BY <2>2, NextFacts
    <3>2. last - h[q].next <= n
      BY <1>1, <3>1
    <3> QED BY <1>1, <1>3, <2>2, <3>1, <3>2
  <2> QED BY <2>1, <2>2
<1>4. T = Nat
  <2> HIDE DEF T
  <2>1. T \subseteq Nat
    BY DEF T
  <2> QED BY <1>2, <1>3, <2>1, SetInduction
<1>5. last - p \in Nat
  BY <1>1
<1> QED BY <1>4, <1>5

-----------------------------------------------------------------------------
(* The small heap: rt_malloc.                                              *)

MemEnds == {0, heap_end}
MemChain(h) == Chain(h, heap_end, MemEnds)

LEMMA MemSizes ==
  /\ mem_size_aligned \in Nat \ {0} /\ heap_end \in Nat \ {0}
  /\ heap_end = mem_size_aligned + Header /\ heap_end + Header <= End - Begin /\ Null \notin 0 .. heap_end
  /\ Least <= mem_size_aligned
<1>1. /\ AlignDown(End) \in Nat /\ AlignDown(End) <= End
      /\ AlignUp(Begin) \in Nat /\ Begin <= AlignUp(Begin)
      /\ Begin \in Nat /\ End \in Nat /\ Null \notin 0 .. End
  BY AlignFacts, HeapAssumption
<1>2. mem_size_aligned \in Nat \ {0}
  BY <1>1, LeastFacts, MemAssumption, HeapAssumption DEF mem_size_aligned
<1>3. heap_end = mem_size_aligned + Header /\ heap_end + Header <= End - Begin
  BY <1>1, <1>2, LeastFacts DEF mem_size_aligned, heap_end
<1>4. Null \notin 0 .. heap_end
  BY <1>1, <1>2, <1>3, LeastFacts
<1>5. Least <= mem_size_aligned
  BY <1>2 DEF Least
<1> QED BY <1>2, <1>3, <1>4, <1>5, LeastFacts

LEMMA RoundedFacts ==
  ASSUME NEW size \in Nat
  PROVE  /\ Rounded(size) \in Nat /\ Rounded(size) % Align = 0
         /\ Rounded(size) # 0 => size > 0 /\ Rounded(size) >= size /\ Rounded(size) >= MinSize
<1>1. /\ AlignUp(size) \in Nat /\ size <= AlignUp(size) /\ AlignUp(size) % Align = 0
      /\ size = 0 => AlignUp(size) = 0
      /\ MinSize \in Nat \ {0} /\ MinSize % Align = 0 /\ 0 % Align = 0 /\ Align \in Nat \ {0}
  BY AlignFacts, LeastFacts
<1>2. mem_size_aligned \in Nat
  BY MemSizes
<1> QED BY <1>1, <1>2 DEF Rounded

(* rt_malloc finds a free block that is large enough, or none.             *)
LEMMA FirstFitFacts ==
  ASSUME MemChain(heap), lfree \in DOMAIN heap, NEW size \in Nat, FirstFit(size) # Null
  PROVE  /\ FirstFit(size) \in DOMAIN heap \ {heap_end} /\ ~heap[FirstFit(size)].used
         /\ DataSize(heap, FirstFit(size)) >= size
<1> DEFINE Stops(p) == ~(p < mem_size_aligned - size)
           Fits(p) == ~heap[p].used /\ DataSize(heap, p) >= size
           S == {p \in DOMAIN heap : Stops(p) \/ Fits(p)}
           v == [p \in DOMAIN heap |-> IF Stops(p) THEN Null ELSE p]
           Eq(f) == f = [p \in DOMAIN heap |-> IF Stops(p) THEN Null
                                               ELSE IF Fits(p) THEN p ELSE f[heap[p].next]]
           ch == CHOOSE f : Eq(f)
<1>1. mem_size_aligned \in Nat /\ heap_end \in Nat /\ heap_end >= mem_size_aligned
      /\ heap_end \in DOMAIN heap
  BY MemSizes, LeastFacts DEF MemChain, Chain, Blocks
<1>2. heap_end \in S /\ S \in SUBSET DOMAIN heap /\ Stops(heap_end)
  BY <1>1
<1>3. \A f : Walk(heap, S, v, f) <=> Eq(f)
  <2> SUFFICES ASSUME NEW f
               PROVE  [p \in DOMAIN heap |-> IF p \in S THEN v[p] ELSE f[heap[p].next]]
                        = [p \in DOMAIN heap |-> IF Stops(p) THEN Null
                                                 ELSE IF Fits(p) THEN p ELSE f[heap[p].next]]
    BY DEF Walk
  <2> HIDE DEF Stops, Fits
  <2> QED OBVIOUS
<1>4. FirstFit(size) = ch[lfree]
  BY DEF FirstFit
<1> HIDE DEF S, v, Eq
<1>5. \E f : Walk(heap, S, v, f)
  BY <1>2, WalkExists DEF MemChain
<1>6. \E f : Eq(f)
  BY <1>3, <1>5
<1>7. Eq(ch)
  BY <1>6
<1> HIDE DEF ch
<1>8. PICK q \in S : ch[lfree] = v[q]
  BY <1>2, <1>3, <1>7, WalkEnds DEF MemChain
<1>9. v[q] = Null \/ (v[q] = q /\ Fits(q) /\ ~Stops(q))
  BY <1>8 DEF S, v
<1> QED BY <1>2, <1>4, <1>8, <1>9 DEF S

(* rt_malloc moves lfree to a free block, or to the end.                   *)
LEMMA NextFreeFacts ==
  ASSUME NEW h, MemChain(h), NEW p \in DOMAIN h
  PROVE  /\ NextFree(h, p) \in DOMAIN h
         /\ NextFree(h, p) = heap_end \/ ~h[NextFree(h, p)].used
<1> DEFINE S == {q \in DOMAIN h : ~(h[q].used /\ q # heap_end)}
           v == [q \in DOMAIN h |-> q]
           Eq(f) == f = [q \in DOMAIN h |-> IF h[q].used /\ q # heap_end THEN f[h[q].next] ELSE q]
           ch == CHOOSE f : Eq(f)
<1>1. heap_end \in S /\ S \in SUBSET DOMAIN h
  BY DEF MemChain, Chain, Blocks
<1>2. \A f : Walk(h, S, v, f) <=> Eq(f)
  BY DEF Walk
<1>3. NextFree(h, p) = ch[p]
  BY DEF NextFree
<1>4. \A q \in S : v[q] = q
  OBVIOUS
<1> HIDE DEF v, Eq, S
<1>5. \E f : Walk(h, S, v, f)
  BY <1>1, WalkExists DEF MemChain
<1>6. \E f : Eq(f)
  BY <1>2, <1>5
<1>7. Eq(ch)
  BY <1>6
<1> HIDE DEF ch
<1>8. PICK q \in S : ch[p] = v[q]
  BY <1>1, <1>2, <1>7, WalkEnds DEF MemChain
<1> QED BY <1>3, <1>4, <1>8 DEF S

(* Block p of heap becomes used, and what is left of it a free block.      *)
Carved(p, size, h) ==
  /\ MemChain(h) /\ DOMAIN heap \subseteq DOMAIN h /\ h[p].used
  /\ \A q \in DOMAIN heap \ {p} : h[q].used = heap[q].used /\ h[q].next = heap[q].next
  /\ DataSize(h, p) >= size /\ h[0].prev = heap[0].prev
  /\ \/ DOMAIN h = DOMAIN heap /\ h[p].next = heap[p].next
     \/ /\ h[p].next \notin DOMAIN heap /\ DOMAIN h = DOMAIN heap \cup {h[p].next}
        /\ ~h[h[p].next].used /\ h[h[p].next].next = heap[p].next

LEMMA CarveFacts ==
  ASSUME MemChain(heap), NEW p \in DOMAIN heap \ {heap_end}, ~heap[p].used,
         NEW size \in Nat, size >= MinSize, size % Align = 0, DataSize(heap, p) >= size
  PROVE  Carved(p, size, Carve(p, size))
<1> DEFINE rest == p + Header + size
           n == heap[p].next
           m == Marked(heap, p, TRUE)
<1>1. /\ p \in Nat /\ n \in DOMAIN heap \ {0} /\ n \in Nat /\ p < n /\ p # n
      /\ heap \in [DOMAIN heap -> HeaderType] /\ p % Align = 0
      /\ (n = heap_end <=> n \in MemEnds)
  BY NextFacts DEF MemChain, Chain, Blocks, MemEnds
<1>2. /\ MemChain(m) /\ DOMAIN m = DOMAIN heap /\ m[p].used
      /\ \A q \in DOMAIN heap : /\ m[q].next = heap[q].next /\ m[q].prev = heap[q].prev
                                /\ q # p => m[q].used = heap[q].used
  <2>1. MemChain(m) /\ SameLinks(heap, m, p) /\ m[p].used
    BY MarkedFacts DEF MemChain
  <2> HIDE DEF m
  <2> QED BY <2>1 DEF SameLinks
<1> HIDE DEF m
<1>3. CASE ~(DataSize(heap, p) >= size + Header + MinSize)
  <2>1. Carve(p, size) = m
    BY <1>3 DEF Carve, Marked, m
  <2>2. DataSize(m, p) >= size /\ m[0].prev = heap[0].prev
    BY <1>2 DEF DataSize, MemChain, Chain, Blocks
  <2> QED BY <1>2, <2>1, <2>2 DEF Carved
<1>4. CASE DataSize(heap, p) >= size + Header + MinSize
  <2> DEFINE split == [heap EXCEPT ![p].next = rest, ![p].used = TRUE]
             u == IF n # heap_end THEN [split EXCEPT ![n].prev = rest] ELSE split
             g == With(u, rest, FreeHeader(n, p))
  <2>1. Carve(p, size) = g
    BY <1>4 DEF Carve, FreeHeader
  <2>2. rest \in Nat /\ rest % Align = 0
    <3>1. (p + Header) % Align = 0 /\ p + Header \in Nat
      BY <1>1, LeastFacts, MultiplesAdd
    <3> QED BY <3>1, LeastFacts, MultiplesAdd
  <2>3. p + Header + Least <= rest /\ rest + Header + Least <= m[p].next
    <3>1. n - (p + Header) >= size + Header + MinSize
      BY <1>4 DEF DataSize
    <3>2. rest + Header + Least <= n
      BY <1>1, <3>1, LeastFacts
    <3> QED BY <1>1, <1>2, <3>2, LeastFacts
  <2>4. /\ u \in [DOMAIN m -> HeaderType] /\ u[p].next = rest
        /\ \A q \in DOMAIN m : /\ u[q].used = m[q].used
                               /\ q # p => u[q].next = m[q].next
                               /\ q # n => u[q].prev = m[q].prev
        /\ n \notin MemEnds => u[n].prev = rest
    <3>1. /\ split \in [DOMAIN heap -> HeaderType] /\ split[p].next = rest /\ split[p].used
          /\ \A q \in DOMAIN heap : /\ q # p => split[q].used = heap[q].used
                                    /\ q # p => split[q].next = heap[q].next
                                    /\ split[q].prev = heap[q].prev
      BY <1>1, <2>2 DEF HeaderType
    <3> HIDE DEF split
    <3>2. /\ u \in [DOMAIN heap -> HeaderType] /\ u[p].next = rest
          /\ \A q \in DOMAIN heap : /\ u[q].used = split[q].used
                                    /\ q # p => u[q].next = split[q].next
                                    /\ q # n => u[q].prev = split[q].prev
          /\ n # heap_end => u[n].prev = rest
      <4>1. CASE n = heap_end
        BY <3>1, <4>1
      <4>2. CASE n # heap_end
        BY <1>1, <2>2, <3>1, <4>2 DEF HeaderType
      <4> QED BY <4>1, <4>2
    <3> HIDE DEF u, n, rest
    <3>3. ASSUME NEW q \in DOMAIN heap
          PROVE  /\ u[q].used <=> m[q].used
                 /\ q # p => u[q].next = m[q].next
                 /\ q # n => u[q].prev = m[q].prev
      <4>1. CASE q = p
        BY <1>1, <1>2, <3>1, <3>2, <4>1
      <4>2. CASE q # p
        BY <1>1, <1>2, <3>1, <3>2, <4>2
      <4> QED BY <4>1, <4>2
    <3>4. u \in [DOMAIN m -> HeaderType] /\ (n \notin MemEnds => u[n].prev = rest)
      BY <1>1, <1>2, <3>2 DEF MemEnds
    <3>5. \A q \in DOMAIN m : u[q].used = m[q].used
      <4>1. \A q \in DOMAIN m : u[q].used \in BOOLEAN /\ m[q].used \in BOOLEAN
        BY <1>2, <3>4 DEF HeaderType, MemChain, Chain, Blocks
      <4> QED BY <1>2, <3>3, <4>1
    <3> QED BY <1>2, <3>2, <3>3, <3>4, <3>5
  <2>5. /\ n = m[p].next /\ p \in DOMAIN m \ {heap_end}
        /\ g = With(u, rest, FreeHeader(m[p].next, p))
    BY <1>2
  <2> HIDE DEF u, rest, n, g
  <2>6. /\ Chain(g, heap_end, MemEnds) /\ DOMAIN g = DOMAIN m \cup {rest} /\ rest \notin DOMAIN m
        /\ g[p].next = rest /\ g[rest].next = n /\ ~g[rest].used
        /\ \A q \in DOMAIN m : /\ g[q].used = m[q].used
                               /\ q # p => g[q].next = m[q].next
                               /\ q # n => g[q].prev = m[q].prev
    <3>1. Chain(m, heap_end, MemEnds)
      BY <1>2 DEF MemChain
    <3>2. Relinked(m, u, p, rest, MemEnds)
      BY <2>4, <2>5 DEF Relinked
    <3>3. Chain(g, heap_end, MemEnds) /\ IsCut(m, g, p, rest)
      BY <2>2, <2>3, <2>5, <3>1, <3>2, CutFacts
    <3> QED BY <2>5, <3>3 DEF IsCut
  <2>7. g[0].prev = heap[0].prev
    BY <1>1, <1>2, <2>6 DEF MemChain, Chain, Blocks
  <2>8. DataSize(g, p) >= size
    BY <1>1, <2>2, <2>6, LeastFacts DEF DataSize, rest
  <2>9. n = heap[p].next
    BY DEF n
  <2> QED BY <1>2, <2>1, <2>6, <2>7, <2>8, <2>9 DEF Carved, MemChain
<1> QED BY <1>3, <1>4

-----------------------------------------------------------------------------
(* The small heap: its state, and what rt_free does to it.                 *)

UsedSizes == [q \in DOMAIN want |-> heap[q].next - q]

SmallHeap ==
  /\ MemChain(heap) /\ heap[0].prev = 0 /\ heap[heap_end].next = heap_end
  /\ Owned(heap, want, heap_end)
  /\ NoPair(heap, {})
  /\ LfreeValid
  /\ used_mem = Total(UsedSizes)

(* Behind is where rt_free is after "plug hole forward", of a heap that was *)
(* m: p has no free neighbour behind it.                                   *)
Behind(m, X, r, p) ==
  /\ MemChain(r.heap) /\ SameUsed(m, r.heap, heap_end) /\ r.heap[0].prev = 0
  /\ r.heap[heap_end].next = heap_end
  /\ p \in DOMAIN r.heap \ {heap_end} /\ ~r.heap[p].used
  /\ NoPair(r.heap, X \ {p})
  /\ X \ {p} \subseteq {q \in DOMAIN r.heap \ {heap_end} : r.heap[q].next = p}
  /\ r.lfree \in DOMAIN r.heap /\ (r.lfree = heap_end \/ ~r.heap[r.lfree].used)

LEMMA PlugForwardFacts ==
  ASSUME NEW m, MemChain(m), m[0].prev = 0, m[heap_end].next = heap_end, NEW p \in DOMAIN m \ {heap_end}, ~m[p].used,
         NEW X, NoPair(m, X), p \in X,
         X \ {p} \subseteq {q \in DOMAIN m \ {heap_end} : m[q].next = p},
         NEW l \in DOMAIN m, l = heap_end \/ ~m[l].used
  PROVE  Behind(m, X, PlugForward([heap |-> m, lfree |-> l], p), p)
<1> DEFINE n == m[p].next
           r == PlugForward([heap |-> m, lfree |-> l], p)
<1>1. /\ n \in DOMAIN m \ {0} /\ n # p /\ n \notin X
      /\ \A q \in DOMAIN m \ {heap_end} : m[q].next # n \/ q = p
  <2>1. n \in DOMAIN m \ {0} /\ p < n /\ p \in Nat /\ n \in Nat
    BY NextFacts DEF MemChain
  <2>2. \A q \in DOMAIN m \ {heap_end} : m[q].next = n => q = p
    BY NextFacts DEF MemChain
  <2>3. \A q \in DOMAIN m \ {heap_end} : m[q].next = p => q < p /\ q \in Nat
    BY NextFacts DEF MemChain
  <2> QED BY <2>1, <2>2, <2>3
<1>2. CASE ~m[n].used /\ n # heap_end
  <2>1. r.heap = Merged(m, p) /\ r.lfree = p
    BY <1>1, <1>2 DEF PlugForward, Merged
  <2>2. Chain(Merged(m, p), heap_end, MemEnds) /\ IsMerge(m, Merged(m, p), p, n)
    BY <1>2, MergedFacts DEF MemChain
  <2>3. /\ SameUsed(m, Merged(m, p), heap_end) /\ NoPair(Merged(m, p), X \ {p})
        /\ Merged(m, p)[0].prev = m[0].prev
    <3>1. PairMerged(m, Merged(m, p), p, heap_end, MemEnds, X)
      BY <1>2, MergeFree DEF MemChain
    <3> QED BY <1>1, <3>1 DEF PairMerged
  <2>4. /\ p \in DOMAIN r.heap \ {heap_end} /\ ~r.heap[p].used
        /\ X \ {p} \subseteq {q \in DOMAIN r.heap \ {heap_end} : r.heap[q].next = p}
    BY <1>1, <2>1, <2>2 DEF IsMerge
  <2>5. r.heap[heap_end].next = heap_end
    BY <1>2, <2>1, <2>2 DEF IsMerge, MemChain, Chain, Blocks
  <2> QED BY <2>1, <2>2, <2>3, <2>4, <2>5 DEF Behind, MemChain
<1>3. CASE ~(~m[n].used /\ n # heap_end)
  <2>1. r = [heap |-> m, lfree |-> l]
    BY <1>3 DEF PlugForward
  <2>2. r.heap = m /\ r.lfree = l
    BY <2>1
  <2>3. m[n].used
    BY <1>3 DEF MemChain, Chain, Blocks
  <2>4. NoPair(m, X \ {p})
    BY <2>3 DEF NoPair
  <2> QED BY <2>2, <2>4 DEF Behind, SameUsed
<1> QED BY <1>2, <1>3

(* and "plug hole backward" leaves no pair of free neighbours at all.      *)
LEMMA PlugBackwardFacts ==
  ASSUME NEW m, NEW X, NEW r, NEW p, Behind(m, X, r, p)
  PROVE  /\ MemChain(PlugBackward(r, p).heap)
         /\ SameUsed(m, PlugBackward(r, p).heap, heap_end)
         /\ PlugBackward(r, p).heap[0].prev = 0
         /\ PlugBackward(r, p).heap[heap_end].next = heap_end
         /\ NoPair(PlugBackward(r, p).heap, {})
         /\ PlugBackward(r, p).lfree \in DOMAIN PlugBackward(r, p).heap
         /\ \/ PlugBackward(r, p).lfree = heap_end
            \/ ~PlugBackward(r, p).heap[PlugBackward(r, p).lfree].used
<1> DEFINE h == r.heap
           b == h[p].prev
           t == PlugBackward(r, p)
<1>1. /\ MemChain(h) /\ SameUsed(m, h, heap_end) /\ h[0].prev = 0 /\ h[heap_end].next = heap_end
      /\ p \in DOMAIN h \ {heap_end} /\ ~h[p].used /\ NoPair(h, X \ {p})
      /\ X \ {p} \subseteq {q \in DOMAIN h \ {heap_end} : h[q].next = p}
      /\ r.lfree \in DOMAIN h /\ (r.lfree = heap_end \/ ~h[r.lfree].used)
  BY DEF Behind
<1>2. CASE p = 0
  <2>1. b = p
    BY <1>1, <1>2
  <2>2. t = r
    BY <2>1 DEF PlugBackward
  <2>3. X \ {p} = {}
    BY <1>1, <1>2, NextFacts DEF MemChain
  <2> QED BY <1>1, <2>2, <2>3
<1>3. CASE p # 0
  <2>1. p \notin MemEnds
    BY <1>1, <1>3 DEF MemEnds
  <2>2. b \in DOMAIN h \ {heap_end} /\ h[b].next = p /\ b # p
    <3>1. b \in DOMAIN h \ {heap_end} /\ h[b].next = p
      BY <1>1, <2>1 DEF MemChain, Chain, LinkedBack
    <3> QED BY <1>1, <3>1, NextFacts DEF MemChain
  <2>3. X \ {p} \subseteq {b}
    BY <1>1, <2>2, NextFacts DEF MemChain
  <2>4. CASE h[b].used
    <3>1. t = r
      BY <2>4 DEF PlugBackward
    <3>2. NoPair(h, {})
      BY <1>1, <2>3, <2>4 DEF NoPair
    <3> QED BY <1>1, <3>1, <3>2
  <2>5. CASE ~h[b].used
    <3>1. t.heap = Merged(h, b) /\ t.lfree = IF r.lfree = p THEN b ELSE r.lfree
      BY <2>2, <2>5 DEF PlugBackward, Merged
    <3>2. Chain(h, heap_end, MemEnds) /\ NoPair(h, {b}) /\ p \notin {b}
      BY <1>1, <2>2, <2>3 DEF MemChain, NoPair
    <3>3. Chain(Merged(h, b), heap_end, MemEnds) /\ IsMerge(h, Merged(h, b), b, p)
      BY <1>1, <2>2, <3>2, MergedFacts
    <3>4. /\ SameUsed(h, Merged(h, b), heap_end) /\ NoPair(Merged(h, b), {b} \ {b})
          /\ Merged(h, b)[0].prev = h[0].prev
      <4>1. /\ b \in DOMAIN h \ {heap_end} /\ p = h[b].next /\ h[b].next # heap_end
            /\ ~h[b].used /\ ~h[h[b].next].used
        BY <1>1, <2>2, <2>5
      <4> HIDE DEF h, b
      <4>2. PairMerged(h, Merged(h, b), b, heap_end, MemEnds, {b})
        BY <3>2, <4>1, MergeFree
      <4> QED BY <3>2, <4>1, <4>2 DEF PairMerged
    <3>5. SameUsed(m, Merged(h, b), heap_end)
      BY <1>1, <3>4 DEF SameUsed
    <3>6. NoPair(Merged(h, b), {})
      <4>1. {b} \ {b} = {}
        OBVIOUS
      <4> QED BY <3>4, <4>1
    <3>7. t.lfree \in DOMAIN t.heap /\ (t.lfree = heap_end \/ ~t.heap[t.lfree].used)
      BY <1>1, <2>2, <2>5, <3>1, <3>3, SMTT(60) DEF IsMerge
    <3>8. Merged(h, b)[heap_end].next = heap_end
      BY <1>1, <2>2, <3>3 DEF IsMerge, MemChain, Chain, Blocks
    <3> QED BY <1>1, <3>1, <3>3, <3>4, <3>5, <3>6, <3>7, <3>8 DEF MemChain
  <2> QED BY <2>4, <2>5
<1> QED BY <1>2, <1>3

(* The sizes that are summed up                                            *)
LEMMA UsedSizesFacts ==
  ASSUME NEW h, NEW last, NEW E, Chain(h, last, E), NEW w, Owned(h, w, last)
  PROVE  Summable([q \in DOMAIN w |-> h[q].next - q])
<1>1. IsFiniteSet(DOMAIN w) /\ \A q \in DOMAIN w : q \in Nat /\ h[q].next \in Nat
  BY OwnedFacts
<1> QED BY <1>1 DEF Summable

LEMMA FreedFacts ==
  ASSUME SmallHeap, NEW p \in DOMAIN want, Freed(p)
  PROVE  SmallHeap' /\ want' = Absorbed(want, p)
<1> DEFINE m == Marked(heap, p, FALSE)
           l == IF p < lfree THEN p ELSE lfree
           X == {p} \cup {q \in DOMAIN heap \ {heap_end} : heap[q].next = p}
           f == PlugForward([heap |-> m, lfree |-> l], p)
           r == PlugBackward(f, p)
<1>1. /\ Chain(heap, heap_end, MemEnds) /\ p \in DOMAIN heap \ {heap_end} /\ heap[p].used
      /\ heap[0].prev = 0 /\ Owned(heap, want, heap_end) /\ NoPair(heap, {}) /\ LfreeValid
      /\ UsedBlocks(heap, heap_end) = DOMAIN want /\ heap[heap_end].next = heap_end
  BY DEF SmallHeap, MemChain, Owned, UsedBlocks
<1>2. Chain(m, heap_end, MemEnds) /\ SameLinks(heap, m, p) /\ ~m[p].used
  BY <1>1, MarkedFacts
<1>3. heap' = r.heap /\ lfree' = r.lfree /\ used_mem' = used_mem - (heap[p].next - p)
      /\ want' = Absorbed(want, p)
  BY DEF Freed, Marked
<1> HIDE DEF m
<1>4. /\ p \in DOMAIN m \ {heap_end} /\ m[0].prev = 0 /\ m[heap_end].next = heap_end
      /\ l \in DOMAIN m /\ (l = heap_end \/ ~m[l].used)
      /\ X \ {p} \subseteq {q \in DOMAIN m \ {heap_end} : m[q].next = p}
  <2>1. m[0].prev = 0 /\ p \in DOMAIN m \ {heap_end} /\ m[heap_end].next = heap_end
    BY <1>1, <1>2 DEF SameLinks, Chain, Blocks
  <2>2. l \in DOMAIN m /\ (l = heap_end \/ ~m[l].used)
    BY <1>1, <1>2 DEF SameLinks, LfreeValid
  <2> QED BY <1>1, <1>2, <2>1, <2>2 DEF SameLinks
<1>5. NoPair(m, X)
  <2> SUFFICES ASSUME NEW q \in DOMAIN m \ X, ~m[q].used PROVE m[m[q].next].used
    BY DEF NoPair
  <2>1. q \in DOMAIN heap \ {p} /\ ~heap[q].used /\ heap[q].next = m[q].next
    BY <1>2 DEF SameLinks
  <2>2. q # heap_end
    BY <1>1, <2>1 DEF Chain, Blocks
  <2>3. heap[heap[q].next].used /\ heap[q].next # p /\ heap[q].next \in DOMAIN heap
    BY <1>1, <2>1, <2>2, NextFacts DEF NoPair
  <2> QED BY <1>2, <2>1, <2>3 DEF SameLinks
<1>6. Behind(m, X, f, p)
  <2> HIDE DEF l
  <2> QED BY <1>2, <1>4, <1>5, PlugForwardFacts DEF MemChain
<1> HIDE DEF f, l, X
<1>7. /\ MemChain(r.heap) /\ SameUsed(m, r.heap, heap_end) /\ r.heap[0].prev = 0
      /\ r.heap[heap_end].next = heap_end
      /\ NoPair(r.heap, {}) /\ r.lfree \in DOMAIN r.heap
      /\ (r.lfree = heap_end \/ ~r.heap[r.lfree].used)
  BY <1>6, PlugBackwardFacts
<1> HIDE DEF r
<1>8. /\ DOMAIN want' = DOMAIN want \ {p} /\ UsedBlocks(heap', heap_end) = DOMAIN want'
      /\ \A q \in DOMAIN want' : heap'[q].next = heap[q].next /\ want'[q] = want[q]
  <2>1. UsedBlocks(m, heap_end) = DOMAIN want \ {p}
    BY <1>1, <1>2 DEF UsedBlocks, SameLinks
  <2>2. \A q \in DOMAIN want \ {p} : m[q].next = heap[q].next
    BY <1>1, <1>2 DEF UsedBlocks, SameLinks
  <2> QED BY <1>3, <1>7, <2>1, <2>2 DEF SameUsed, Absorbed
<1>9. Owned(heap', want', heap_end)
  BY <1>1, <1>8 DEF Owned, DataSize
<1>10. used_mem' = Total(UsedSizes')
  <2>1. UsedSizes' = Absorbed(UsedSizes, p) /\ p \in DOMAIN UsedSizes
        /\ UsedSizes[p] = heap[p].next - p
    BY <1>8 DEF UsedSizes, Absorbed
  <2>2. Summable(UsedSizes)
    BY <1>1, UsedSizesFacts DEF UsedSizes
  <2>3. Total(UsedSizes') = Total(UsedSizes) - (heap[p].next - p)
    BY <2>1, <2>2, TotalWithout
  <2> QED BY <1>3, <2>3 DEF SmallHeap
<1> QED BY <1>3, <1>7, <1>9, <1>10 DEF SmallHeap, LfreeValid

LEMMA AllocatedFacts ==
  ASSUME SmallHeap, NEW size \in Nat, Found(size) # Null, Allocated(size, Found(size))
  PROVE  /\ SmallHeap' /\ want' = With(want, Found(size), size)
         /\ Found(size) \in Nat \ DOMAIN want /\ Found(size) # Null
<1> DEFINE p == Found(size)
           n == Rounded(size)
           h == Carve(p, n)
<1>1. /\ Chain(heap, heap_end, MemEnds)
      /\ heap[0].prev = 0 /\ Owned(heap, want, heap_end) /\ NoPair(heap, {})
      /\ lfree \in DOMAIN heap /\ (lfree = heap_end \/ ~heap[lfree].used)
      /\ UsedBlocks(heap, heap_end) = DOMAIN want /\ heap[heap_end].next = heap_end
  BY DEF SmallHeap, MemChain, Owned, LfreeValid
<1>2. n # 0 /\ p = FirstFit(n) /\ p # Null
  BY DEF Found
<1>3. n \in Nat /\ n % Align = 0 /\ size > 0 /\ n >= size /\ n >= MinSize
  BY <1>2, RoundedFacts
<1>4. p \in DOMAIN heap \ {heap_end} /\ ~heap[p].used /\ DataSize(heap, p) >= n
  BY <1>1, <1>2, <1>3, FirstFitFacts DEF MemChain
<1> HIDE DEF p, n
<1>5. Carved(p, n, h)
  BY <1>1, <1>3, <1>4, CarveFacts DEF MemChain
<1>6. /\ heap' = h /\ lfree' = (IF p = lfree THEN NextFree(h, lfree) ELSE lfree)
      /\ used_mem' = used_mem + h[p].next - p /\ want' = With(want, p, size)
  BY DEF Allocated, p, n
<1> HIDE DEF h
<1>7. p \in Nat /\ p \notin DOMAIN want
  BY <1>1, <1>4, NextFacts DEF UsedBlocks
<1>8. /\ DOMAIN want' = DOMAIN want \cup {p} /\ want'[p] = size
      /\ \A q \in DOMAIN want : want'[q] = want[q] /\ h[q].next = heap[q].next
      /\ UsedBlocks(h, heap_end) = DOMAIN want'
  <2>1. DOMAIN want' = DOMAIN want \cup {p} /\ want'[p] = size
        /\ \A q \in DOMAIN want : want'[q] = want[q]
    BY <1>6, <1>7 DEF With
  <2>2. \A q \in DOMAIN want : h[q].next = heap[q].next
    BY <1>1, <1>5, <1>7 DEF Carved, UsedBlocks
  <2>3. UsedBlocks(h, heap_end) = UsedBlocks(heap, heap_end) \cup {p}
    <3>1. \A q \in DOMAIN h : q \in DOMAIN heap \/ ~h[q].used
      BY <1>5 DEF Carved
    <3> QED BY <1>4, <1>5, <3>1 DEF Carved, UsedBlocks
  <2> QED BY <1>1, <2>1, <2>2, <2>3
<1>9. MemChain(h) /\ h[0].prev = 0 /\ DataSize(h, p) >= n /\ h[heap_end].next = heap_end
  BY <1>1, <1>4, <1>5 DEF Carved, Chain, Blocks
<1>10. h[p].next \in Nat
  BY <1>4, <1>5, <1>9, NextFacts DEF MemChain, Carved
<1>11. Owned(h, want', heap_end)
  <2>1. want'[p] \in Nat \ {0} /\ want'[p] <= DataSize(h, p)
    BY <1>3, <1>7, <1>8, <1>9, <1>10, LeastFacts DEF DataSize
  <2> QED BY <1>1, <1>8, <2>1 DEF Owned, DataSize
<1>12. NoPair(h, {})
  <2> SUFFICES ASSUME NEW q \in DOMAIN h, ~h[q].used PROVE h[h[q].next].used
    BY DEF NoPair
  <2>1. h[p].used /\ heap[heap[p].next].used
    BY <1>1, <1>4, <1>5 DEF Carved, NoPair
  <2>2. CASE q \in DOMAIN heap
    <3>1. q # p /\ ~heap[q].used /\ h[q].next = heap[q].next /\ q # heap_end
      BY <1>1, <1>5, <2>1, <2>2 DEF Carved, Chain, Blocks
    <3>2. heap[heap[q].next].used /\ heap[q].next \in DOMAIN heap
      BY <1>1, <2>2, <3>1, NextFacts DEF NoPair
    <3> QED BY <1>5, <3>1, <3>2 DEF Carved
  <2>3. CASE q \notin DOMAIN heap
    <3>1. h[q].next = heap[p].next /\ heap[p].next \in DOMAIN heap /\ heap[p].next # p
      BY <1>1, <1>4, <1>5, <2>3, NextFacts DEF Carved
    <3> QED BY <1>5, <2>1, <3>1 DEF Carved
  <2> QED BY <2>2, <2>3
<1>13. lfree' \in DOMAIN h /\ (lfree' = heap_end \/ ~h[lfree'].used)
  <2>1. DOMAIN heap \subseteq DOMAIN h
    BY <1>5 DEF Carved
  <2>2. CASE p = lfree
    BY <1>1, <1>6, <1>9, <2>1, <2>2, NextFreeFacts
  <2>3. CASE p # lfree
    BY <1>1, <1>5, <1>6, <2>1, <2>3 DEF Carved
  <2> QED BY <2>2, <2>3
<1>14. used_mem' = Total(UsedSizes')
  <2>1. /\ UsedSizes' = With(UsedSizes, p, h[p].next - p) /\ p \notin DOMAIN UsedSizes
        /\ h[p].next - p \in Int
    BY <1>6, <1>7, <1>8, <1>10 DEF UsedSizes, With
  <2>2. Summable(UsedSizes)
    BY <1>1, UsedSizesFacts DEF UsedSizes
  <2>3. Total(UsedSizes') = Total(UsedSizes) + (h[p].next - p) /\ Total(UsedSizes) \in Int
    <3>1. Total(UsedSizes') = Total(UsedSizes) + (h[p].next - p)
      BY <2>1, <2>2, TotalWith
    <3> QED BY <2>2, <3>1, TotalInt
  <2> QED BY <1>6, <1>7, <1>10, <2>3 DEF SmallHeap
<1> QED BY <1>2, <1>6, <1>7, <1>9, <1>11, <1>12, <1>13, <1>14 DEF SmallHeap, LfreeValid, p

-----------------------------------------------------------------------------
(* The calls of the clients.                                               *)

(* The blocks that c's call works on                                       *)
Busy(c) == {rmem[c], nmem[c]} \ {Null}

(* A reallocation's blocks are allocated, and are those of no other call.  *)
CallsKept ==
  /\ pc \in [Client -> {"app", "expand", "free", "search", "grow", "shrink", "move"}]
  /\ rmem \in [Client -> Nat \cup {Null}] /\ nmem \in [Client -> Nat \cup {Null}]
  /\ newsize \in [Client -> Nat]
  /\ \A c \in Client : Busy(c) \subseteq DOMAIN want
  /\ \A c, d \in Client : c # d => Busy(c) \cap Busy(d) = {}

(* One client's call takes up blocks that no other call works on, while no *)
(* others of them cease to be allocated.                                   *)
LEMMA CallsStay ==
  ASSUME CallsKept, NEW c \in Client,
         pc' \in [Client -> {"app", "expand", "free", "search", "grow", "shrink", "move"}],
         rmem' \in [Client -> Nat \cup {Null}], nmem' \in [Client -> Nat \cup {Null}],
         newsize' \in [Client -> Nat],
         \A d \in Client \ {c} : /\ rmem'[d] = rmem[d] /\ nmem'[d] = nmem[d]
                                 /\ Busy(d) \subseteq DOMAIN want'
                                 /\ (Busy(c) \cap Busy(d) = {} => Busy(c)' \cap Busy(d) = {}),
         Busy(c)' \subseteq DOMAIN want'
  PROVE  CallsKept'
<1>1. \A d \in Client \ {c} : Busy(d)' = Busy(d)
  BY DEF Busy
<1>2. \A d \in Client : Busy(d)' \subseteq DOMAIN want'
  BY <1>1
<1>3. ASSUME NEW d \in Client, NEW e \in Client, d # e PROVE Busy(d)' \cap Busy(e)' = {}
  <2>1. Busy(d) \cap Busy(e) = {}
    BY <1>3 DEF CallsKept
  <2> QED BY <1>1, <1>3, <2>1
<1> QED BY <1>2, <1>3 DEF CallsKept

(* In particular:                                                          *)
LEMMA CallsGrow ==
  ASSUME CallsKept, UNCHANGED callVars, DOMAIN want \subseteq DOMAIN want'
  PROVE  CallsKept'
BY DEF CallsKept, callVars, Busy

LEMMA CallsFree ==
  ASSUME CallsKept, UNCHANGED callVars, NEW p \in Having, DOMAIN want' = DOMAIN want \ {p}
  PROVE  CallsKept'
<1>1. \A c \in Client : p \notin Busy(c)
  BY DEF Having, Busy
<1> QED BY <1>1 DEF CallsKept, callVars, Busy

LEMMA CallsFinish ==
  ASSUME CallsKept, NEW c \in Client, Finish(c), DOMAIN want \ Busy(c) \subseteq DOMAIN want'
  PROVE  /\ CallsKept' /\ pc'[c] = "app"
         /\ \A d \in Client \ {c} : /\ pc'[d] = pc[d] /\ rmem'[d] = rmem[d] /\ nmem'[d] = nmem[d]
                                    /\ newsize'[d] = newsize[d]
<1>1. /\ pc' \in [Client -> {"app", "expand", "free", "search", "grow", "shrink", "move"}]
      /\ rmem' \in [Client -> Nat \cup {Null}] /\ nmem' \in [Client -> Nat \cup {Null}]
      /\ newsize' \in [Client -> Nat]
      /\ rmem'[c] = Null /\ nmem'[c] = Null /\ pc'[c] = "app"
      /\ \A d \in Client \ {c} : /\ pc'[d] = pc[d] /\ rmem'[d] = rmem[d] /\ nmem'[d] = nmem[d]
                                 /\ newsize'[d] = newsize[d]
  BY DEF Finish, CallsKept
<1>2. Busy(c)' = {}
  BY <1>1 DEF Busy
<1>3. \A d \in Client \ {c} : Busy(d) \subseteq DOMAIN want'
  BY DEF CallsKept
<1> QED BY <1>1, <1>2, <1>3, CallsStay

(* What becomes of the allocations: one more, one less, one of another size*)
WantStep ==
  \/ want' = want
  \/ \E p \in Nat \ DOMAIN want, n \in Nat : want' = With(want, p, n)
  \/ \E p \in DOMAIN want : want' = Absorbed(want, p)
  \/ \E p \in DOMAIN want, n \in Nat : want' = [want EXCEPT ![p] = n]

-----------------------------------------------------------------------------
(* The small heap: every step.                                             *)

SmallCalls == \A c \in Client : pc[c] \in {"app", "expand", "free"}
                                /\ (pc[c] # "app" => rmem[c] # Null)

SmallInv == SmallHeap /\ CallsKept /\ SmallCalls

LEMMA SmallInitial == MemInit => SmallInv
<1> SUFFICES ASSUME MemInit PROVE SmallInv
  OBVIOUS
<1>1. /\ heap_end \in Nat \ {0} /\ heap_end = mem_size_aligned + Header
      /\ mem_size_aligned \in Nat /\ Least <= mem_size_aligned /\ Null \notin 0 .. heap_end
  BY MemSizes
<1>2. /\ DOMAIN heap = {0, heap_end} /\ heap \in [DOMAIN heap -> HeaderType]
      /\ ~heap[0].used /\ heap[heap_end].used /\ heap[0].next = heap_end /\ heap[0].prev = 0
      /\ heap[heap_end].next = heap_end
  <2>1. heap_end \in Nat \ {0}
    BY <1>1
  <2> QED BY ONLY MemInit, <2>1 DEF MemInit, HeaderType
<1>3. 0 % Align = 0
  BY LeastFacts
<1>4. MemChain(heap)
  <2>1. Blocks(heap, heap_end)
    <3>1. DOMAIN heap \ {heap_end} = {0} /\ DOMAIN heap \subseteq 0 .. heap_end
      BY <1>1, <1>2
    <3>2. /\ heap[0].next \in DOMAIN heap /\ 0 + Header + Least <= heap[0].next
          /\ \A q \in DOMAIN heap : q > 0 => q >= heap[0].next
      <4>1. 0 + Header + Least <= heap_end
        BY <1>1, LeastFacts
      <4>2. \A q \in {0, heap_end} : q > 0 => q >= heap_end
        BY <1>1
      <4> QED BY <1>2, <4>1, <4>2
    <3> QED BY <1>1, <1>2, <1>3, <3>1, <3>2 DEF Blocks
  <2>2. LinkedBack(heap, heap_end, MemEnds)
    BY <1>2 DEF LinkedBack, MemEnds
  <2> QED BY <2>1, <2>2 DEF MemChain, Chain, MemEnds
<1>5. DOMAIN want = {} /\ used_mem = 0
  BY DEF MemInit
<1>6. Owned(heap, want, heap_end)
  BY <1>2, <1>5 DEF Owned, UsedBlocks
<1>7. NoPair(heap, {}) /\ LfreeValid
  BY <1>2 DEF NoPair, LfreeValid, MemInit
<1>8. used_mem = Total(UsedSizes)
  BY <1>5, TotalEmpty DEF UsedSizes
<1>9. CallsKept /\ SmallCalls
  BY DEF MemInit, NoCall, CallsKept, SmallCalls, Busy
<1> QED BY <1>2, <1>4, <1>6, <1>7, <1>8, <1>9 DEF SmallInv, SmallHeap

LEMMA SmallStep ==
  ASSUME SmallInv, MemNext
  PROVE  SmallInv' /\ WantStep
<1>0. SmallHeap /\ CallsKept /\ SmallCalls
  BY DEF SmallInv
<1>1. PICK c \in Client :
        \/ \E size \in Sizes : Malloc(c, size) \/ Calloc(c, 2, size)
                               \/ \E p \in Having : Realloc(c, p, size)
        \/ \E p \in Having : Free(c, p)
        \/ ReallocExpand(c) \/ ReallocFree(c)
  BY DEF MemNext
<1>2. Sizes \subseteq Nat /\ Having \subseteq DOMAIN want
  BY HeapAssumption DEF Having
<1>3. \A p \in DOMAIN want : p \in Nat /\ p # Null
  <2>1. /\ \A p \in DOMAIN want : p \in DOMAIN heap
        /\ DOMAIN heap \subseteq 0 .. heap_end /\ heap_end \in Nat /\ Null \notin 0 .. heap_end
    BY <1>0, MemSizes DEF SmallHeap, Owned, UsedBlocks, MemChain, Chain, Blocks
  <2> QED BY <2>1
<1>4. ASSUME NEW n \in Nat, Malloc(c, n) PROVE SmallInv' /\ WantStep
  <2>1. Found(n) # Null /\ Allocated(n, Found(n)) /\ UNCHANGED callVars
    BY <1>4 DEF Malloc
  <2>2. /\ SmallHeap' /\ want' = With(want, Found(n), n)
        /\ Found(n) \in Nat \ DOMAIN want /\ Found(n) # Null
    BY <1>0, <2>1, AllocatedFacts
  <2>3. DOMAIN want \subseteq DOMAIN want'
    BY <2>2 DEF With
  <2>4. CallsKept'
    BY <1>0, <2>1, <2>3, CallsGrow
  <2> QED BY <1>0, <2>1, <2>2, <2>4 DEF SmallInv, SmallCalls, callVars, WantStep
<1>5. ASSUME NEW size \in Sizes, Calloc(c, 2, size) PROVE SmallInv' /\ WantStep
  <2>1. 2 * size \in Nat /\ Malloc(c, 2 * size)
    BY <1>2, <1>5 DEF Calloc
  <2> QED BY <1>4, <2>1
<1>6. ASSUME NEW size \in Sizes, NEW p \in Having, Realloc(c, p, size)
      PROVE  SmallInv' /\ WantStep
  <2>1. AlignUp(size) \in Nat
    BY <1>2, AlignFacts
  <2>2. /\ UNCHANGED memVars
        /\ pc' = [pc EXCEPT ![c] = "expand"] /\ rmem' = [rmem EXCEPT ![c] = p]
        /\ newsize' = [newsize EXCEPT ![c] = AlignUp(size)] /\ nmem' = nmem
    BY <1>6 DEF Realloc
  <2>3. p \in DOMAIN want /\ p \in Nat /\ p # Null
        /\ \A d \in Client : p # rmem[d] /\ p # nmem[d]
    BY <1>2, <1>3 DEF Having
  <2>4. /\ pc' \in [Client -> {"app", "expand", "free", "search", "grow", "shrink", "move"}]
        /\ rmem' \in [Client -> Nat \cup {Null}] /\ nmem' \in [Client -> Nat \cup {Null}]
        /\ newsize' \in [Client -> Nat] /\ rmem'[c] = p /\ pc'[c] = "expand"
        /\ \A d \in Client \ {c} : rmem'[d] = rmem[d] /\ pc'[d] = pc[d]
    BY <1>0, <2>1, <2>2, <2>3 DEF CallsKept
  <2>5. want' = want /\ SmallHeap'
    BY <1>0, <2>2 DEF memVars, SmallHeap, UsedSizes, LfreeValid
  <2>6. Busy(c)' \subseteq Busy(c) \cup {p} /\ \A d \in Client : p \notin Busy(d)
    BY <2>2, <2>3, <2>4 DEF Busy
  <2>7. \A d \in Client : Busy(d) \subseteq DOMAIN want
    BY <1>0 DEF CallsKept
  <2>8. CallsKept'
    <3>1. \A d \in Client \ {c} : /\ rmem'[d] = rmem[d] /\ nmem'[d] = nmem[d]
                                  /\ Busy(d) \subseteq DOMAIN want'
                                  /\ (Busy(c) \cap Busy(d) = {} => Busy(c)' \cap Busy(d) = {})
      BY <2>2, <2>4, <2>5, <2>6, <2>7
    <3>2. Busy(c)' \subseteq DOMAIN want'
      BY <2>3, <2>5, <2>6, <2>7
    <3> QED BY <1>0, <2>4, <3>1, <3>2, CallsStay
  <2> QED BY <1>0, <2>3, <2>4, <2>5, <2>8 DEF SmallInv, SmallCalls, WantStep
<1>7. ASSUME NEW p \in Having, Free(c, p) PROVE SmallInv' /\ WantStep
  <2>1. SmallHeap' /\ want' = Absorbed(want, p) /\ UNCHANGED callVars /\ p \in DOMAIN want
    BY <1>0, <1>2, <1>7, FreedFacts DEF Free
  <2>2. DOMAIN want' = DOMAIN want \ {p}
    BY <2>1 DEF Absorbed
  <2>3. CallsKept'
    BY <1>0, <2>1, <2>2, CallsFree
  <2> QED BY <1>0, <2>1, <2>3 DEF SmallInv, SmallCalls, callVars, WantStep
<1>8. ASSUME ReallocExpand(c) PROVE SmallInv' /\ WantStep
  <2> DEFINE n == newsize[c]
             p == Found(n)
  <2>1. n \in Nat /\ rmem[c] # Null /\ pc[c] = "expand"
    BY <1>0, <1>8 DEF CallsKept, SmallCalls, ReallocExpand
  <2>2. CASE p # Null
    <3>1. /\ Allocated(n, p) /\ nmem' = [nmem EXCEPT ![c] = p]
          /\ pc' = [pc EXCEPT ![c] = "free"] /\ rmem' = rmem /\ newsize' = newsize
      BY <1>8, <2>2 DEF ReallocExpand
    <3> HIDE DEF n
    <3>2. SmallHeap' /\ want' = With(want, p, n) /\ p \in Nat \ DOMAIN want /\ p # Null
      BY <1>0, <2>1, <2>2, <3>1, AllocatedFacts
    <3> HIDE DEF p
    <3>3. DOMAIN want' = DOMAIN want \cup {p}
      BY <3>2 DEF With
    <3>4. \A d \in Client : Busy(d) \subseteq DOMAIN want
      BY <1>0 DEF CallsKept
    <3>5. /\ pc' \in [Client -> {"app", "expand", "free", "search", "grow", "shrink", "move"}]
          /\ nmem' \in [Client -> Nat \cup {Null}] /\ nmem'[c] = p /\ pc'[c] = "free"
          /\ \A d \in Client \ {c} : nmem'[d] = nmem[d] /\ pc'[d] = pc[d]
          /\ rmem' \in [Client -> Nat \cup {Null}] /\ newsize' \in [Client -> Nat]
      BY <1>0, <3>1, <3>2 DEF CallsKept
    <3>6. Busy(c)' \subseteq Busy(c) \cup {p} /\ \A d \in Client : p \notin Busy(d)
      BY <3>1, <3>2, <3>4, <3>5 DEF Busy
    <3>7. CallsKept'
      <4>1. \A d \in Client \ {c} : /\ rmem'[d] = rmem[d] /\ nmem'[d] = nmem[d]
                                    /\ Busy(d) \subseteq DOMAIN want'
                                    /\ (Busy(c) \cap Busy(d) = {} => Busy(c)' \cap Busy(d) = {})
        BY <3>1, <3>3, <3>4, <3>5, <3>6
      <4>2. Busy(c)' \subseteq DOMAIN want'
        BY <3>3, <3>4, <3>6
      <4> QED BY <1>0, <3>5, <4>1, <4>2, CallsStay
    <3>8. SmallCalls'
      BY <1>0, <2>1, <3>1, <3>5 DEF SmallCalls
    <3> QED BY <2>1, <3>2, <3>7, <3>8 DEF SmallInv, WantStep
  <2>3. CASE p = Null
    <3>1. Finish(c) /\ UNCHANGED memVars
      BY <1>8, <2>3 DEF ReallocExpand
    <3>2. SmallHeap' /\ want' = want
      BY <1>0, <3>1 DEF memVars, SmallHeap, UsedSizes, LfreeValid
    <3>3. CallsKept' /\ SmallCalls'
      BY <1>0, <3>1, <3>2, CallsFinish DEF SmallCalls
    <3> QED BY <3>2, <3>3 DEF SmallInv, WantStep
  <2> QED BY <2>2, <2>3
<1>9. ASSUME ReallocFree(c) PROVE SmallInv' /\ WantStep
  <2>1. rmem[c] \in Busy(c) /\ rmem[c] \in DOMAIN want /\ Freed(rmem[c]) /\ Finish(c)
    BY <1>0, <1>9 DEF ReallocFree, SmallCalls, CallsKept, Busy
  <2>2. SmallHeap' /\ want' = Absorbed(want, rmem[c])
    BY <1>0, <2>1, FreedFacts
  <2>3. DOMAIN want \ Busy(c) \subseteq DOMAIN want'
    BY <2>1, <2>2 DEF Absorbed
  <2>4. CallsKept' /\ SmallCalls'
    BY <1>0, <2>1, <2>3, CallsFinish DEF SmallCalls
  <2> QED BY <2>1, <2>2, <2>4 DEF SmallInv, WantStep
<1> QED BY <1>1, <1>2, <1>4, <1>5, <1>6, <1>7, <1>8, <1>9

-----------------------------------------------------------------------------
(* The memory heap: rings of blocks, and the sums of their free memory.    *)

LEMMA TailerFacts ==
  /\ tailer \in Nat \ {0} /\ tailer = pool_size - Header /\ tailer + Header <= End - Begin
  /\ Header + Least <= tailer /\ pool_size \in Nat /\ Null \notin 0 .. tailer
<1>1. End - Begin \in Nat /\ Begin \in Nat /\ End \in Nat /\ Null \notin 0 .. End
  BY HeapAssumption
<1>2. pool_size \in Nat /\ pool_size <= End - Begin
  BY <1>1, AlignFacts DEF pool_size
<1>3. pool_size > 2 * Header
  BY MemHeapAssumption
<1>4. Least = 1 \/ Least <= pool_size - 2 * Header
  BY DEF Least
<1> HIDE DEF pool_size
<1>5. Header + Least <= pool_size - Header
  BY <1>2, <1>3, <1>4, LeastFacts
<1> QED BY <1>1, <1>2, <1>3, <1>5, LeastFacts DEF tailer

RingEnds == {0}

Ring(h, X) ==
  /\ Chain(h, tailer, RingEnds) /\ h[tailer].next = 0 /\ h[0].prev = tailer
  /\ NoPair(h, X)

FreeSizes(h) == [q \in FreeBlocks(h) |-> DataSize(h, q)]
FreeTotal(h) == Total(FreeSizes(h))

LEMMA FreeFacts ==
  ASSUME NEW h, NEW X, Ring(h, X)
  PROVE  /\ \A q \in FreeBlocks(h) : /\ q \in DOMAIN h \ {tailer} /\ q \in Nat /\ h[q].next \in Nat
                                     /\ h[q].next \in DOMAIN h /\ DataSize(h, q) \in Int
         /\ Summable(FreeSizes(h)) /\ FreeTotal(h) \in Int
<1>1. DOMAIN h \subseteq 0 .. tailer /\ h[tailer].used /\ tailer \in Nat
  BY DEF Ring, Chain, Blocks
<1>2. \A q \in FreeBlocks(h) : /\ q \in DOMAIN h \ {tailer} /\ q \in Nat /\ h[q].next \in Nat
                               /\ h[q].next \in DOMAIN h
  BY <1>1, NextFacts DEF Ring, FreeBlocks
<1>3. \A q \in FreeBlocks(h) : DataSize(h, q) \in Int
  BY <1>2, LeastFacts DEF DataSize
<1>4. IsFiniteSet(FreeBlocks(h))
  <2>1. FreeBlocks(h) \subseteq 0 .. tailer /\ IsFiniteSet(0 .. tailer)
    BY <1>1, FS_Interval DEF FreeBlocks
  <2> QED BY <2>1, FS_Subset
<1>5. Summable(FreeSizes(h))
  BY <1>3, <1>4 DEF Summable, FreeSizes
<1> QED BY <1>2, <1>3, <1>5, TotalInt DEF FreeTotal

(* A block becomes free: its size is added.  (It may have a free neighbour *)
(* behind it, and be the free neighbour of the block before it.)           *)
LEMMA RingFreed ==
  ASSUME NEW h, Ring(h, {}), NEW p \in UsedBlocks(h, tailer),
         NEW X, X = {p} \cup {q \in DOMAIN h \ {tailer} : h[q].next = p}
  PROVE  /\ Ring(Marked(h, p, FALSE), X) /\ SameLinks(h, Marked(h, p, FALSE), p)
         /\ FreeBlocks(Marked(h, p, FALSE)) = FreeBlocks(h) \cup {p}
         /\ UsedBlocks(Marked(h, p, FALSE), tailer) = UsedBlocks(h, tailer) \ {p}
         /\ FreeTotal(Marked(h, p, FALSE)) = FreeTotal(h) + DataSize(h, p)
<1> DEFINE m == Marked(h, p, FALSE)
<1>1. p \in DOMAIN h \ {tailer} /\ h[p].used /\ h[tailer].used
  BY DEF UsedBlocks, Ring, Chain, Blocks
<1>2. Chain(m, tailer, RingEnds) /\ SameLinks(h, m, p) /\ ~m[p].used
  BY <1>1, MarkedFacts DEF Ring
<1> HIDE DEF m
<1>3. m[tailer].next = 0 /\ m[0].prev = tailer
  BY <1>2 DEF Ring, Chain, Blocks, SameLinks
<1>4. NoPair(m, X)
  <2> SUFFICES ASSUME NEW q \in DOMAIN m \ X, ~m[q].used PROVE m[m[q].next].used
    BY DEF NoPair
  <2>1. q \in DOMAIN h \ {p} /\ ~h[q].used /\ h[q].next = m[q].next
    BY <1>2 DEF SameLinks
  <2>2. h[h[q].next].used /\ h[q].next # p /\ h[q].next \in DOMAIN h
    BY <1>1, <2>1, NextFacts DEF Ring, NoPair
  <2> QED BY <1>2, <2>1, <2>2 DEF SameLinks
<1>5. Ring(m, X)
  BY <1>2, <1>3, <1>4 DEF Ring
<1>6. /\ FreeBlocks(m) = FreeBlocks(h) \cup {p} /\ p \notin FreeBlocks(h)
      /\ UsedBlocks(m, tailer) = UsedBlocks(h, tailer) \ {p}
      /\ \A q \in FreeBlocks(h) \cup {p} : DataSize(m, q) = DataSize(h, q)
  BY <1>1, <1>2 DEF SameLinks, FreeBlocks, UsedBlocks, DataSize
<1>7. FreeSizes(m) = With(FreeSizes(h), p, DataSize(h, p)) /\ p \notin DOMAIN FreeSizes(h)
  BY <1>6 DEF FreeSizes, With
<1>8. DataSize(h, p) \in Int
  BY <1>1, NextFacts, LeastFacts DEF Ring, DataSize
<1>9. FreeTotal(m) = FreeTotal(h) + DataSize(h, p)
  BY <1>7, <1>8, FreeFacts, TotalWith DEF FreeTotal
<1> QED BY <1>2, <1>5, <1>6, <1>9 DEF m

(* A block is taken: its size is subtracted.                               *)
LEMMA RingTaken ==
  ASSUME NEW h, NEW X, Ring(h, X), NEW p \in FreeBlocks(h)
  PROVE  /\ Ring(Marked(h, p, TRUE), X \ {p}) /\ SameLinks(h, Marked(h, p, TRUE), p)
         /\ FreeBlocks(Marked(h, p, TRUE)) = FreeBlocks(h) \ {p}
         /\ UsedBlocks(Marked(h, p, TRUE), tailer) = UsedBlocks(h, tailer) \cup {p}
         /\ FreeTotal(Marked(h, p, TRUE)) = FreeTotal(h) - DataSize(h, p)
<1> DEFINE m == Marked(h, p, TRUE)
<1>1. p \in DOMAIN h \ {tailer} /\ ~h[p].used /\ h[tailer].used
  BY FreeFacts DEF FreeBlocks, Ring, Chain, Blocks
<1>2. Chain(m, tailer, RingEnds) /\ SameLinks(h, m, p) /\ m[p].used
  BY <1>1, MarkedFacts DEF Ring
<1> HIDE DEF m
<1>3. m[tailer].next = 0 /\ m[0].prev = tailer
  BY <1>2 DEF Ring, Chain, Blocks, SameLinks
<1>4. NoPair(m, X \ {p})
  <2> SUFFICES ASSUME NEW q \in DOMAIN m \ (X \ {p}), ~m[q].used PROVE m[m[q].next].used
    BY DEF NoPair
  <2>1. q \in DOMAIN h \ X /\ q # p /\ ~h[q].used /\ h[q].next = m[q].next
    BY <1>2 DEF SameLinks
  <2>2. h[h[q].next].used /\ h[q].next \in DOMAIN h
    BY <1>1, <2>1, NextFacts DEF Ring, NoPair
  <2> QED BY <1>1, <1>2, <2>1, <2>2 DEF SameLinks
<1>5. Ring(m, X \ {p})
  BY <1>2, <1>3, <1>4 DEF Ring
<1>6. /\ FreeBlocks(m) = FreeBlocks(h) \ {p}
      /\ UsedBlocks(m, tailer) = UsedBlocks(h, tailer) \cup {p}
      /\ \A q \in FreeBlocks(h) : DataSize(m, q) = DataSize(h, q)
  BY <1>1, <1>2 DEF SameLinks, FreeBlocks, UsedBlocks, DataSize
<1>7. FreeSizes(m) = Absorbed(FreeSizes(h), p) /\ p \in DOMAIN FreeSizes(h)
      /\ FreeSizes(h)[p] = DataSize(h, p)
  BY <1>6 DEF FreeSizes, Absorbed
<1>8. FreeTotal(m) = FreeTotal(h) - DataSize(h, p)
  BY <1>7, FreeFacts, TotalWithout DEF FreeTotal
<1> QED BY <1>2, <1>5, <1>6, <1>8 DEF m

(* Two free neighbours become one free block, whose header was not free.   *)
LEMMA RingMerged ==
  ASSUME NEW h, NEW X, Ring(h, X), NEW p \in FreeBlocks(h), h[p].next \in FreeBlocks(h)
  PROVE  /\ Ring(Merged(h, p), X \cup {p})
         /\ h[p].next \notin X => Ring(Merged(h, p), X \ {p})
         /\ SameUsed(h, Merged(h, p), tailer)
         /\ FreeBlocks(Merged(h, p)) = FreeBlocks(h) \ {h[p].next}
         /\ FreeTotal(Merged(h, p)) = FreeTotal(h) + Header
         /\ DataSize(Merged(h, p), p) = DataSize(h, p) + Header + DataSize(h, h[p].next)
         /\ IsMerge(h, Merged(h, p), p, h[p].next)
<1> DEFINE n == h[p].next
           g == Merged(h, p)
<1>1. /\ p \in DOMAIN h \ {tailer} /\ n \in DOMAIN h \ {tailer} /\ ~h[p].used /\ ~h[n].used
      /\ p \in Nat /\ n \in Nat /\ h[n].next \in Nat /\ p # n
      /\ DataSize(h, p) \in Int /\ DataSize(h, n) \in Int /\ Header \in Nat
  <2>1. p \in DOMAIN h \ {tailer} /\ n \in DOMAIN h \ {tailer} /\ p \in Nat /\ n \in Nat
        /\ h[n].next \in Nat /\ DataSize(h, p) \in Int /\ DataSize(h, n) \in Int
    BY FreeFacts
  <2>2. p < n
    BY <2>1, NextFacts DEF Ring
  <2> QED BY <2>1, <2>2, LeastFacts DEF FreeBlocks
<1>2. Chain(g, tailer, RingEnds) /\ IsMerge(h, g, p, n)
  BY <1>1, MergedFacts DEF Ring
<1>3. /\ SameUsed(h, g, tailer) /\ NoPair(g, X \cup {p}) /\ (n \notin X => NoPair(g, X \ {p}))
      /\ g[0].prev = h[0].prev
  <2>1. PairMerged(h, g, p, tailer, RingEnds, X)
    BY <1>1, MergeFree DEF Ring
  <2> QED BY <2>1 DEF PairMerged
<1> HIDE DEF g
<1>4. g[tailer].next = 0
  BY <1>1, <1>2 DEF IsMerge, Ring, Chain, Blocks
<1>5. Ring(g, X \cup {p}) /\ (n \notin X => Ring(g, X \ {p}))
  BY <1>2, <1>3, <1>4 DEF Ring
<1>6. FreeBlocks(g) = FreeBlocks(h) \ {n} /\ p \in FreeBlocks(h) \ {n}
  BY <1>1, <1>2 DEF IsMerge, FreeBlocks
<1>7. /\ DataSize(g, p) = DataSize(h, p) + Header + DataSize(h, n)
      /\ \A q \in FreeBlocks(h) \ {n, p} : DataSize(g, q) = DataSize(h, q)
  <2>1. g[p].next = h[n].next
    BY <1>2 DEF IsMerge
  <2>2. DataSize(g, p) = DataSize(h, p) + Header + DataSize(h, n)
    BY <1>1, <2>1 DEF DataSize
  <2> QED BY <1>2, <2>2 DEF IsMerge, FreeBlocks, DataSize
<1> DEFINE f1 == Absorbed(FreeSizes(h), n)
           f2 == Absorbed(f1, p)
<1>8. /\ n \in DOMAIN FreeSizes(h) /\ p \in DOMAIN f1 /\ p \notin DOMAIN f2
      /\ FreeSizes(h)[n] = DataSize(h, n) /\ f1[p] = DataSize(h, p)
      /\ FreeSizes(g) = With(f2, p, DataSize(g, p))
  BY <1>6, <1>7 DEF FreeSizes, Absorbed, With
<1>9. Summable(FreeSizes(h)) /\ FreeTotal(h) \in Int
  BY FreeFacts
<1>10. Summable(f1) /\ Total(f1) = FreeTotal(h) - DataSize(h, n)
  BY <1>8, <1>9, TotalWithout DEF FreeTotal
<1> HIDE DEF f1
<1>11. Summable(f2) /\ Total(f2) = Total(f1) - DataSize(h, p)
  BY <1>8, <1>10, TotalWithout
<1> HIDE DEF f2
<1>12. DataSize(g, p) \in Int
  BY <1>1, <1>7
<1>13. FreeTotal(g) = Total(f2) + DataSize(g, p)
  BY <1>8, <1>11, <1>12, TotalWith DEF FreeTotal
<1>14. FreeTotal(g) = FreeTotal(h) + Header
  BY <1>1, <1>7, <1>9, <1>10, <1>11, <1>13
<1> QED BY <1>2, <1>3, <1>5, <1>6, <1>7, <1>14 DEF g

(* Block f is merged with the one behind it, if that is free too.          *)
LEMMA RingClosed ==
  ASSUME NEW h, NEW f \in FreeBlocks(h), Ring(h, {f}),
         NEW n, n = h[f].next, NEW g, g = IF h[n].used THEN h ELSE Merged(h, f)
  PROVE  /\ Ring(g, {}) /\ SameUsed(h, g, tailer)
         /\ FreeBlocks(g) = FreeBlocks(h) \ {n} /\ f # n
         /\ FreeTotal(g) = FreeTotal(h) + (IF h[n].used THEN 0 ELSE Header)
         /\ DataSize(g, f) = DataSize(h, f)
                             + (IF h[n].used THEN 0 ELSE Header + DataSize(h, n))
<1>1. n \in DOMAIN h /\ f # n /\ FreeTotal(h) \in Int /\ DataSize(h, f) \in Int
  <2>1. f \in DOMAIN h \ {tailer} /\ f \in Nat /\ FreeTotal(h) \in Int /\ DataSize(h, f) \in Int
    BY FreeFacts
  <2>2. n \in DOMAIN h /\ f < n
    BY <2>1, NextFacts DEF Ring
  <2> QED BY <2>1, <2>2
<1>2. CASE h[n].used
  <2>1. g = h /\ FreeBlocks(h) = FreeBlocks(h) \ {n}
    BY <1>2 DEF FreeBlocks
  <2>2. Ring(h, {})
    BY <1>2 DEF Ring, NoPair
  <2> QED BY <1>1, <1>2, <2>1, <2>2 DEF SameUsed
<1>3. CASE ~h[n].used
  <2>1. n \in FreeBlocks(h) /\ n \notin {f} /\ g = Merged(h, f)
    BY <1>1, <1>3 DEF FreeBlocks
  <2>2. /\ Ring(g, {f} \ {f}) /\ SameUsed(h, g, tailer)
        /\ FreeBlocks(g) = FreeBlocks(h) \ {n} /\ FreeTotal(g) = FreeTotal(h) + Header
        /\ DataSize(g, f) = DataSize(h, f) + Header + DataSize(h, n)
    BY <2>1, RingMerged, SMTT(60)
  <2>3. {f} \ {f} = {}
    OBVIOUS
  <2>4. DataSize(h, n) \in Int /\ Header \in Nat
    BY <2>1, FreeFacts, LeastFacts
  <2>5. DataSize(g, f) = DataSize(h, f) + (Header + DataSize(h, n))
    BY <1>1, <2>2, <2>4
  <2>6. Ring(g, {})
    BY <2>2, <2>3
  <2> QED BY <1>1, <1>3, <2>2, <2>5, <2>6
<1> QED BY <1>2, <1>3

(* The end of a used block, behind size bytes, becomes a free block.       *)
RingCutTo(h, g, X, p, size) ==
  /\ Ring(g, X \cup {Rest(p, size)}) /\ IsCut(h, g, p, Rest(p, size))
  /\ h[h[p].next].used => Ring(g, X)
  /\ UsedBlocks(g, tailer) = UsedBlocks(h, tailer)
  /\ FreeBlocks(g) = FreeBlocks(h) \cup {Rest(p, size)}
  /\ DataSize(g, p) = size
  /\ FreeTotal(g) = FreeTotal(h) + DataSize(g, Rest(p, size))

LEMMA RingCut ==
  ASSUME NEW h, NEW X, Ring(h, X), NEW p \in UsedBlocks(h, tailer),
         NEW size \in Nat, size % Align = 0, size >= Least,
         Rest(p, size) + Header + Least <= h[p].next
  PROVE  RingCutTo(h, Split(h, p, size), X, p, size)
<1> DEFINE g == Split(h, p, size)
           r == Rest(p, size)
           n == h[p].next
           u == [h EXCEPT ![p].next = r, ![n].prev = r]
<1>1. /\ p \in DOMAIN h \ {tailer} /\ h[p].used /\ p \in Nat /\ n \in DOMAIN h /\ n \in Nat /\ p # n
      /\ n # 0
      /\ h \in [DOMAIN h -> HeaderType] /\ p % Align = 0 /\ tailer \in DOMAIN h /\ 0 \in DOMAIN h
  <2>1. p \in DOMAIN h \ {tailer} /\ h[p].used
    BY DEF UsedBlocks
  <2>2. p \in Nat /\ n \in DOMAIN h \ {0} /\ n \in Nat /\ p < n
    BY <2>1, NextFacts DEF Ring
  <2> QED BY <2>1, <2>2 DEF Ring, Chain, Blocks
<1>2. r \in Nat /\ r % Align = 0 /\ p + Header + Least <= r /\ r = p + Header + size
  <2>1. (p + Header) % Align = 0 /\ p + Header \in Nat
    BY <1>1, LeastFacts, MultiplesAdd
  <2>2. (p + Header + size) % Align = 0 /\ p + Header + size \in Nat
    BY <2>1, LeastFacts, MultiplesAdd
  <2> QED BY <1>1, <2>2, LeastFacts DEF Rest
<1>3. Relinked(h, u, p, r, RingEnds)
  BY <1>1, <1>2 DEF Relinked, HeaderType
<1>4. g = With(u, r, FreeHeader(n, p))
  BY DEF Split, FreeHeader
<1> HIDE DEF u, g
<1>5. Chain(g, tailer, RingEnds) /\ IsCut(h, g, p, r)
  BY <1>1, <1>2, <1>3, <1>4, CutFacts DEF Ring
<1>6. g[tailer].next = 0 /\ g[0].prev = tailer
  BY <1>1, <1>5 DEF IsCut, Ring
<1>7. ASSUME NEW q \in DOMAIN g \ (X \cup {r}), ~g[q].used PROVE g[g[q].next].used
  <2>1. q \in DOMAIN h \ X /\ ~h[q].used /\ q # p /\ q # tailer
    BY <1>1, <1>5, <1>7 DEF IsCut, Ring, Chain, Blocks
  <2>2. h[h[q].next].used /\ h[q].next \in DOMAIN h
    BY <2>1, NextFacts DEF Ring, NoPair
  <2> QED BY <1>5, <2>1, <2>2 DEF IsCut
<1>8. Ring(g, X \cup {r})
  BY <1>5, <1>6, <1>7 DEF Ring, NoPair
<1>9. ASSUME h[n].used PROVE Ring(g, X)
  <2>1. g[g[r].next].used
    BY <1>1, <1>5, <1>9 DEF IsCut
  <2>2. NoPair(g, X)
    BY <1>7, <2>1 DEF NoPair
  <2> QED BY <1>5, <1>6, <2>2 DEF Ring
<1>10. /\ UsedBlocks(g, tailer) = UsedBlocks(h, tailer)
       /\ FreeBlocks(g) = FreeBlocks(h) \cup {r} /\ r \notin FreeBlocks(h)
       /\ \A q \in FreeBlocks(h) : DataSize(g, q) = DataSize(h, q)
  BY <1>1, <1>5 DEF IsCut, UsedBlocks, FreeBlocks, DataSize
<1>11. /\ FreeSizes(g) = With(FreeSizes(h), r, DataSize(g, r)) /\ r \notin DOMAIN FreeSizes(h)
  BY <1>10 DEF FreeSizes, With
<1>12. DataSize(g, r) \in Int /\ DataSize(g, p) = size
  BY <1>1, <1>2, <1>5, LeastFacts DEF DataSize, IsCut
<1>13. FreeTotal(g) = FreeTotal(h) + DataSize(g, r)
  BY <1>11, <1>12, FreeFacts, TotalWith DEF FreeTotal
<1> QED BY <1>5, <1>8, <1>9, <1>10, <1>12, <1>13 DEF g, RingCutTo

-----------------------------------------------------------------------------
(* The memory heap: its state, and what rt_memheap_free does to it.        *)

(* The list has the free blocks, each once.                                *)
Indexed(h, list) ==
  list \in Seq(Nat) /\ NoRepeat(list) /\ Elements(list) = FreeBlocks(h)

RingHeap ==
  /\ Ring(heap, {}) /\ Owned(heap, want, tailer)
  /\ Indexed(heap, free_list) /\ available_size = FreeTotal(heap)

(* The used blocks of g are those of h but p, and where they were.         *)
UsedBut(h, g, p) ==
  /\ UsedBlocks(g, tailer) = UsedBlocks(h, tailer) \ {p}
  /\ \A q \in UsedBlocks(h, tailer) \ {p} : g[q].next = h[q].next

(* Block p of h is free in w, and merged with the block before it, if that *)
(* is free: the block at f is what they are now.                           *)
LeftMerged(h, p, w, f) ==
  /\ Ring(w, {f}) /\ f \in FreeBlocks(w) /\ w[f].next = h[p].next
  /\ UsedBut(h, w, p) /\ h[p].next \in DOMAIN h /\ h[p].next # p
  /\ w[h[p].next].used = h[h[p].next].used
  /\ FreeBlocks(w) = FreeBlocks(h) \cup (IF h[h[p].prev].used THEN {p} ELSE {})
  /\ FreeTotal(w) = FreeTotal(h) + DataSize(h, p)
                      + (IF h[h[p].prev].used THEN 0 ELSE Header)

LEMMA LeftMergedFacts ==
  ASSUME NEW h, Ring(h, {}), NEW p \in UsedBlocks(h, tailer),
         NEW f, f = IF h[h[p].prev].used THEN p ELSE h[p].prev,
         NEW w, w = IF h[h[p].prev].used THEN Marked(h, p, FALSE)
                    ELSE Merged(Marked(h, p, FALSE), f)
  PROVE  LeftMerged(h, p, w, f)
<1> DEFINE m == Marked(h, p, FALSE)
           b == h[p].prev
           n == h[p].next
           X == {p} \cup {q \in DOMAIN h \ {tailer} : h[q].next = p}
<1>1. /\ p \in DOMAIN h \ {tailer} /\ h[p].used /\ p \in Nat /\ n \in DOMAIN h /\ n # p
      /\ DataSize(h, p) \in Int /\ FreeTotal(h) \in Int
  <2>1. p \in DOMAIN h \ {tailer} /\ h[p].used
    BY DEF UsedBlocks
  <2>2. p \in Nat /\ n \in DOMAIN h /\ p < n /\ n \in Nat
    BY <2>1, NextFacts DEF Ring
  <2>3. DataSize(h, p) \in Int
    BY <2>2, LeastFacts DEF DataSize
  <2> QED BY <2>1, <2>2, <2>3, FreeFacts
<1>2. /\ Ring(m, X) /\ SameLinks(h, m, p) /\ FreeBlocks(m) = FreeBlocks(h) \cup {p}
      /\ UsedBlocks(m, tailer) = UsedBlocks(h, tailer) \ {p}
      /\ FreeTotal(m) = FreeTotal(h) + DataSize(h, p)
  BY RingFreed
<1> HIDE DEF m
<1>3. \A q \in UsedBlocks(h, tailer) : m[q].next = h[q].next
  BY <1>2 DEF UsedBlocks, SameLinks
<1>4. p = 0 => b = tailer
  BY DEF Ring
<1>5. h[tailer].used
  BY DEF Ring, Chain, Blocks
<1>6. p # 0 => b \in DOMAIN h \ {tailer} /\ h[b].next = p /\ b # p
  <2> SUFFICES ASSUME p # 0 PROVE b \in DOMAIN h \ {tailer} /\ h[b].next = p /\ b # p
    OBVIOUS
  <2>1. b \in DOMAIN h \ {tailer} /\ h[b].next = p
    BY <1>1 DEF Ring, Chain, LinkedBack, RingEnds
  <2> QED BY <1>1, <2>1
<1>7. p # 0 => X \subseteq {p, b}
  BY <1>6, NextFacts DEF Ring
<1>8. p = 0 => X \subseteq {p}
  BY <1>1, NextFacts DEF Ring
<1> HIDE DEF X
<1>9. CASE h[b].used
  <2>1. w = m /\ f = p
    BY <1>9 DEF m
  <2>2. NoPair(m, {p})
    <3>1. p # 0 => m[b].used
      BY <1>2, <1>6, <1>9 DEF SameLinks
    <3> QED BY <1>2, <1>7, <1>8, <3>1 DEF Ring, NoPair
  <2>3. Ring(m, {p}) /\ m[p].next = n /\ m[n].used = h[n].used
    BY <1>1, <1>2, <2>2 DEF Ring, SameLinks
  <2>4. UsedBut(h, m, p)
    BY <1>2, <1>3 DEF UsedBut
  <2>5. p \in FreeBlocks(m)
    BY <1>2
  <2>6. FreeTotal(m) = FreeTotal(h) + DataSize(h, p) + 0
    BY <1>1, <1>2
  <2> QED BY <1>1, <1>2, <1>9, <2>1, <2>3, <2>4, <2>5, <2>6 DEF LeftMerged
<1>10. CASE ~h[b].used
  <2>1. p # 0 /\ b \in DOMAIN h \ {tailer} /\ h[b].next = p /\ b # p
    BY <1>4, <1>5, <1>6, <1>10
  <2>2. w = Merged(m, b) /\ f = b
    BY <1>10 DEF m
  <2>3. b \in FreeBlocks(m) /\ m[b].next = p /\ p \in FreeBlocks(m)
    BY <1>2, <1>10, <2>1 DEF FreeBlocks, SameLinks
  <2>4. /\ Ring(w, X \cup {b}) /\ SameUsed(m, w, tailer) /\ FreeBlocks(w) = FreeBlocks(m) \ {p}
        /\ FreeTotal(w) = FreeTotal(m) + Header /\ IsMerge(m, w, b, p)
    <3>1. Ring(m, X) /\ b \in FreeBlocks(m) /\ m[b].next \in FreeBlocks(m)
      BY <1>2, <2>3
    <3> HIDE DEF b
    <3>2. /\ Ring(Merged(m, b), X \cup {b}) /\ SameUsed(m, Merged(m, b), tailer)
          /\ FreeBlocks(Merged(m, b)) = FreeBlocks(m) \ {m[b].next}
          /\ FreeTotal(Merged(m, b)) = FreeTotal(m) + Header
          /\ IsMerge(m, Merged(m, b), b, m[b].next)
      BY <3>1, RingMerged
    <3> QED BY <2>2, <2>3, <3>2
  <2>5. w[b].next = n /\ n \in DOMAIN w /\ w[n].used = h[n].used
    <3>1. m[p].next = n /\ m[n].used = h[n].used
      BY <1>1, <1>2 DEF SameLinks
    <3>2. w[b].next = n
      BY <2>4, <3>1 DEF IsMerge
    <3>3. n \in DOMAIN w /\ w[n].used = m[n].used
      BY <2>4, <3>1 DEF IsMerge
    <3> QED BY ONLY <3>1, <3>2, <3>3
  <2>6. Ring(w, {b})
    <3>1. X \cup {b} \subseteq {p, b} /\ p \notin DOMAIN w
      BY <1>7, <2>1, <2>4 DEF IsMerge
    <3> QED BY <2>4, <3>1 DEF Ring, NoPair
  <2>7. UsedBut(h, w, p)
    BY <1>2, <1>3, <2>4 DEF UsedBut, SameUsed
  <2>8. FreeBlocks(w) = FreeBlocks(h)
    BY <1>1, <1>2, <2>4 DEF FreeBlocks
  <2>9. b \in FreeBlocks(w) /\ FreeTotal(w) = FreeTotal(h) + DataSize(h, p) + Header
    BY <1>2, <1>10, <2>1, <2>4, <2>8 DEF FreeBlocks
  <2> QED BY <1>1, <1>10, <2>2, <2>5, <2>6, <2>7, <2>8, <2>9 DEF LeftMerged
<1> QED BY <1>9, <1>10

LEMMA ReturnedFacts ==
  ASSUME RingHeap, NEW p \in DOMAIN want, Returned(p)
  PROVE  /\ RingHeap' /\ want' = Absorbed(want, p)
         /\ \A q \in DOMAIN want \ {p} : heap'[q].next = heap[q].next
<1> DEFINE left == ~heap[heap[p].prev].used
           n == heap[p].next
           right == ~heap[n].used
           f == IF heap[heap[p].prev].used THEN p ELSE heap[p].prev
           w == IF heap[heap[p].prev].used THEN Marked(heap, p, FALSE)
                ELSE Merged(Marked(heap, p, FALSE), f)
           list == IF right THEN Unlisted(n) ELSE free_list
<1>1. /\ Ring(heap, {}) /\ Owned(heap, want, tailer) /\ Indexed(heap, free_list)
      /\ available_size = FreeTotal(heap) /\ UsedBlocks(heap, tailer) = DOMAIN want
  BY DEF RingHeap, Owned
<1>2. /\ heap' = (IF heap[n].used THEN w ELSE Merged(w, f))
      /\ free_list' = (IF left THEN list ELSE <<p>> \o list)
      /\ available_size' = available_size + DataSize(heap, p)
                             + (IF left THEN Header ELSE 0) + (IF right THEN Header ELSE 0)
      /\ want' = Absorbed(want, p)
  BY DEF Returned, Marked
<1>3. LeftMerged(heap, p, w, f)
  BY <1>1, LeftMergedFacts
<1> HIDE DEF f, w
<1>4. /\ Ring(w, {f}) /\ f \in FreeBlocks(w) /\ w[f].next = n
      /\ UsedBut(heap, w, p) /\ n \in DOMAIN heap /\ n # p
      /\ w[n].used = heap[n].used
      /\ FreeBlocks(w) = FreeBlocks(heap) \cup (IF left THEN {} ELSE {p})
      /\ FreeTotal(w) = FreeTotal(heap) + DataSize(heap, p) + (IF left THEN Header ELSE 0)
  BY <1>3 DEF LeftMerged
<1>5. heap' = (IF w[n].used THEN w ELSE Merged(w, f))
  BY <1>2, <1>4
<1>6. /\ Ring(heap', {}) /\ SameUsed(w, heap', tailer)
      /\ FreeBlocks(heap') = FreeBlocks(w) \ {n}
      /\ FreeTotal(heap') = FreeTotal(w) + (IF w[n].used THEN 0 ELSE Header)
  BY <1>4, <1>5, RingClosed
<1>7. available_size' = FreeTotal(heap')
  BY <1>1, <1>2, <1>4, <1>6
<1>8. Indexed(heap', free_list')
  <2>1. /\ free_list \in Seq(Nat) /\ NoRepeat(free_list) /\ Elements(free_list) = FreeBlocks(heap)
        /\ p \in Nat /\ p \notin FreeBlocks(heap)
    <3>1. p \in DOMAIN heap \ {tailer} /\ heap[p].used
      BY <1>1 DEF UsedBlocks
    <3>2. p \in Nat
      BY <1>1, <3>1, NextFacts DEF Ring
    <3> QED BY <1>1, <3>1, <3>2 DEF Indexed, FreeBlocks
  <2>2. list \in Seq(Nat) /\ NoRepeat(list) /\ Elements(list) = FreeBlocks(heap) \ {n}
    <3>1. CASE right
      BY <2>1, <3>1, WithoutFacts DEF Unlisted
    <3>2. CASE ~right
      <4>1. n \notin FreeBlocks(heap)
        BY <3>2 DEF FreeBlocks
      <4> QED BY <2>1, <3>2, <4>1
    <3> QED BY <3>1, <3>2
  <2>3. FreeBlocks(heap') = (FreeBlocks(heap) \ {n}) \cup (IF left THEN {} ELSE {p})
    BY <1>4, <1>6
  <2> HIDE DEF list, left
  <2>4. CASE left
    BY <1>2, <2>2, <2>3, <2>4 DEF Indexed
  <2>5. CASE ~left
    <3>1. p \notin Elements(list)
      BY <2>1, <2>2
    <3>2. /\ <<p>> \o list \in Seq(Nat) /\ NoRepeat(<<p>> \o list)
          /\ Elements(<<p>> \o list) = Elements(list) \cup {p}
      BY <2>1, <2>2, <3>1, ConsFacts
    <3> QED BY <1>2, <2>2, <2>3, <2>5, <3>2 DEF Indexed
  <2> QED BY <2>4, <2>5
<1>9. /\ UsedBlocks(heap', tailer) = DOMAIN want \ {p}
      /\ \A q \in DOMAIN want \ {p} : heap'[q].next = heap[q].next
  BY <1>1, <1>4, <1>6 DEF UsedBut, SameUsed
<1>10. Owned(heap', want', tailer)
  BY <1>1, <1>2, <1>9 DEF Owned, Absorbed, DataSize
<1> QED BY <1>2, <1>6, <1>7, <1>8, <1>9, <1>10 DEF RingHeap

(* rt_memheap_alloc                                                        *)
LEMMA MarkedSplit ==
  ASSUME NEW h, NEW X, Ring(h, X), NEW p \in DOMAIN h \ {tailer}, NEW size \in Nat
  PROVE  [Split(h, p, size) EXCEPT ![p].used = TRUE] = Split(Marked(h, p, TRUE), p, size)
<1> DEFINE n == h[p].next
           r == Rest(p, size)
           m == Marked(h, p, TRUE)
           g == Split(h, p, size)
           k == Split(m, p, size)
<1>1. /\ p \in Nat /\ n \in DOMAIN h /\ p < n /\ h \in [DOMAIN h -> HeaderType] /\ p # r
      /\ n \in Nat
  <2>1. p \in Nat /\ n \in DOMAIN h /\ p < n /\ n \in Nat
    BY NextFacts DEF Ring
  <2>2. p # r
    BY <2>1, LeastFacts DEF Rest
  <2> QED BY <2>1, <2>2 DEF Ring, Chain, Blocks
<1>2. /\ m \in [DOMAIN h -> HeaderType] /\ m[p].next = n
      /\ m[p] = [h[p] EXCEPT !.used = TRUE] /\ \A q \in DOMAIN h \ {p} : m[q] = h[q]
  BY <1>1 DEF Marked, HeaderType
<1> HIDE DEF m, r
<1>3. /\ DOMAIN g = DOMAIN h \cup {r} /\ DOMAIN k = DOMAIN h \cup {r}
      /\ g = [q \in DOMAIN g |-> g[q]] /\ k = [q \in DOMAIN k |-> k[q]]
  BY <1>2 DEF Split, With, r
<1>4. r \in DOMAIN g /\ g[r] = FreeHeader(n, p) /\ k[r] = FreeHeader(n, p)
  BY <1>2 DEF Split, With, FreeHeader, r
<1>5. \A q \in DOMAIN h \ {p, r} : g[q] = k[q]
  BY <1>1, <1>2 DEF Split, With, r
<1>6. g[p] = [h[p] EXCEPT !.next = r] /\ k[p] = [m[p] EXCEPT !.next = r]
  BY <1>1, <1>2 DEF Split, With, r
<1>7. [g[p] EXCEPT !.used = TRUE] = k[p]
  BY <1>1, <1>2, <1>6 DEF HeaderType
<1> HIDE DEF g, k
<1>8. [g EXCEPT ![p].used = TRUE] = k
  BY <1>1, <1>3, <1>4, <1>5, <1>7
<1> QED BY <1>8 DEF g, k, m

LEMMA TakenFacts ==
  ASSUME RingHeap, NEW p \in FreeBlocks(heap), NEW size \in Nat, size >= MinSize,
         size % Align = 0, DataSize(heap, p) >= size, Taken(p, size)
  PROVE  /\ RingHeap' /\ want' = With(want, p, size) /\ p \in Nat \ DOMAIN want
         /\ \A q \in DOMAIN want : heap'[q].next = heap[q].next
<1> DEFINE n == heap[p].next
           r == Rest(p, size)
           m == Marked(heap, p, TRUE)
<1>1. /\ Ring(heap, {}) /\ Owned(heap, want, tailer) /\ Indexed(heap, free_list)
      /\ available_size = FreeTotal(heap) /\ UsedBlocks(heap, tailer) = DOMAIN want
  BY DEF RingHeap, Owned
<1>2. /\ p \in DOMAIN heap \ {tailer} /\ p \in Nat /\ n \in Nat /\ n \in DOMAIN heap /\ p < n
      /\ DataSize(heap, p) \in Int /\ FreeTotal(heap) \in Int /\ ~heap[p].used
  <2>1. /\ p \in DOMAIN heap \ {tailer} /\ p \in Nat /\ n \in Nat /\ n \in DOMAIN heap
        /\ DataSize(heap, p) \in Int /\ FreeTotal(heap) \in Int /\ ~heap[p].used
    BY <1>1, FreeFacts DEF FreeBlocks
  <2> QED BY <1>1, <2>1, NextFacts DEF Ring
<1>3. p \notin DOMAIN want
  BY <1>1, <1>2 DEF UsedBlocks
<1>4. heap[n].used
  BY <1>1, <1>2 DEF Ring, NoPair
<1>5. /\ Ring(m, {}) /\ SameLinks(heap, m, p) /\ FreeBlocks(m) = FreeBlocks(heap) \ {p}
      /\ UsedBlocks(m, tailer) = DOMAIN want \cup {p}
      /\ FreeTotal(m) = FreeTotal(heap) - DataSize(heap, p)
  <2>1. {} \ {p} = {}
    OBVIOUS
  <2>2. Ring(m, {} \ {p})
    BY <1>1, RingTaken
  <2> QED BY <1>1, <2>1, <2>2, RingTaken
<1>6. m = [heap EXCEPT ![p].used = TRUE]
  BY DEF Marked
<1> HIDE DEF m
<1>7. m[p].next = n /\ m[n].used /\ \A q \in DOMAIN want : m[q].next = heap[q].next
  BY <1>1, <1>2, <1>4, <1>5 DEF SameLinks, UsedBlocks
<1>8. want' = With(want, p, size)
  BY DEF Taken
<1>9. /\ free_list \in Seq(Nat) /\ Unlisted(p) \in Seq(Nat) /\ NoRepeat(Unlisted(p))
      /\ Elements(Unlisted(p)) = FreeBlocks(heap) \ {p}
  BY <1>1, WithoutFacts DEF Unlisted, Indexed
<1>10. /\ DOMAIN want' = DOMAIN want \cup {p} /\ want'[p] = size
       /\ \A q \in DOMAIN want : want'[q] = want[q]
  BY <1>3, <1>8 DEF With
<1>11. size > 0
  BY LeastFacts
<1>12. ASSUME NEW h, heap' = h, UsedBlocks(h, tailer) = DOMAIN want \cup {p},
              \A q \in DOMAIN want : h[q].next = heap[q].next, DataSize(h, p) >= size
       PROVE  Owned(heap', want', tailer)
  BY <1>1, <1>10, <1>11, <1>12 DEF Owned, DataSize
<1>13. CASE ~(DataSize(heap, p) > size + Header + MinSize)
  <2>1. /\ heap' = m /\ free_list' = Unlisted(p)
        /\ available_size' = available_size - DataSize(heap, p)
    BY <1>6, <1>13 DEF Taken
  <2>2. DataSize(m, p) = DataSize(heap, p)
    BY <1>7 DEF DataSize
  <2>3. Owned(heap', want', tailer)
    BY <1>5, <1>7, <1>12, <2>1, <2>2
  <2> QED BY <1>1, <1>2, <1>3, <1>5, <1>7, <1>8, <1>9, <2>1, <2>3 DEF RingHeap, Indexed
<1>14. CASE DataSize(heap, p) > size + Header + MinSize
  <2> DEFINE g == Split(m, p, size)
  <2>1. /\ heap' = [Split(heap, p, size) EXCEPT ![p].used = TRUE]
        /\ free_list' = <<r>> \o Unlisted(p)
        /\ available_size' = available_size - size - Header
    BY <1>14 DEF Taken
  <2>2. heap' = g
    BY <1>1, <1>2, <2>1, MarkedSplit DEF m
  <2>3. r + Header + Least <= m[p].next /\ size >= Least /\ p \in UsedBlocks(m, tailer)
    BY <1>2, <1>5, <1>7, <1>14, LeastFacts DEF Rest, DataSize
  <2>4. /\ Ring(g, {}) /\ IsCut(m, g, p, r)
        /\ UsedBlocks(g, tailer) = UsedBlocks(m, tailer)
        /\ FreeBlocks(g) = FreeBlocks(m) \cup {r} /\ DataSize(g, p) = size
        /\ FreeTotal(g) = FreeTotal(m) + DataSize(g, r)
    <3>1. RingCutTo(m, g, {}, p, size)
      BY <1>5, <2>3, RingCut
    <3> QED BY <1>7, <3>1 DEF RingCutTo
  <2> HIDE DEF g
  <2>5. DataSize(g, r) = DataSize(heap, p) - size - Header /\ r \in Nat /\ Header \in Nat
    BY <1>2, <1>7, <2>4, LeastFacts DEF IsCut, DataSize, Rest
  <2>6. available_size' = FreeTotal(g)
    BY <1>1, <1>2, <1>5, <2>1, <2>4, <2>5
  <2>7. Indexed(g, free_list')
    <3>1. r \notin Elements(Unlisted(p))
      BY <1>5, <1>9, <2>4 DEF IsCut, SameLinks, FreeBlocks
    <3>2. /\ <<r>> \o Unlisted(p) \in Seq(Nat) /\ NoRepeat(<<r>> \o Unlisted(p))
          /\ Elements(<<r>> \o Unlisted(p)) = Elements(Unlisted(p)) \cup {r}
      BY <1>9, <2>5, <3>1, ConsFacts
    <3> QED BY <1>5, <1>9, <2>1, <2>4, <3>2 DEF Indexed
  <2>8. \A q \in DOMAIN want : g[q].next = heap[q].next
    BY <1>1, <1>3, <1>5, <1>7, <2>4 DEF IsCut, SameLinks, UsedBlocks
  <2>9. Owned(heap', want', tailer)
    BY <1>5, <1>12, <2>2, <2>4, <2>8
  <2> QED BY <1>2, <1>3, <1>8, <2>2, <2>4, <2>6, <2>7, <2>8, <2>9 DEF RingHeap
<1> QED BY <1>13, <1>14

(* rt_memheap_realloc: a used block takes up the free one behind it.       *)
LEMMA RingGrown ==
  ASSUME NEW h, Ring(h, {}), NEW p \in UsedBlocks(h, tailer), h[p].next \in FreeBlocks(h)
  PROVE  /\ Ring(Merged(h, p), {}) /\ IsMerge(h, Merged(h, p), p, h[p].next)
         /\ UsedBlocks(Merged(h, p), tailer) = UsedBlocks(h, tailer)
         /\ FreeBlocks(Merged(h, p)) = FreeBlocks(h) \ {h[p].next}
         /\ FreeTotal(Merged(h, p)) = FreeTotal(h) - DataSize(h, h[p].next)
<1> DEFINE n == h[p].next
           g == Merged(h, p)
<1>1. /\ p \in DOMAIN h \ {tailer} /\ h[p].used /\ n \in DOMAIN h \ {tailer} /\ ~h[n].used
  BY FreeFacts DEF UsedBlocks, FreeBlocks
<1>2. Chain(g, tailer, RingEnds) /\ IsMerge(h, g, p, n)
  BY <1>1, MergedFacts DEF Ring
<1> HIDE DEF g
<1>3. g[tailer].next = 0 /\ g[0].prev = tailer
  BY <1>1, <1>2 DEF IsMerge, Ring, Chain, Blocks
<1>4. NoPair(g, {})
  <2> SUFFICES ASSUME NEW q \in DOMAIN g, ~g[q].used PROVE g[g[q].next].used
    BY DEF NoPair
  <2>1. q \in DOMAIN h /\ ~h[q].used /\ q # tailer /\ q # p /\ q # n
    BY <1>1, <1>2 DEF IsMerge, Ring, Chain, Blocks
  <2>2. h[h[q].next].used /\ h[q].next \in DOMAIN h /\ h[q].next # n
    BY <1>1, <2>1, NextFacts DEF Ring, NoPair
  <2> QED BY <1>2, <2>1, <2>2 DEF IsMerge
<1>5. /\ UsedBlocks(g, tailer) = UsedBlocks(h, tailer) /\ FreeBlocks(g) = FreeBlocks(h) \ {n}
      /\ \A q \in FreeBlocks(g) : DataSize(g, q) = DataSize(h, q)
  BY <1>1, <1>2 DEF IsMerge, UsedBlocks, FreeBlocks, DataSize
<1>6. FreeSizes(g) = Absorbed(FreeSizes(h), n) /\ n \in DOMAIN FreeSizes(h)
      /\ FreeSizes(h)[n] = DataSize(h, n)
  BY <1>5 DEF FreeSizes, Absorbed
<1>7. FreeTotal(g) = FreeTotal(h) - DataSize(h, n)
  BY <1>6, FreeFacts, TotalWithout DEF FreeTotal
<1> QED BY <1>2, <1>3, <1>4, <1>5, <1>7 DEF Ring, g

(* A used block gets another size, whatever becomes of the free memory.    *)
LEMMA ResizedFacts ==
  ASSUME RingHeap, NEW p \in DOMAIN want, NEW size \in Nat \ {0},
         NEW h, heap' = h, Ring(h, {}), UsedBlocks(h, tailer) = UsedBlocks(heap, tailer),
         \A q \in DOMAIN want \ {p} : h[q].next = heap[q].next, DataSize(h, p) = size,
         NEW r \in Nat, r \notin FreeBlocks(heap), NEW list, Indexed(heap, free_list),
         NEW n, list = (IF heap[n].used THEN free_list ELSE Unlisted(n)), n \in DOMAIN heap,
         FreeBlocks(h) = (FreeBlocks(heap) \ {n}) \cup {r},
         free_list' = <<r>> \o list, available_size' = FreeTotal(h),
         want' = [want EXCEPT ![p] = size]
  PROVE  RingHeap'
<1>1. /\ free_list \in Seq(Nat) /\ NoRepeat(free_list) /\ Elements(free_list) = FreeBlocks(heap)
  BY DEF Indexed
<1>2. list \in Seq(Nat) /\ NoRepeat(list) /\ Elements(list) = FreeBlocks(heap) \ {n}
  <2>1. CASE ~heap[n].used
    BY <1>1, <2>1, WithoutFacts DEF Unlisted
  <2>2. CASE heap[n].used
    <3>1. n \notin FreeBlocks(heap)
      BY <2>2 DEF FreeBlocks
    <3> QED BY <1>1, <2>2, <3>1
  <2> QED BY <2>1, <2>2
<1>3. /\ free_list' \in Seq(Nat) /\ NoRepeat(free_list')
      /\ Elements(free_list') = Elements(list) \cup {r}
  BY <1>2, ConsFacts
<1>4. Indexed(h, free_list')
  BY <1>2, <1>3 DEF Indexed
<1>5. Owned(h, want', tailer)
  <2>1. Owned(heap, want, tailer)
    BY DEF RingHeap
  <2>2. /\ DOMAIN want' = DOMAIN want /\ want'[p] = size
        /\ \A q \in DOMAIN want \ {p} : want'[q] = want[q]
    OBVIOUS
  <2> QED BY <2>1, <2>2 DEF Owned, DataSize
<1> QED BY <1>4, <1>5 DEF RingHeap

LEMMA GrowFacts ==
  ASSUME RingHeap, NEW p \in DOMAIN want, NEW size \in Nat, size >= MinSize, size % Align = 0,
         NEW n, n = heap[p].next, ~heap[n].used,
         size > DataSize(heap, p), DataSize(heap, n) + DataSize(heap, p) > size + MinSize,
         heap' = Split(Merged(heap, p), p, size), free_list' = <<Rest(p, size)>> \o Unlisted(n),
         available_size' = available_size - (size - DataSize(heap, p)),
         want' = [want EXCEPT ![p] = size]
  PROVE  RingHeap' /\ \A q \in DOMAIN want \ {p} : heap'[q].next = heap[q].next
<1> DEFINE m == Merged(heap, p)
           g == Split(m, p, size)
           r == Rest(p, size)
<1>1. /\ Ring(heap, {}) /\ Owned(heap, want, tailer) /\ Indexed(heap, free_list)
      /\ available_size = FreeTotal(heap) /\ UsedBlocks(heap, tailer) = DOMAIN want
  BY DEF RingHeap, Owned
<1>2. /\ p \in DOMAIN heap \ {tailer} /\ p \in Nat /\ n \in Nat /\ n \in DOMAIN heap /\ p < n
      /\ n \in FreeBlocks(heap) /\ heap[n].next \in Nat
      /\ DataSize(heap, n) \in Int /\ FreeTotal(heap) \in Int
  <2>1. p \in DOMAIN heap \ {tailer}
    BY <1>1 DEF UsedBlocks
  <2>2. p \in Nat /\ n \in Nat /\ n \in DOMAIN heap /\ p < n
    BY <1>1, <2>1, NextFacts DEF Ring
  <2>3. n \in FreeBlocks(heap)
    BY <2>2 DEF FreeBlocks
  <2> QED BY <1>1, <2>1, <2>2, <2>3, FreeFacts
<1>3. /\ Ring(m, {}) /\ IsMerge(heap, m, p, n) /\ UsedBlocks(m, tailer) = DOMAIN want
      /\ FreeBlocks(m) = FreeBlocks(heap) \ {n}
      /\ FreeTotal(m) = FreeTotal(heap) - DataSize(heap, n)
  BY <1>1, <1>2, RingGrown
<1> HIDE DEF m
<1>4. m[p].next = heap[n].next /\ Rest(p, size) + Header + Least <= m[p].next
  <2>1. m[p].next = heap[n].next
    BY <1>3 DEF IsMerge
  <2>2. heap[n].next - (n + Header) + (n - (p + Header)) > size + MinSize
    BY DEF DataSize
  <2>3. /\ Header \in Nat /\ MinSize \in Nat /\ Least \in Nat /\ Least <= MinSize /\ size \in Nat
        /\ p \in Nat /\ n \in Nat /\ heap[n].next \in Nat
    BY <1>2, LeastFacts
  <2>4. p + Header + size + Header + Least <= heap[n].next
    BY ONLY <2>2, <2>3
  <2> QED BY <2>1, <2>4 DEF Rest
<1>5. m[m[p].next].used
  <2>1. heap[heap[n].next].used /\ heap[n].next \in DOMAIN heap /\ heap[n].next # n
    BY <1>1, <1>2, <1>3 DEF Ring, NoPair, IsMerge
  <2> QED BY <1>3, <1>4, <2>1 DEF IsMerge
<1>6. RingCutTo(m, g, {}, p, size)
  <2>1. size >= Least /\ p \in UsedBlocks(m, tailer)
    BY <1>3, LeastFacts
  <2> QED BY <1>3, <1>4, <2>1, RingCut
<1> HIDE DEF g
<1>7. /\ Ring(g, {}) /\ IsCut(m, g, p, r)
      /\ UsedBlocks(g, tailer) = UsedBlocks(heap, tailer)
      /\ FreeBlocks(g) = (FreeBlocks(heap) \ {n}) \cup {r} /\ DataSize(g, p) = size
      /\ FreeTotal(g) = FreeTotal(heap) - DataSize(heap, n) + DataSize(g, r)
  BY <1>1, <1>3, <1>5, <1>6 DEF RingCutTo
<1>8. r \in Nat /\ size \in Nat \ {0}
  <2>1. p \in Nat /\ Header \in Nat /\ size \in Nat /\ size >= MinSize /\ MinSize \in Nat \ {0}
    BY <1>2, LeastFacts
  <2>2. r \in Nat
    BY <2>1 DEF Rest
  <2>3. size \in Nat \ {0}
    BY ONLY <2>1
  <2> QED BY <2>2, <2>3
<1>9. \A q \in DOMAIN want \ {p} : g[q].next = heap[q].next
  BY <1>1, <1>2, <1>3, <1>7 DEF IsCut, IsMerge, UsedBlocks
<1>10. available_size' = FreeTotal(g)
  <2>1. DataSize(g, r) = heap[n].next - (r + Header)
    BY <1>4, <1>7 DEF DataSize, IsCut
  <2>2. DataSize(g, r) - DataSize(heap, n) = DataSize(heap, p) - size /\ DataSize(heap, p) \in Int
        /\ DataSize(g, r) \in Int
    <3>1. /\ DataSize(heap, p) = n - (p + Header) /\ r = p + Header + size
          /\ DataSize(heap, n) = heap[n].next - (n + Header) /\ Header \in Nat
      BY LeastFacts DEF DataSize, Rest
    <3>2. p \in Nat /\ n \in Nat /\ heap[n].next \in Nat /\ size \in Nat
      BY <1>2
    <3> HIDE DEF r
    <3> QED BY ONLY <2>1, <3>1, <3>2
  <2>3. available_size' = available_size - (size - DataSize(heap, p))
    OBVIOUS
  <2>4. /\ available_size = FreeTotal(heap) /\ DataSize(heap, n) \in Int /\ FreeTotal(heap) \in Int
        /\ FreeTotal(g) = FreeTotal(heap) - DataSize(heap, n) + DataSize(g, r) /\ size \in Nat
    BY <1>1, <1>2, <1>7
  <2> QED BY ONLY <2>2, <2>3, <2>4
<1>11. r \notin FreeBlocks(heap)
  <2>1. r \notin DOMAIN m
    BY <1>7 DEF IsCut
  <2>2. r # n
    BY <1>2, LeastFacts DEF DataSize, Rest
  <2> QED BY <1>3, <2>1, <2>2 DEF IsMerge, FreeBlocks
<1>12. n \in DOMAIN heap /\ Unlisted(n) = (IF heap[n].used THEN free_list ELSE Unlisted(n))
  BY <1>2
<1> HIDE DEF r
<1>13. heap' = g /\ free_list' = <<r>> \o Unlisted(n)
  BY DEF g, m, r
<1>14. RingHeap'
  BY <1>1, <1>7, <1>8, <1>9, <1>10, <1>11, <1>12, <1>13, ResizedFacts
<1> QED BY <1>9, <1>13, <1>14

LEMMA ShrinkFacts ==
  ASSUME RingHeap, NEW p \in DOMAIN want, NEW size \in Nat, size >= MinSize, size % Align = 0,
         NEW n, n = heap[p].next, size + Header + MinSize < DataSize(heap, p),
         NEW whole, whole = IF heap[n].used THEN Split(heap, p, size)
                            ELSE Merged(Split(heap, p, size), Rest(p, size)),
         heap' = whole,
         free_list' = <<Rest(p, size)>> \o (IF heap[n].used THEN free_list ELSE Unlisted(n)),
         available_size' = available_size + DataSize(whole, Rest(p, size))
                             - (IF heap[n].used THEN 0 ELSE DataSize(heap, n)),
         want' = [want EXCEPT ![p] = size]
  PROVE  RingHeap' /\ \A q \in DOMAIN want \ {p} : heap'[q].next = heap[q].next
<1> DEFINE g == Split(heap, p, size)
           r == Rest(p, size)
           list == IF heap[n].used THEN free_list ELSE Unlisted(n)
<1>1. /\ Ring(heap, {}) /\ Owned(heap, want, tailer) /\ Indexed(heap, free_list)
      /\ available_size = FreeTotal(heap) /\ UsedBlocks(heap, tailer) = DOMAIN want
  BY DEF RingHeap, Owned
<1>2. /\ p \in DOMAIN heap \ {tailer} /\ p \in Nat /\ n \in Nat /\ n \in DOMAIN heap /\ p < n
      /\ FreeTotal(heap) \in Int
  <2>1. p \in DOMAIN heap \ {tailer}
    BY <1>1 DEF UsedBlocks
  <2>2. p \in Nat /\ n \in Nat /\ n \in DOMAIN heap /\ p < n
    BY <1>1, <2>1, NextFacts DEF Ring
  <2> QED BY <1>1, <2>1, <2>2, FreeFacts
<1>3. /\ Rest(p, size) + Header + Least <= heap[p].next /\ size >= Least /\ size \in Nat \ {0}
      /\ r \in Nat
  <2>1. size + Header + MinSize < n - (p + Header)
    BY DEF DataSize
  <2>2. /\ Header \in Nat /\ MinSize \in Nat \ {0} /\ Least \in Nat /\ Least <= MinSize
        /\ size \in Nat /\ p \in Nat /\ n \in Nat /\ size >= MinSize
    BY <1>2, LeastFacts
  <2>3. p + Header + size + Header + Least <= n /\ size >= Least /\ size \in Nat \ {0}
        /\ p + Header + size \in Nat
    BY ONLY <2>1, <2>2
  <2> QED BY <2>3 DEF Rest
<1>4. RingCutTo(heap, g, {}, p, size)
  BY <1>1, <1>3, RingCut
<1> HIDE DEF g
<1>5. r = Rest(p, size)
  OBVIOUS
<1> HIDE DEF r
<1>6. /\ Ring(g, {r}) /\ IsCut(heap, g, p, r)
      /\ UsedBlocks(g, tailer) = UsedBlocks(heap, tailer)
      /\ FreeBlocks(g) = FreeBlocks(heap) \cup {r} /\ DataSize(g, p) = size
      /\ FreeTotal(g) = FreeTotal(heap) + DataSize(g, r)
  <2>1. {} \cup {r} = {r}
    OBVIOUS
  <2> QED BY <1>4, <1>5, <2>1 DEF RingCutTo
<1>7. /\ g[r].next = n /\ (g[n].used <=> heap[n].used) /\ r \in FreeBlocks(g) /\ r \notin FreeBlocks(heap)
      /\ r # p /\ DataSize(g, n) = DataSize(heap, n) /\ r \notin DOMAIN heap
  BY <1>2, <1>6 DEF IsCut, FreeBlocks, DataSize
<1>8. whole = IF g[n].used THEN g ELSE Merged(g, r)
  BY <1>5, <1>7 DEF g
<1>9. /\ Ring(whole, {}) /\ SameUsed(g, whole, tailer)
      /\ FreeBlocks(whole) = FreeBlocks(g) \ {n} /\ r # n
      /\ FreeTotal(whole) = FreeTotal(g) + (IF g[n].used THEN 0 ELSE Header)
      /\ DataSize(whole, r) = DataSize(g, r) + (IF g[n].used THEN 0 ELSE Header + DataSize(g, n))
  <2>1. Ring(g, {r}) /\ r \in FreeBlocks(g) /\ n = g[r].next
    BY <1>6, <1>7
  <2>2. CASE g[n].used
    <3>1. whole = g
      BY <1>8, <2>2
    <3> QED BY ONLY <2>1, <2>2, <3>1, RingClosed
  <2>3. CASE ~g[n].used
    <3>1. whole = Merged(g, r)
      BY <1>8, <2>3
    <3> QED BY ONLY <2>1, <2>3, <3>1, RingClosed
  <2> QED BY <2>2, <2>3
<1>10. /\ UsedBlocks(whole, tailer) = UsedBlocks(heap, tailer)
       /\ FreeBlocks(whole) = (FreeBlocks(heap) \ {n}) \cup {r}
       /\ \A q \in DOMAIN want \ {p} : whole[q].next = heap[q].next
       /\ DataSize(whole, p) = size
  <2>1. \A q \in DOMAIN want : whole[q].next = g[q].next
    BY <1>1, <1>6, <1>9 DEF SameUsed
  <2>2. \A q \in DOMAIN want \ {p} : g[q].next = heap[q].next
    BY <1>1, <1>6 DEF IsCut, UsedBlocks
  <2> QED BY <1>6, <1>9, <2>1, <2>2 DEF SameUsed, DataSize
<1>11. available_size' = FreeTotal(whole)
  <2>1. available_size' = FreeTotal(heap) + DataSize(whole, r)
                            - (IF g[n].used THEN 0 ELSE DataSize(g, n))
    BY <1>1, <1>5, <1>7
  <2>2. /\ DataSize(g, r) \in Int /\ FreeTotal(heap) \in Int /\ Header \in Nat
        /\ (~g[n].used => DataSize(g, n) \in Int)
    <3>1. n \in DOMAIN g
      BY <1>2, <1>6 DEF IsCut
    <3>2. DataSize(g, r) \in Int /\ (~g[n].used => DataSize(g, n) \in Int)
      BY <1>6, <1>7, <3>1, FreeFacts DEF FreeBlocks
    <3> QED BY <1>2, <3>2, LeastFacts
  <2>3. CASE g[n].used
    <3>1. FreeTotal(g) = FreeTotal(heap) + DataSize(g, r)
      BY <1>6
    <3>2. FreeTotal(whole) = FreeTotal(g) + 0 /\ DataSize(whole, r) = DataSize(g, r) + 0
      BY <1>9, <2>3
    <3>3. available_size' = FreeTotal(heap) + DataSize(whole, r) - 0
      BY <2>1, <2>3
    <3> QED BY ONLY <2>2, <3>1, <3>2, <3>3
  <2>4. CASE ~g[n].used
    <3>1. FreeTotal(g) = FreeTotal(heap) + DataSize(g, r)
      BY <1>6
    <3>2. /\ FreeTotal(whole) = FreeTotal(g) + Header
          /\ DataSize(whole, r) = DataSize(g, r) + (Header + DataSize(g, n))
      BY <1>9, <2>4
    <3>3. available_size' = FreeTotal(heap) + DataSize(whole, r) - DataSize(g, n)
      BY <2>1, <2>4
    <3>4. /\ DataSize(g, r) \in Int /\ FreeTotal(heap) \in Int /\ Header \in Nat
          /\ DataSize(g, n) \in Int
      BY <2>2, <2>4
    <3> QED BY ONLY <3>1, <3>2, <3>3, <3>4
  <2> QED BY <2>3, <2>4
<1>12. free_list' = <<r>> \o list
  BY <1>5
<1> HIDE DEF list
<1>13. list = IF heap[n].used THEN free_list ELSE Unlisted(n)
  BY DEF list
<1>14. RingHeap'
  BY <1>1, <1>2, <1>3, <1>7, <1>9, <1>10, <1>11, <1>12, <1>13, ResizedFacts, ZenonT(60)
<1> QED BY <1>10, <1>14

-----------------------------------------------------------------------------
(* The memory heap: every step.                                            *)

(* What the call of c has read, and is to do, fits the block it works on.  *)
RingCall(c) ==
  /\ pc[c] \in {"app", "search", "grow", "shrink", "move", "free"}
  /\ pc[c] \in {"grow", "shrink", "move", "free"} => rmem[c] # Null
  /\ pc[c] # "app" => newsize[c] >= MinSize /\ newsize[c] % Align = 0
  /\ pc[c] \in {"grow", "shrink"} => oldsize[c] = DataSize(heap, rmem[c])
  /\ pc[c] = "grow" => newsize[c] > oldsize[c]
  /\ pc[c] = "shrink" => newsize[c] + Header + MinSize < oldsize[c]

RingCalls == oldsize \in [Client -> Int] /\ \A c \in Client : RingCall(c)

RingInv == RingHeap /\ CallsKept /\ RingCalls

(* Calls of other clients do not notice what becomes of blocks that they   *)
(* do not work on.                                                         *)
LEMMA RingCallsStay ==
  ASSUME CallsKept, RingCalls, NEW c \in Client, NEW P,
         \A d \in Client \ {c} : Busy(d) \cap P = {},
         \A q \in DOMAIN want \ P : heap'[q].next = heap[q].next,
         \A d \in Client \ {c} : /\ pc'[d] = pc[d] /\ rmem'[d] = rmem[d]
                                 /\ newsize'[d] = newsize[d] /\ oldsize'[d] = oldsize[d],
         oldsize' \in [Client -> Int], RingCall(c)'
  PROVE  RingCalls'
<1>1. ASSUME NEW d \in Client \ {c} PROVE RingCall(d)'
  <2>1. RingCall(d)
    BY DEF RingCalls
  <2>2. ASSUME pc[d] \in {"grow", "shrink"} PROVE DataSize(heap', rmem[d]) = DataSize(heap, rmem[d])
    <3>1. rmem[d] \in Busy(d) /\ Busy(d) \subseteq DOMAIN want
      BY <2>1, <2>2 DEF RingCall, Busy, CallsKept
    <3>2. heap'[rmem[d]].next = heap[rmem[d]].next
      BY <3>1
    <3> QED BY <3>2 DEF DataSize
  <2> QED BY <2>1, <2>2 DEF RingCall
<1> QED BY <1>1 DEF RingCalls

LEMMA AskedFacts ==
  ASSUME NEW size \in Nat
  PROVE  Asked(size) \in Nat /\ Asked(size) >= MinSize /\ Asked(size) % Align = 0
BY AlignFacts, LeastFacts DEF Asked

LEMMA RingInitial == MemHeapInit => RingInv
<1> SUFFICES ASSUME MemHeapInit PROVE RingInv
  OBVIOUS
<1>1. /\ tailer \in Nat \ {0} /\ tailer = pool_size - Header /\ Header + Least <= tailer
      /\ pool_size \in Nat
  BY TailerFacts
<1>2. /\ heap = [p \in {0, tailer} |->
                  [used |-> p = tailer, next |-> tailer - p, prev |-> tailer - p]]
      /\ free_list = <<0>> /\ available_size = pool_size - 2 * Header /\ DOMAIN want = {}
      /\ oldsize = [c \in Client |-> 0]
  BY DEF MemHeapInit
<1>3. /\ DOMAIN heap = {0, tailer} /\ heap \in [DOMAIN heap -> HeaderType]
      /\ ~heap[0].used /\ heap[tailer].used /\ heap[0].next = tailer /\ heap[0].prev = tailer
      /\ heap[tailer].next = 0 /\ heap[tailer].prev = 0
  <2>1. tailer \in Nat \ {0}
    BY <1>1
  <2>2. heap = [p \in {0, tailer} |->
                  [used |-> p = tailer, next |-> tailer - p, prev |-> tailer - p]]
    BY <1>2
  <2>3. DOMAIN heap = {0, tailer} /\ tailer - 0 = tailer /\ tailer - tailer = 0 /\ tailer # 0
    BY ONLY <2>1, <2>2
  <2>4. heap[0].used = FALSE /\ heap[0].next = tailer /\ heap[0].prev = tailer
    BY ONLY <2>2, <2>3
  <2>5. heap[tailer].used = TRUE /\ heap[tailer].next = 0 /\ heap[tailer].prev = 0
    BY ONLY <2>2, <2>3
  <2>6. \A p \in {0, tailer} : tailer - p \in Nat
    BY ONLY <2>1, <2>3
  <2>7. heap \in [DOMAIN heap -> HeaderType]
    BY ONLY <2>2, <2>3, <2>6 DEF HeaderType
  <2> QED BY ONLY <2>3, <2>4, <2>5, <2>7
<1>4. Chain(heap, tailer, RingEnds)
  <2>1. Blocks(heap, tailer)
    <3>1. DOMAIN heap \ {tailer} = {0} /\ DOMAIN heap \subseteq 0 .. tailer
      BY <1>1, <1>3
    <3>2. /\ heap[0].next \in DOMAIN heap /\ 0 + Header + Least <= heap[0].next
          /\ \A q \in DOMAIN heap : q > 0 => q >= heap[0].next
      <4>1. 0 + Header + Least <= tailer
        BY <1>1, LeastFacts
      <4>2. \A q \in {0, tailer} : q > 0 => q >= tailer
        BY <1>1
      <4> QED BY <1>3, <4>1, <4>2
    <3>3. 0 % Align = 0
      BY LeastFacts
    <3> QED BY <1>1, <1>3, <3>1, <3>2, <3>3 DEF Blocks
  <2>2. LinkedBack(heap, tailer, RingEnds)
    BY <1>1, <1>3 DEF LinkedBack, RingEnds
  <2> QED BY <2>1, <2>2 DEF Chain, RingEnds
<1>5. Ring(heap, {})
  BY <1>3, <1>4 DEF Ring, NoPair
<1>6. FreeBlocks(heap) = {0} /\ UsedBlocks(heap, tailer) = {}
  BY <1>1, <1>3 DEF FreeBlocks, UsedBlocks
<1>7. Owned(heap, want, tailer)
  BY <1>2, <1>6 DEF Owned
<1>8. Indexed(heap, free_list)
  <2>1. <<0>> \in Seq(Nat) /\ NoRepeat(<<0>>) /\ Elements(<<0>>) = {0}
    BY DEF NoRepeat, Elements
  <2> QED BY <1>2, <1>6, <2>1 DEF Indexed
<1>9. available_size = FreeTotal(heap)
  <2> DEFINE none == [q \in {} |-> 0]
  <2>1. Summable(none) /\ Total(none) = 0 /\ DOMAIN none = {}
    BY TotalEmpty
  <2>2. FreeSizes(heap) = [q \in {0} |-> DataSize(heap, q)]
    BY <1>6 DEF FreeSizes
  <2>3. FreeSizes(heap) = With(none, 0, DataSize(heap, 0)) 
    BY <2>2 DEF With
  <2> HIDE DEF none
  <2>4. DataSize(heap, 0) = tailer - Header /\ DataSize(heap, 0) \in Int
    BY <1>1, <1>3, LeastFacts DEF DataSize
  <2>5. FreeTotal(heap) = 0 + DataSize(heap, 0)
    BY <2>1, <2>3, <2>4, TotalWith DEF FreeTotal
  <2>6. Header \in Nat
    BY LeastFacts
  <2> QED BY <1>1, <1>2, <2>4, <2>5, <2>6
<1>10. CallsKept /\ RingCalls
  BY <1>2 DEF MemHeapInit, NoCall, CallsKept, RingCalls, RingCall, Busy
<1> QED BY <1>5, <1>7, <1>8, <1>9, <1>10 DEF RingInv, RingHeap

(* A step of a call that leaves the heap as it is                          *)
LEMMA RingPrepares ==
  ASSUME RingInv, NEW c \in Client, UNCHANGED memHeapVars,
         pc' \in [Client -> {"app", "expand", "free", "search", "grow", "shrink", "move"}],
         rmem' \in [Client -> Nat \cup {Null}], nmem' \in [Client -> Nat \cup {Null}],
         newsize' \in [Client -> Nat], oldsize' \in [Client -> Int],
         \A d \in Client \ {c} : /\ pc'[d] = pc[d] /\ rmem'[d] = rmem[d] /\ nmem'[d] = nmem[d]
                                 /\ newsize'[d] = newsize[d] /\ oldsize'[d] = oldsize[d],
         Busy(c)' \subseteq Busy(c) \cup Having, RingCall(c)'
  PROVE  RingInv' /\ WantStep
<1>1. want' = want /\ heap' = heap /\ RingHeap'
  BY DEF RingInv, RingHeap, memHeapVars
<1>2. CallsKept /\ RingCalls
  BY DEF RingInv
<1>3. \A d \in Client : Busy(d) \subseteq DOMAIN want /\ Busy(d) \cap Having = {}
  BY <1>2 DEF CallsKept, Busy, Having
<1>4. Having \subseteq DOMAIN want
  BY DEF Having
<1>5. CallsKept'
  <2>1. \A d \in Client \ {c} : /\ rmem'[d] = rmem[d] /\ nmem'[d] = nmem[d]
                                /\ Busy(d) \subseteq DOMAIN want'
                                /\ (Busy(c) \cap Busy(d) = {} => Busy(c)' \cap Busy(d) = {})
    BY <1>1, <1>3
  <2>2. Busy(c)' \subseteq DOMAIN want'
    BY <1>1, <1>3, <1>4
  <2> QED BY <1>2, <2>1, <2>2, CallsStay
<1>6. RingCalls'
  <2>1. \A d \in Client \ {c} : Busy(d) \cap {} = {}
    OBVIOUS
  <2>2. \A q \in DOMAIN want \ {} : heap'[q].next = heap[q].next
    BY <1>1
  <2> QED BY <1>2, <2>1, <2>2, RingCallsStay
<1> QED BY <1>1, <1>5, <1>6 DEF RingInv, WantStep

(* A step that ends a call after a change of blocks that it works on       *)
LEMMA RingFinishes ==
  ASSUME RingInv, NEW c \in Client, Finish(c), RingHeap', WantStep,
         DOMAIN want \ Busy(c) \subseteq DOMAIN want',
         \A q \in DOMAIN want \ Busy(c) : heap'[q].next = heap[q].next,
         oldsize' \in [Client -> Int], \A d \in Client \ {c} : oldsize'[d] = oldsize[d]
  PROVE  RingInv' /\ WantStep
<1>1. CallsKept /\ RingCalls
  BY DEF RingInv
<1>2. /\ CallsKept' /\ pc'[c] = "app"
      /\ \A d \in Client \ {c} : /\ pc'[d] = pc[d] /\ rmem'[d] = rmem[d] /\ nmem'[d] = nmem[d]
                                 /\ newsize'[d] = newsize[d]
  BY <1>1, CallsFinish
<1>3. RingCall(c)'
  BY <1>2 DEF RingCall
<1>4. \A d \in Client \ {c} : Busy(d) \cap Busy(c) = {}
  BY <1>1 DEF CallsKept
<1>5. \A d \in Client \ {c} : /\ pc'[d] = pc[d] /\ rmem'[d] = rmem[d]
                              /\ newsize'[d] = newsize[d] /\ oldsize'[d] = oldsize[d]
  BY <1>2
<1> DEFINE P == Busy(c)
<1>6. /\ \A d \in Client \ {c} : Busy(d) \cap P = {}
      /\ \A q \in DOMAIN want \ P : heap'[q].next = heap[q].next
  BY <1>4
<1> HIDE DEF P
<1>7. RingCalls'
  BY <1>1, <1>3, <1>5, <1>6, RingCallsStay
<1> QED BY <1>2, <1>7 DEF RingInv

LEMMA RingAllocates ==
  ASSUME RingInv, NEW c \in Client, NEW size \in Sizes, MemHeapAlloc(c, size)
  PROVE  RingInv' /\ WantStep
<1>1. Asked(size) \in Nat /\ Asked(size) >= MinSize /\ Asked(size) % Align = 0
  BY HeapAssumption, AskedFacts
<1>2. /\ UNCHANGED memHeapVars /\ rmem' = rmem /\ nmem' = nmem /\ oldsize' = oldsize
      /\ pc' = [pc EXCEPT ![c] = "search"] /\ newsize' = [newsize EXCEPT ![c] = Asked(size)]
  BY DEF MemHeapAlloc, Available
<1>3. CallsKept /\ RingCalls
  BY DEF RingInv
<1>4. /\ pc' \in [Client -> {"app", "expand", "free", "search", "grow", "shrink", "move"}]
      /\ rmem' \in [Client -> Nat \cup {Null}] /\ nmem' \in [Client -> Nat \cup {Null}]
      /\ newsize' \in [Client -> Nat] /\ oldsize' \in [Client -> Int]
      /\ pc'[c] = "search" /\ newsize'[c] = Asked(size)
      /\ \A d \in Client \ {c} : /\ pc'[d] = pc[d] /\ rmem'[d] = rmem[d] /\ nmem'[d] = nmem[d]
                                 /\ newsize'[d] = newsize[d] /\ oldsize'[d] = oldsize[d]
  BY <1>1, <1>2, <1>3 DEF CallsKept, RingCalls
<1>5. Busy(c)' \subseteq Busy(c) \cup Having
  BY <1>2 DEF Busy
<1>6. RingCall(c)'
  BY <1>1, <1>4 DEF RingCall
<1> QED BY <1>2, <1>4, <1>5, <1>6, RingPrepares

LEMMA RingReallocates ==
  ASSUME RingInv, NEW c \in Client, NEW size \in Sizes, NEW p \in Having,
         MemHeapRealloc(c, p, size)
  PROVE  RingInv' /\ WantStep
<1> DEFINE n == Asked(size)
           old == DataSize(heap, p)
<1>1. n \in Nat /\ n >= MinSize /\ n % Align = 0
  BY HeapAssumption, AskedFacts
<1>2. /\ UNCHANGED memHeapVars /\ nmem' = nmem
      /\ \/ n > old /\ pc' = [pc EXCEPT ![c] = "grow"]
         \/ n + Header + MinSize < old /\ pc' = [pc EXCEPT ![c] = "shrink"]
      /\ rmem' = [rmem EXCEPT ![c] = p] /\ newsize' = [newsize EXCEPT ![c] = n]
      /\ oldsize' = [oldsize EXCEPT ![c] = old]
  BY DEF MemHeapRealloc
<1>3. CallsKept /\ RingCalls /\ RingHeap
  BY DEF RingInv
<1>4. p \in Nat /\ old \in Int /\ p # Null
  <2>1. p \in DOMAIN want /\ Chain(heap, tailer, RingEnds) /\ Owned(heap, want, tailer)
    BY <1>3 DEF Having, RingHeap, Ring
  <2>2. p \in DOMAIN heap \ {tailer} /\ p \in Nat /\ heap[p].next \in Nat
    BY <2>1, OwnedFacts
  <2>3. DOMAIN heap \subseteq 0 .. tailer /\ Null \notin 0 .. tailer
    BY <2>1, TailerFacts DEF Chain, Blocks
  <2> QED BY <2>2, <2>3, LeastFacts DEF DataSize
<1> HIDE DEF n
<1>5. /\ pc' \in [Client -> {"app", "expand", "free", "search", "grow", "shrink", "move"}]
      /\ rmem' \in [Client -> Nat \cup {Null}] /\ nmem' \in [Client -> Nat \cup {Null}]
      /\ newsize' \in [Client -> Nat] /\ oldsize' \in [Client -> Int]
      /\ newsize'[c] = n /\ rmem'[c] = p /\ oldsize'[c] = old
      /\ ((pc'[c] = "grow" /\ n > old) \/ (pc'[c] = "shrink" /\ n + Header + MinSize < old))
      /\ \A d \in Client \ {c} : /\ pc'[d] = pc[d] /\ rmem'[d] = rmem[d] /\ nmem'[d] = nmem[d]
                                 /\ newsize'[d] = newsize[d] /\ oldsize'[d] = oldsize[d]
  <2>1. /\ pc \in [Client -> {"app", "expand", "free", "search", "grow", "shrink", "move"}]
        /\ rmem \in [Client -> Nat \cup {Null}] /\ nmem \in [Client -> Nat \cup {Null}]
        /\ newsize \in [Client -> Nat] /\ oldsize \in [Client -> Int]
    BY <1>3 DEF CallsKept, RingCalls
  <2> HIDE DEF old
  <2>2. /\ pc' \in [Client -> {"app", "expand", "free", "search", "grow", "shrink", "move"}]
        /\ ((pc'[c] = "grow" /\ n > old) \/ (pc'[c] = "shrink" /\ n + Header + MinSize < old))
        /\ \A d \in Client \ {c} : pc'[d] = pc[d]
    <3>1. CASE n > old /\ pc' = [pc EXCEPT ![c] = "grow"]
      BY ONLY <2>1, <3>1
    <3>2. CASE n + Header + MinSize < old /\ pc' = [pc EXCEPT ![c] = "shrink"]
      BY ONLY <2>1, <3>2
    <3> QED BY <1>2, <3>1, <3>2
  <2>3. /\ rmem' \in [Client -> Nat \cup {Null}] /\ nmem' \in [Client -> Nat \cup {Null}]
        /\ rmem'[c] = p /\ \A d \in Client \ {c} : rmem'[d] = rmem[d] /\ nmem'[d] = nmem[d]
    BY <1>2, <1>4, <2>1
  <2>4. /\ newsize' \in [Client -> Nat] /\ oldsize' \in [Client -> Int]
        /\ newsize'[c] = n /\ oldsize'[c] = old
        /\ \A d \in Client \ {c} : newsize'[d] = newsize[d] /\ oldsize'[d] = oldsize[d]
    BY <1>1, <1>2, <1>4, <2>1
  <2> QED BY <2>2, <2>3, <2>4
<1>6. Busy(c)' \subseteq Busy(c) \cup Having
  BY <1>2, <1>5 DEF Busy
<1>7. RingCall(c)'
  <2>1. heap' = heap
    BY <1>2 DEF memHeapVars
  <2> QED BY <1>1, <1>4, <1>5, <2>1 DEF RingCall
<1> QED BY <1>2, <1>5, <1>6, <1>7, RingPrepares

LEMMA RingFrees ==
  ASSUME RingInv, NEW c \in Client, NEW p \in Having, MemHeapFree(c, p)
  PROVE  RingInv' /\ WantStep
<1>1. RingHeap /\ CallsKept /\ RingCalls /\ p \in DOMAIN want /\ Returned(p)
      /\ UNCHANGED stay /\ pc[c] = "app"
  BY DEF RingInv, Having, MemHeapFree
<1>2. /\ RingHeap' /\ want' = Absorbed(want, p)
      /\ \A q \in DOMAIN want \ {p} : heap'[q].next = heap[q].next
  BY <1>1, ReturnedFacts
<1>3. DOMAIN want' = DOMAIN want \ {p}
  BY <1>2 DEF Absorbed
<1>4. CallsKept'
  BY <1>1, <1>3, CallsFree DEF stay, callVars
<1>5. \A d \in Client : Busy(d) \cap {p} = {}
  BY DEF Having, Busy
<1>6. RingCall(c)'
  BY <1>1 DEF RingCall, stay
<1> DEFINE P == {p}
<1>7. /\ \A d \in Client \ {c} : Busy(d) \cap P = {}
      /\ \A q \in DOMAIN want \ P : heap'[q].next = heap[q].next
      /\ \A d \in Client \ {c} : /\ pc'[d] = pc[d] /\ rmem'[d] = rmem[d]
                                 /\ newsize'[d] = newsize[d] /\ oldsize'[d] = oldsize[d]
      /\ oldsize' \in [Client -> Int]
  BY <1>1, <1>2, <1>5 DEF stay, RingCalls
<1> HIDE DEF P
<1>8. RingCalls'
  BY <1>1, <1>6, <1>7, RingCallsStay
<1> QED BY <1>1, <1>2, <1>4, <1>8 DEF RingInv, WantStep

LEMMA RingTakes ==
  ASSUME RingInv, NEW c \in Client, MemHeapTake(c)
  PROVE  RingInv' /\ WantStep
<1> DEFINE size == newsize[c]
           at == Min(Fitting(size))
           p == free_list[at]
<1>1. RingHeap /\ CallsKept /\ RingCalls /\ Indexed(heap, free_list) /\ Owned(heap, want, tailer)
  BY DEF RingInv, RingHeap
<1>2. /\ pc[c] = "search" /\ size \in Nat /\ size >= MinSize /\ size % Align = 0
      /\ oldsize' = oldsize /\ oldsize \in [Client -> Int]
  BY <1>1 DEF MemHeapTake, CallsKept, RingCalls, RingCall
<1>3. CASE Fitting(size) = {}
  <2>1. Finish(c) /\ UNCHANGED memHeapVars
    BY <1>3 DEF MemHeapTake
  <2>2. RingHeap' /\ want' = want /\ heap' = heap
    BY <1>1, <2>1 DEF memHeapVars, RingHeap
  <2> QED BY <1>2, <2>1, <2>2, RingFinishes DEF WantStep
<1>4. CASE Fitting(size) # {}
  <2>1. /\ Taken(p, size)
        /\ \/ rmem[c] = Null /\ Finish(c)
           \/ /\ rmem[c] # Null /\ pc' = [pc EXCEPT ![c] = "free"]
              /\ nmem' = [nmem EXCEPT ![c] = p] /\ UNCHANGED <<rmem, newsize>>
    BY <1>4 DEF MemHeapTake
  <2>2. at \in Fitting(size)
    <3>1. DOMAIN free_list \subseteq Nat
      BY <1>1 DEF Indexed
    <3>2. Fitting(size) \subseteq Nat
      BY <3>1 DEF Fitting
    <3>3. \E n \in Fitting(size) : \A k \in Fitting(size) : n <= k
      BY <1>4, <3>2, LeastElement
    <3> QED BY <3>3 DEF Min
  <2> HIDE DEF at
  <2>3. p \in FreeBlocks(heap) /\ DataSize(heap, p) >= size
    BY <1>1, <2>2 DEF Fitting, Indexed, Elements
  <2> HIDE DEF p, size
  <2>4. /\ RingHeap' /\ want' = With(want, p, size) /\ p \in Nat \ DOMAIN want
        /\ \A q \in DOMAIN want : heap'[q].next = heap[q].next
    BY <1>1, <1>2, <2>1, <2>3, TakenFacts
  <2>5. DOMAIN want' = DOMAIN want \cup {p} /\ WantStep
    BY <1>2, <2>4 DEF With, WantStep
  <2>6. CASE rmem[c] = Null /\ Finish(c)
    BY <1>2, <2>4, <2>5, <2>6, RingFinishes
  <2>7. CASE /\ rmem[c] # Null /\ pc' = [pc EXCEPT ![c] = "free"]
             /\ nmem' = [nmem EXCEPT ![c] = p] /\ UNCHANGED <<rmem, newsize>>
    <3>1. \A d \in Client : Busy(d) \subseteq DOMAIN want
      BY <1>1 DEF CallsKept
    <3>2. /\ pc' \in [Client -> {"app", "expand", "free", "search", "grow", "shrink", "move"}]
          /\ nmem' \in [Client -> Nat \cup {Null}] /\ nmem'[c] = p /\ pc'[c] = "free"
          /\ \A d \in Client \ {c} : nmem'[d] = nmem[d] /\ pc'[d] = pc[d]
          /\ rmem' \in [Client -> Nat \cup {Null}] /\ newsize' \in [Client -> Nat]
      BY <1>1, <2>4, <2>7 DEF CallsKept
    <3>3. Busy(c)' \subseteq Busy(c) \cup {p} /\ \A d \in Client : p \notin Busy(d)
      BY <2>4, <2>7, <3>1, <3>2 DEF Busy
    <3>4. CallsKept'
      <4>1. \A d \in Client \ {c} : /\ rmem'[d] = rmem[d] /\ nmem'[d] = nmem[d]
                                    /\ Busy(d) \subseteq DOMAIN want'
                                    /\ (Busy(c) \cap Busy(d) = {} => Busy(c)' \cap Busy(d) = {})
        BY <2>5, <2>7, <3>1, <3>2, <3>3
      <4>2. Busy(c)' \subseteq DOMAIN want'
        BY <2>5, <3>1, <3>3
      <4> QED BY <1>1, <3>2, <4>1, <4>2, CallsStay
    <3>5. RingCall(c)'
      BY <1>2, <2>7, <3>2 DEF RingCall, size
    <3> DEFINE P == {}
    <3>6. /\ \A d \in Client \ {c} : Busy(d) \cap P = {}
          /\ \A q \in DOMAIN want \ P : heap'[q].next = heap[q].next
          /\ \A d \in Client \ {c} : /\ pc'[d] = pc[d] /\ rmem'[d] = rmem[d]
                                     /\ newsize'[d] = newsize[d] /\ oldsize'[d] = oldsize[d]
          /\ oldsize' \in [Client -> Int]
      BY <1>2, <2>4, <2>7, <3>2
    <3> HIDE DEF P
    <3>7. RingCalls'
      BY <1>1, <3>5, <3>6, RingCallsStay
    <3> QED BY <2>4, <2>5, <3>4, <3>7 DEF RingInv
  <2> QED BY <2>1, <2>6, <2>7
<1> QED BY <1>3, <1>4

LEMMA RingResizes ==
  ASSUME RingInv, NEW c \in Client, MemHeapGrow(c) \/ MemHeapShrink(c)
  PROVE  RingInv' /\ WantStep
<1> DEFINE p == rmem[c]
           n == heap[p].next
           size == newsize[c]
<1>1. RingHeap /\ CallsKept /\ RingCalls /\ RingCall(c)
  BY DEF RingInv, RingCalls
<1>2. /\ pc[c] \in {"grow", "shrink"} /\ size \in Nat /\ size >= MinSize /\ size % Align = 0
      /\ oldsize[c] = DataSize(heap, p) /\ p # Null /\ p \in Nat
      /\ pc[c] = "grow" => size > DataSize(heap, p)
      /\ pc[c] = "shrink" => size + Header + MinSize < DataSize(heap, p)
  BY <1>1 DEF MemHeapGrow, MemHeapShrink, CallsKept, RingCall
<1>3. p \in DOMAIN want /\ p \in Busy(c)
  BY <1>1, <1>2 DEF CallsKept, Busy
<1>4. ASSUME RingHeap', \A q \in DOMAIN want \ {p} : heap'[q].next = heap[q].next,
             want' = [want EXCEPT ![p] = size], oldsize' = [oldsize EXCEPT ![c] = 0], Finish(c)
      PROVE  RingInv' /\ WantStep
  <2>1. WantStep
    BY <1>2, <1>3, <1>4 DEF WantStep
  <2>2. DOMAIN want' = DOMAIN want
    BY <1>4
  <2>3. DOMAIN want \ Busy(c) \subseteq DOMAIN want'
        /\ \A q \in DOMAIN want \ Busy(c) : heap'[q].next = heap[q].next
    BY <1>3, <1>4, <2>2
  <2>4. oldsize' \in [Client -> Int] /\ \A d \in Client \ {c} : oldsize'[d] = oldsize[d]
    BY <1>1, <1>4 DEF RingCalls
  <2> QED BY <1>4, <2>1, <2>3, <2>4, RingFinishes
<1>5. CASE /\ MemHeapGrow(c) /\ ~heap[n].used
           /\ DataSize(heap, n) + oldsize[c] > size + MinSize
  <2>1. /\ available_size' = available_size - (size - DataSize(heap, p))
        /\ heap' = Split(Merged(heap, p), p, size)
        /\ free_list' = <<Rest(p, size)>> \o Unlisted(n)
        /\ want' = [want EXCEPT ![p] = size]
        /\ oldsize' = [oldsize EXCEPT ![c] = 0] /\ Finish(c) /\ pc[c] = "grow"
        /\ DataSize(heap, n) + DataSize(heap, p) > size + MinSize
    <3>1. n \in FreeBlocks(heap)
      <4>1. p \in DOMAIN heap \ {tailer}
        BY <1>1, <1>3 DEF RingHeap, Owned, UsedBlocks
      <4>2. n \in DOMAIN heap
        BY <1>1, <4>1, NextFacts DEF RingHeap, Ring
      <4> QED BY <1>5, <4>2 DEF FreeBlocks
    <3>2. /\ DataSize(heap, n) \in Int /\ DataSize(heap, p) \in Int
          /\ MinSize \in Nat /\ oldsize \in [Client -> Int]
      BY <1>1, <1>2, <3>1, FreeFacts, LeastFacts DEF RingHeap, RingCalls
    <3>3. ~(DataSize(heap, n) + oldsize[c] <= size + MinSize)
      BY <1>2, <1>5, <3>2
    <3> QED BY <1>2, <1>5, <3>3 DEF MemHeapGrow, Resized
  <2>2. RingHeap' /\ \A q \in DOMAIN want \ {p} : heap'[q].next = heap[q].next
    <3>1. n = heap[p].next
      OBVIOUS
    <3> HIDE DEF n, p, size
    <3> QED BY <1>1, <1>2, <1>3, <1>5, <2>1, <3>1, GrowFacts
  <2> QED BY <1>4, <2>1, <2>2
<1>6. CASE MemHeapShrink(c)
  <2> DEFINE whole == IF heap[n].used THEN Split(heap, p, size)
                      ELSE Merged(Split(heap, p, size), Rest(p, size))
             list == IF heap[n].used THEN free_list ELSE Unlisted(n)
  <2>1. /\ available_size' = available_size + DataSize(whole, Rest(p, size))
                               - (IF heap[n].used THEN 0 ELSE DataSize(heap, n))
        /\ heap' = whole /\ free_list' = <<Rest(p, size)>> \o list
        /\ want' = [want EXCEPT ![p] = size]
        /\ oldsize' = [oldsize EXCEPT ![c] = 0] /\ Finish(c) /\ pc[c] = "shrink"
    BY <1>6 DEF MemHeapShrink, Resized
  <2>2. RingHeap' /\ \A q \in DOMAIN want \ {p} : heap'[q].next = heap[q].next
    <3>1. n = heap[p].next /\ size + Header + MinSize < DataSize(heap, p)
      BY <1>2, <2>1
    <3>2. /\ whole = IF heap[n].used THEN Split(heap, p, size)
                     ELSE Merged(Split(heap, p, size), Rest(p, size))
          /\ list = IF heap[n].used THEN free_list ELSE Unlisted(n)
      OBVIOUS
    <3> HIDE DEF n, p, size, whole
    <3> QED BY <1>1, <1>2, <1>3, <2>1, <3>1, <3>2, ShrinkFacts
  <2> QED BY <1>4, <2>1, <2>2
<1>7. CASE /\ MemHeapGrow(c) /\ UNCHANGED <<memHeapVars, rmem, nmem, newsize>>
           /\ pc' = [pc EXCEPT ![c] = "move"] /\ oldsize' = [oldsize EXCEPT ![c] = 0]
  <2>1. /\ pc' \in [Client -> {"app", "expand", "free", "search", "grow", "shrink", "move"}]
        /\ rmem' \in [Client -> Nat \cup {Null}] /\ nmem' \in [Client -> Nat \cup {Null}]
        /\ newsize' \in [Client -> Nat] /\ oldsize' \in [Client -> Int] /\ pc'[c] = "move"
        /\ \A d \in Client \ {c} : /\ pc'[d] = pc[d] /\ rmem'[d] = rmem[d] /\ nmem'[d] = nmem[d]
                                   /\ newsize'[d] = newsize[d] /\ oldsize'[d] = oldsize[d]
    BY <1>1, <1>7 DEF CallsKept, RingCalls
  <2>2. RingCall(c)'
    BY <1>2, <1>7, <2>1 DEF RingCall
  <2>3. Busy(c)' \subseteq Busy(c) \cup Having
    BY <1>7 DEF Busy
  <2> QED BY <1>7, <2>1, <2>2, <2>3, RingPrepares
<1>8. MemHeapGrow(c) => \/ ~heap[n].used /\ DataSize(heap, n) + oldsize[c] > size + MinSize
                        \/ /\ UNCHANGED <<memHeapVars, rmem, nmem, newsize>>
                           /\ pc' = [pc EXCEPT ![c] = "move"] /\ oldsize' = [oldsize EXCEPT ![c] = 0]
  BY DEF MemHeapGrow
<1> QED BY <1>5, <1>6, <1>7, <1>8

LEMMA RingMoves ==
  ASSUME RingInv, NEW c \in Client, MemHeapMove(c) \/ MemHeapMoved(c)
  PROVE  RingInv' /\ WantStep
<1>1. /\ RingHeap /\ CallsKept /\ RingCalls /\ RingCall(c) /\ oldsize' = oldsize
      /\ oldsize \in [Client -> Int]
  BY DEF RingInv, RingCalls, MemHeapMove, MemHeapMoved
<1>2. CASE MemHeapMove(c) /\ Available(c, newsize[c])
  <2>1. /\ UNCHANGED memHeapVars /\ rmem' = rmem /\ nmem' = nmem
        /\ pc' = [pc EXCEPT ![c] = "search"] /\ newsize' = [newsize EXCEPT ![c] = newsize[c]]
        /\ pc[c] = "move"
    <3>1. pc' # [pc EXCEPT ![c] = "app"]
      BY <1>1, <1>2 DEF Available, CallsKept
    <3> QED BY <1>2, <3>1 DEF MemHeapMove, Available, Finish
  <2>2. /\ pc' \in [Client -> {"app", "expand", "free", "search", "grow", "shrink", "move"}]
        /\ rmem' \in [Client -> Nat \cup {Null}] /\ nmem' \in [Client -> Nat \cup {Null}]
        /\ newsize' \in [Client -> Nat] /\ pc'[c] = "search" /\ newsize' = newsize
        /\ \A d \in Client \ {c} : pc'[d] = pc[d]
    BY <1>1, <2>1 DEF CallsKept
  <2>3. RingCall(c)'
    BY <1>1, <2>1, <2>2 DEF RingCall
  <2>4. Busy(c)' \subseteq Busy(c) \cup Having
    BY <2>1 DEF Busy
  <2>5. \A d \in Client \ {c} : /\ pc'[d] = pc[d] /\ rmem'[d] = rmem[d] /\ nmem'[d] = nmem[d]
                                /\ newsize'[d] = newsize[d] /\ oldsize'[d] = oldsize[d]
    BY <1>1, <2>1, <2>2
  <2> QED BY <1>1, <2>1, <2>2, <2>3, <2>4, <2>5, RingPrepares
<1>3. CASE MemHeapMove(c) /\ Finish(c)
  <2>1. UNCHANGED memHeapVars /\ Finish(c)
    BY <1>3 DEF MemHeapMove
  <2>2. RingHeap' /\ want' = want /\ heap' = heap
    BY <1>1, <2>1 DEF memHeapVars, RingHeap
  <2> QED BY <1>1, <2>1, <2>2, RingFinishes DEF WantStep
<1>4. CASE MemHeapMoved(c)
  <2>1. rmem[c] \in Busy(c) /\ rmem[c] \in DOMAIN want /\ Returned(rmem[c]) /\ Finish(c)
    BY <1>1, <1>4 DEF MemHeapMoved, RingCall, CallsKept, Busy
  <2>2. /\ RingHeap' /\ want' = Absorbed(want, rmem[c])
        /\ \A q \in DOMAIN want \ {rmem[c]} : heap'[q].next = heap[q].next
    BY <1>1, <2>1, ReturnedFacts
  <2>3. /\ DOMAIN want \ Busy(c) \subseteq DOMAIN want' /\ WantStep
        /\ \A q \in DOMAIN want \ Busy(c) : heap'[q].next = heap[q].next
    BY <2>1, <2>2 DEF Absorbed, WantStep
  <2> QED BY <1>1, <2>1, <2>2, <2>3, RingFinishes
<1>5. MemHeapMove(c) => Available(c, newsize[c]) \/ Finish(c)
  BY DEF MemHeapMove
<1> QED BY <1>2, <1>3, <1>4, <1>5

LEMMA RingStep ==
  ASSUME RingInv, MemHeapNext
  PROVE  RingInv' /\ WantStep
<1>1. PICK c \in Client :
        \/ \E size \in Sizes :
             MemHeapAlloc(c, size) \/ \E p \in Having : MemHeapRealloc(c, p, size)
        \/ \E p \in Having : MemHeapFree(c, p)
        \/ MemHeapTake(c) \/ MemHeapGrow(c) \/ MemHeapShrink(c)
        \/ MemHeapMove(c) \/ MemHeapMoved(c)
  BY DEF MemHeapNext
<1> QED BY <1>1, RingAllocates, RingReallocates, RingFrees, RingTakes, RingResizes, RingMoves

-----------------------------------------------------------------------------
(* Either heap.                                                            *)

HeapsInv ==
  /\ kind \in {"small", "memheap"}
  /\ kind = "small" => SmallInv
  /\ kind = "memheap" => RingInv

LEMMA HeapsInitial == HeapsInit => HeapsInv
BY SmallInitial, RingInitial DEF HeapsInit, HeapsInv

LEMMA HeapsStep ==
  ASSUME HeapsInv, [HeapsNext]_heapsVars
  PROVE  HeapsInv' /\ WantStep
<1>1. CASE HeapsNext /\ kind = "small"
  BY <1>1, SmallStep DEF HeapsNext, HeapsInv
<1>2. CASE HeapsNext /\ kind = "memheap"
  BY <1>2, RingStep DEF HeapsNext, HeapsInv
<1>3. CASE UNCHANGED heapsVars
  <2>1. /\ heap' = heap /\ want' = want /\ pc' = pc /\ rmem' = rmem /\ nmem' = nmem
        /\ newsize' = newsize /\ lfree' = lfree /\ used_mem' = used_mem /\ free_list' = free_list
        /\ available_size' = available_size /\ oldsize' = oldsize /\ kind' = kind
    BY <1>3 DEF heapsVars, memVars, callVars
  <2>2. SmallInv => SmallInv'
    BY <2>1 DEF SmallInv, SmallHeap, UsedSizes, LfreeValid, CallsKept, SmallCalls, Busy
  <2>3. RingInv => RingInv'
    BY <2>1 DEF RingInv, RingHeap, RingCalls, RingCall, CallsKept, Busy
  <2> QED BY <2>1, <2>2, <2>3 DEF HeapsInv, WantStep
<1>4. HeapsNext => kind = "small" \/ kind = "memheap"
  BY DEF HeapsNext
<1> QED BY <1>1, <1>2, <1>3, <1>4

(* The headers that rt_malloc, rt_free, rt_realloc and the functions of    *)
(* memheap.c leave behind, in whatever order their critical sections come, *)
(* are a chain of blocks, of which the used ones are those that clients    *)
(* have; and no two calls work on one block.                               *)
THEOREM HeapsInvariant == HeapsSpec => []HeapsInv
<1>1. HeapsInit => HeapsInv
  BY HeapsInitial
<1>2. HeapsInv /\ [HeapsNext]_heapsVars => HeapsInv'
  BY HeapsStep
<1> QED BY <1>1, <1>2, PTL DEF HeapsSpec

(* rt_free and rt_memheap_free, which merge with both neighbours, and every*)
(* split, leave no free block behind a free one.                           *)
THEOREM NoPairIsFree == HeapsSpec => []NoFreeNeighbours
<1>1. HeapsInv => NoFreeNeighbours
  <2>1. HeapsInv => NoPair(heap, {})
    BY DEF HeapsInv, SmallInv, SmallHeap, RingInv, RingHeap, Ring
  <2> QED BY <2>1 DEF NoPair, NoFreeNeighbours
<1> QED BY <1>1, HeapsInvariant, PTL

LEMMA LengthOfNoRepeat ==
  ASSUME NEW T, NEW s \in Seq(T), NoRepeat(s)
  PROVE  Len(s) = Cardinality(Elements(s))
<1>1. Len(s) \in Nat /\ DOMAIN s = 1 .. Len(s) /\ s \in [1 .. Len(s) -> T]
  BY LenProperties
<1>2. s \in Bijection(1 .. Len(s), Elements(s))
  BY <1>1 DEF Bijection, Injection, Surjection, IsInjective, NoRepeat, Elements
<1> QED BY <1>1, <1>2, FS_CountingElements DEF ExistsBijection

(* lfree of mem.c is a block, and a free one or the end, after every merge *)
(* and split; the free list of memheap.c has every free block once and no  *)
(* other, available_size is the sum of their sizes, and a size read before *)
(* the lock was taken is true when it is used.                             *)
THEOREM IndexIsExact == HeapsSpec => []FreeBlocksIndexed
<1>1. HeapsInv /\ kind = "small" => LfreeValid
  BY DEF HeapsInv, SmallInv, SmallHeap
<1>2. ASSUME HeapsInv, kind = "memheap" PROVE FreeListExact
  <2>1. RingHeap /\ RingCalls /\ Indexed(heap, free_list) /\ available_size = FreeTotal(heap)
    BY <1>2 DEF HeapsInv, RingInv, RingHeap
  <2>2. Elements(free_list) = FreeBlocks(heap) /\ Len(free_list) = Cardinality(FreeBlocks(heap))
    BY <2>1, LengthOfNoRepeat DEF Indexed
  <2>3. \A c \in Client : pc[c] \in {"grow", "shrink"} => oldsize[c] = DataSize(heap, rmem[c])
    BY <2>1 DEF RingCalls, RingCall
  <2> QED BY <2>1, <2>2, <2>3 DEF FreeListExact, FreeTotal, FreeSizes, FreeBlocks
<1>3. HeapsInv => FreeBlocksIndexed
  BY <1>1, <1>2 DEF FreeBlocksIndexed, HeapsInv
<1> QED BY <1>3, HeapsInvariant, PTL

(* What a chain of blocks says of the memory                               *)
LEMMA ChainDivided ==
  ASSUME NEW last, NEW E, Chain(heap, last, E), Owned(heap, want, last), Least = MinSize
  PROVE  Divided(last)
<1>1. /\ {0, last} \subseteq DOMAIN heap /\ DOMAIN heap \subseteq 0 .. last /\ heap[last].used
      /\ heap \in [DOMAIN heap -> HeaderType]
  BY DEF Chain, Blocks
<1>2. ASSUME NEW p \in DOMAIN heap \ {last}
      PROVE  /\ heap[p].next \in DOMAIN heap /\ p % Align = 0
             /\ DataSize(heap, p) >= MinSize
             /\ \A q \in DOMAIN heap \ {last} : q > p => q >= heap[p].next
             /\ (heap[p].used <=> p \in DOMAIN want)
             /\ (heap[p].used => want[p] <= DataSize(heap, p))
  <2>1. /\ heap[p].next \in DOMAIN heap /\ p % Align = 0 /\ p + Header + MinSize <= heap[p].next
        /\ \A q \in DOMAIN heap : q > p => q >= heap[p].next
    BY DEF Chain, Blocks
  <2>2. p \in Nat /\ heap[p].next \in Nat
    BY NextFacts
  <2>3. DataSize(heap, p) >= MinSize
    BY <2>1, <2>2, LeastFacts DEF DataSize
  <2>4. heap[p].used \in BOOLEAN /\ (heap[p].used <=> p \in DOMAIN want)
    BY <1>1 DEF Owned, UsedBlocks, HeaderType
  <2>5. p \in DOMAIN want => want[p] <= DataSize(heap, p)
    BY DEF Owned
  <2> QED BY <2>1, <2>3, <2>4, <2>5
<1> QED BY <1>1, <1>2 DEF Divided

(* If a memory heap has room for a block of MinSize at all, as the small   *)
(* heap has (MemAssumption), rt_malloc, rt_free and the functions of       *)
(* memheap.c lose no byte of the memory and use none twice, and keep the   *)
(* links in both directions and used_mem.                                  *)
THEOREM MemoryIsDivided ==
  ASSUME MinSize <= pool_size - 2 * Header
  PROVE  HeapsSpec => []HeapDivided
<1>1. Least = MinSize
  BY MemAssumption DEF Least
<1>2. ASSUME SmallHeap PROVE MemDivided
  <2>1. /\ Chain(heap, heap_end, MemEnds) /\ heap[0].prev = 0 /\ heap[heap_end].next = heap_end
        /\ Owned(heap, want, heap_end) /\ used_mem = Total(UsedSizes)
    BY <1>2 DEF SmallHeap, MemChain
  <2>2. Divided(heap_end)
    BY <1>1, <2>1, ChainDivided
  <2>3. ASSUME NEW p \in DOMAIN heap, heap[p].next # heap_end PROVE heap[heap[p].next].prev = p
    <3>1. p \in DOMAIN heap \ {heap_end}
      BY <2>1, <2>3
    <3>2. heap[p].next # 0 /\ (heap[p].next \notin MemEnds => heap[heap[p].next].prev = p)
      BY <2>1, <3>1, NextFacts
    <3> QED BY <2>3, <3>2 DEF MemEnds
  <2> QED BY <2>1, <2>2, <2>3 DEF MemDivided, UsedSizes
<1>3. ASSUME RingHeap PROVE MemHeapDivided
  <2>1. /\ Chain(heap, tailer, RingEnds) /\ heap[tailer].next = 0 /\ heap[0].prev = tailer
        /\ Owned(heap, want, tailer)
    BY <1>3 DEF RingHeap, Ring
  <2>2. Divided(tailer)
    BY <1>1, <2>1, ChainDivided
  <2>3. ASSUME NEW p \in DOMAIN heap PROVE heap[heap[p].next].prev = p
    <3>1. CASE p = tailer
      BY <2>1, <3>1
    <3>2. CASE p # tailer
      <4>1. heap[p].next # 0 /\ (heap[p].next \notin RingEnds => heap[heap[p].next].prev = p)
        BY <2>1, <3>2, NextFacts
      <4> QED BY <4>1 DEF RingEnds
    <3> QED BY <3>1, <3>2
  <2> QED BY <2>1, <2>2, <2>3 DEF MemHeapDivided
<1>4. HeapsInv => HeapDivided
  BY <1>2, <1>3 DEF HeapsInv, SmallInv, RingInv, HeapDivided
<1> QED BY <1>4, HeapsInvariant, PTL

-----------------------------------------------------------------------------
(* Either heap is an allocator.                                            *)

Region(w, p) == [base |-> p + Header, len |-> w[p]]
Regions(w) == {Region(w, p) : p \in DOMAIN w}

(* The regions of w lie in the memory, and apart.                          *)
Apart(w) ==
  /\ DOMAIN w \subseteq Nat
  /\ \A p \in DOMAIN w : /\ w[p] \in Nat \ {0}
                         /\ (p + Header) .. (p + Header + w[p] - 1) \subseteq 0 .. End - Begin - 1
  /\ \A p, q \in DOMAIN w :
       p # q => p + Header >= q + Header + w[q] \/ q + Header >= p + Header + w[p]

LEMMA OwnedApart ==
  ASSUME NEW h, NEW last, NEW E, Chain(h, last, E), NEW w, Owned(h, w, last),
         last + Header <= End - Begin
  PROVE  Apart(w)
<1>1. /\ Header \in Nat /\ Begin \in Nat /\ End \in Nat /\ last \in Nat
  BY LeastFacts, HeapAssumption DEF Chain, Blocks
<1>2. \A q \in DOMAIN w : /\ q \in DOMAIN h \ {last} /\ q \in Nat /\ h[q].next \in Nat
                          /\ w[q] \in Nat \ {0} /\ w[q] <= h[q].next - (q + Header)
                          /\ h[q].next <= last
  BY OwnedFacts
<1>3. ASSUME NEW p \in DOMAIN w
      PROVE  (p + Header) .. (p + Header + w[p] - 1) \subseteq 0 .. End - Begin - 1
  <2>1. p + Header + w[p] <= End - Begin /\ p \in Nat /\ w[p] \in Nat
    BY <1>1, <1>2
  <2> QED BY <1>1, <2>1
<1>4. ASSUME NEW p \in DOMAIN w, NEW q \in DOMAIN w, p # q
      PROVE  p + Header >= q + Header + w[q] \/ q + Header >= p + Header + w[p]
  <2>1. (p > q => p >= h[q].next) /\ (q > p => q >= h[p].next)
    BY <1>2 DEF Chain, Blocks
  <2>2. p > q \/ q > p
    BY <1>2, <1>4
  <2> QED BY <1>1, <1>2, <2>1, <2>2
<1>5. DOMAIN w \subseteq Nat /\ \A p \in DOMAIN w : w[p] \in Nat \ {0}
  BY <1>2
<1> QED BY <1>3, <1>4, <1>5 DEF Apart

LEMMA HeapsApart == HeapsInv => Apart(want)
<1>1. ASSUME SmallHeap PROVE Apart(want)
  <2>1. Chain(heap, heap_end, MemEnds) /\ Owned(heap, want, heap_end)
    BY <1>1 DEF SmallHeap, MemChain
  <2>2. heap_end + Header <= End - Begin
    BY MemSizes
  <2> QED BY <2>1, <2>2, OwnedApart
<1>2. ASSUME RingHeap PROVE Apart(want)
  <2>1. Chain(heap, tailer, RingEnds) /\ Owned(heap, want, tailer)
    BY <1>2 DEF RingHeap, Ring
  <2>2. tailer + Header <= End - Begin
    BY TailerFacts
  <2> QED BY <2>1, <2>2, OwnedApart
<1> QED BY <1>1, <1>2 DEF HeapsInv, SmallInv, RingInv

(* Each change of the allocations is a step of an allocator.               *)
LEMMA WantSteps ==
  ASSUME Apart(want), Apart(want'), WantStep
  PROVE  \/ Regions(want') = Regions(want)
         \/ \E r \in Regions(want') :
              /\ r.len > 0 /\ r.base .. r.base + r.len - 1 \subseteq 0 .. End - Begin - 1
              /\ \A s \in Regions(want) : ~HeapAllocator!Overlap(r, s)
              /\ Regions(want') = Regions(want) \cup {r}
         \/ \E r \in Regions(want) :
              \/ Regions(want') = Regions(want) \ {r}
              \/ \E s \in Regions(want') :
                   /\ s.base = r.base /\ s.base .. s.base + s.len - 1 \subseteq 0 .. End - Begin - 1
                   /\ \A other \in Regions(want) \ {r} : ~HeapAllocator!Overlap(s, other)
                   /\ Regions(want') = (Regions(want) \ {r}) \cup {s}
<1>1. /\ DOMAIN want \subseteq Nat /\ DOMAIN want' \subseteq Nat /\ Header \in Nat
      /\ \A p \in DOMAIN want : want[p] \in Nat \ {0}
      /\ \A p \in DOMAIN want' : want'[p] \in Nat \ {0}
  BY LeastFacts DEF Apart
<1>2. \A w : \A p : Region(w, p).base = p + Header /\ Region(w, p).len = w[p]
  BY DEF Region
<1>3. \A p \in DOMAIN want' : /\ Region(want', p).len > 0
                              /\ Region(want', p).base .. Region(want', p).base + Region(want', p).len - 1
                                   \subseteq 0 .. End - Begin - 1
  BY <1>1, <1>2 DEF Apart
<1>4. \A p, q \in DOMAIN want' : p # q => ~HeapAllocator!Overlap(Region(want', p), Region(want', q))
  <2> SUFFICES ASSUME NEW p \in DOMAIN want', NEW q \in DOMAIN want', p # q
               PROVE  ~HeapAllocator!Overlap(Region(want', p), Region(want', q))
    OBVIOUS
  <2>1. p + Header >= q + Header + want'[q] \/ q + Header >= p + Header + want'[p]
    BY DEF Apart
  <2>2. /\ p + Header \in Nat /\ q + Header \in Nat
        /\ q + Header + want'[q] \in Nat /\ p + Header + want'[p] \in Nat
    BY <1>1
  <2> QED BY <1>2, <2>1, <2>2 DEF HeapAllocator!Overlap
<1>5. \A p, q \in DOMAIN want : p # q => Region(want, p) # Region(want, q)
  <2>1. \A p, q \in DOMAIN want : p # q => p + Header # q + Header
    BY <1>1
  <2> QED BY <1>2, <2>1
<1>6. CASE want' = want
  BY <1>6
<1>7. ASSUME NEW p \in Nat \ DOMAIN want, NEW n \in Nat, want' = With(want, p, n)
      PROVE  \E r \in Regions(want') :
              /\ r.len > 0 /\ r.base .. r.base + r.len - 1 \subseteq 0 .. End - Begin - 1
              /\ \A s \in Regions(want) : ~HeapAllocator!Overlap(r, s)
              /\ Regions(want') = Regions(want) \cup {r}
  <2> DEFINE r == Region(want', p)
  <2>1. DOMAIN want' = DOMAIN want \cup {p} /\ \A q \in DOMAIN want : want'[q] = want[q]
    BY <1>7 DEF With
  <2>2. \A q \in DOMAIN want : Region(want', q) = Region(want, q) /\ q # p
    BY <2>1 DEF Region
  <2>3. Regions(want') = Regions(want) \cup {r} /\ r \in Regions(want')
    BY <2>1, <2>2 DEF Regions
  <2>4. \A s \in Regions(want) : ~HeapAllocator!Overlap(r, s)
    BY <1>4, <2>1, <2>2 DEF Regions
  <2> HIDE DEF r
  <2>5. r.len > 0 /\ r.base .. r.base + r.len - 1 \subseteq 0 .. End - Begin - 1
    BY <1>3, <2>1 DEF r
  <2> QED BY <2>3, <2>4, <2>5
<1>8. ASSUME NEW p \in DOMAIN want, want' = Absorbed(want, p)
      PROVE  \E r \in Regions(want) : Regions(want') = Regions(want) \ {r}
  <2>1. DOMAIN want' = DOMAIN want \ {p} /\ \A q \in DOMAIN want \ {p} : want'[q] = want[q]
    BY <1>8 DEF Absorbed
  <2>2. \A q \in DOMAIN want \ {p} : Region(want', q) = Region(want, q) /\ Region(want, q) # Region(want, p)
    BY <1>5, <2>1 DEF Region
  <2>3. Regions(want') = Regions(want) \ {Region(want, p)} /\ Region(want, p) \in Regions(want)
    BY <2>1, <2>2 DEF Regions
  <2> QED BY <2>3
<1>9. ASSUME NEW p \in DOMAIN want, NEW n \in Nat, want' = [want EXCEPT ![p] = n]
      PROVE  \E r \in Regions(want) : \E s \in Regions(want') :
               /\ s.base = r.base /\ s.base .. s.base + s.len - 1 \subseteq 0 .. End - Begin - 1
               /\ \A other \in Regions(want) \ {r} : ~HeapAllocator!Overlap(s, other)
               /\ Regions(want') = (Regions(want) \ {r}) \cup {s}
  <2> DEFINE r == Region(want, p)
             s == Region(want', p)
  <2>1. DOMAIN want' = DOMAIN want /\ \A q \in DOMAIN want \ {p} : want'[q] = want[q]
    BY <1>9
  <2>2. \A q \in DOMAIN want \ {p} : Region(want', q) = Region(want, q) /\ Region(want, q) # r
    BY <1>5, <2>1 DEF Region
  <2>3. /\ Regions(want') = (Regions(want) \ {r}) \cup {s}
        /\ r \in Regions(want) /\ s \in Regions(want')
    BY <2>1, <2>2 DEF Regions
  <2>4. \A other \in Regions(want) \ {r} : ~HeapAllocator!Overlap(s, other)
    BY <1>4, <2>1, <2>2 DEF Regions
  <2>5. s.base = r.base
    BY <1>2
  <2> HIDE DEF r, s
  <2>6. s.base .. s.base + s.len - 1 \subseteq 0 .. End - Begin - 1
    BY <1>3, <2>1 DEF s
  <2> QED BY <2>3, <2>4, <2>5, <2>6
<1> QED BY <1>6, <1>7, <1>8, <1>9 DEF WantStep

(* Whatever the clients of either heap have asked for and not freed is     *)
(* theirs alone and lies in the memory the heap was given, also while      *)
(* rt_realloc and rt_memheap_realloc have two blocks: the heaps implement  *)
(* the abstract allocator.                                                 *)
THEOREM HeapsAllocate == HeapsSpec => ImplementsAllocator
<1> DEFINE regions == {[base |-> p + Header, len |-> want[p]] : p \in DOMAIN want}
<1>1. HeapsInit => HeapAllocator!Init
  <2>1. HeapsInit => DOMAIN want = {}
    BY DEF HeapsInit, MemInit, MemHeapInit
  <2> QED BY <2>1 DEF HeapAllocator!Init
<1>2. HeapsInv' => Apart(want)'
  BY HeapsApart, PTL
<1>3. HeapsInv /\ [HeapsNext]_heapsVars => [HeapAllocator!Next]_regions
  <2> SUFFICES ASSUME HeapsInv, [HeapsNext]_heapsVars PROVE [HeapAllocator!Next]_regions
    OBVIOUS
  <2>1. HeapsInv' /\ WantStep
    BY HeapsStep
  <2>2. Apart(want) /\ Apart(want')
    BY <2>1, <1>2, HeapsApart
  <2>3. regions = Regions(want) /\ regions' = Regions(want')
    BY DEF Regions, Region
  <2> QED BY <2>1, <2>2, <2>3, WantSteps
       DEF HeapAllocator!Next, HeapAllocator!Allocate, HeapAllocator!Free, HeapAllocator!Resize
<1> QED BY <1>1, <1>3, HeapsInvariant, PTL DEF HeapsSpec, ImplementsAllocator, HeapAllocator!Spec

=============================================================================
