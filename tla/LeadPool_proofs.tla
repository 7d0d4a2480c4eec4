---------------------------- MODULE LeadPool_proofs ----------------------------
(***************************************************************************)
(* The rotation of the pool shares leads out exactly, for any members,     *)
(* weights and tags, in the desk of FollowUps as a whole.                  *)
(*                                                                         *)
(* Weighted members who take turns are looked at first, without the pool:  *)
(* Rotation says where each stands and why its picks repeat.  The entries  *)
(* of a pool are such members, PoolInv says so of the pool, and every step *)
(* of the desk keeps it.                                                   *)
(***************************************************************************)
EXTENDS LeadDesk_proofs, WellFoundedInduction

-----------------------------------------------------------------------------
(* Sums.                                                                   *)

\* Among sets of parts of a finite set there is a smallest.
LEMMA Smallest ==
    ASSUME NEW S, IsFiniteSet(S), NEW B, B \subseteq SUBSET S, B # {}
    PROVE  \E T \in B : \A U \in B : U \subseteq T => U = T
<1>1. IsWellFoundedOn(StrictSubsetOrdering(S), FiniteSubsetsOf(S))
  BY FS_StrictSubsetOrderingWellFounded
<1>2. B \subseteq FiniteSubsetsOf(S)
  BY FS_Subset DEF FiniteSubsetsOf
<1>3. PICK T \in B : \A U \in B : ~(<<U, T>> \in StrictSubsetOrdering(S))
  BY <1>1, <1>2, WFMin
<1>4. ASSUME NEW U \in B, U \subseteq T, U # T PROVE FALSE
  BY <1>3, <1>4 DEF StrictSubsetOrdering
<1> QED
  BY <1>4

\* What holds of the empty set, and goes on to a set with one more element,
\* holds of every finite set; G are the sets it holds of.
LEMMA OneByOne ==
    ASSUME NEW S, IsFiniteSet(S), NEW G, {} \in G,
           \A T \in SUBSET S : \A x \in S \ T : T \in G => T \cup {x} \in G
    PROVE  \A T \in SUBSET S : T \in G
<1> DEFINE B == {T \in SUBSET S : T \notin G}
<1>1. SUFFICES ASSUME B # {} PROVE FALSE
  OBVIOUS
<1>2. PICK T \in B : \A U \in B : U \subseteq T => U = T
  <2>1. B \subseteq SUBSET S
    OBVIOUS
  <2> HIDE DEF B
  <2> QED
    BY <1>1, <2>1, Smallest
<1>3. PICK x \in T : TRUE
  OBVIOUS
<1>4. T \ {x} \notin B
  BY <1>2, <1>3
<1>5. T \ {x} \in G /\ T = (T \ {x}) \cup {x} /\ x \in S \ (T \ {x})
  BY <1>3, <1>4
<1> QED
  BY <1>5

\* g adds up the values of f over any part of S.
Adds(f, S, g) ==
    /\ g \in [SUBSET S -> Int] /\ g[{}] = 0
    /\ \A T \in SUBSET S : \A x \in T : g[T] = f[x] + g[T \ {x}]

LEMMA SumExists ==
    ASSUME NEW S, IsFiniteSet(S), NEW f \in [S -> Int]
    PROVE  \E g : Adds(f, S, g)
<1> DEFINE G == {T \in SUBSET S : \E g : Adds(f, T, g)}
<1>1. {} \in G
  <2>1. Adds(f, {}, [T \in SUBSET {} |-> 0])
    BY DEF Adds
  <2> QED
    BY <2>1
<1>2. ASSUME NEW T \in SUBSET S, NEW x \in S \ T, T \in G PROVE T \cup {x} \in G
  <2>1. PICK g : Adds(f, T, g)
    BY <1>2
  <2> DEFINE W == T \cup {x}
             h == [U \in SUBSET W |-> IF x \in U THEN f[x] + g[U \ {x}] ELSE g[U]]
  <2>2. \A U \in SUBSET W : U \ {x} \in SUBSET T /\ (x \notin U => U \in SUBSET T)
    OBVIOUS
  <2>3. h \in [SUBSET W -> Int] /\ h[{}] = 0
    BY <2>1, <2>2 DEF Adds
  <2>4. ASSUME NEW U \in SUBSET W, NEW y \in U PROVE h[U] = f[y] + h[U \ {y}]
    <3>1. CASE y = x
      BY <3>1
    <3>2. CASE y # x /\ x \in U
      <4>1. y \in U \ {x} /\ U \ {x} \in SUBSET T /\ (U \ {x}) \ {y} = (U \ {y}) \ {x}
        BY <2>2, <3>2
      <4>2. g[U \ {x}] = f[y] + g[(U \ {x}) \ {y}]
        BY <2>1, <4>1 DEF Adds
      <4> DEFINE V == (U \ {x}) \ {y}
      <4>3. h[U] = f[x] + g[U \ {x}] /\ h[U \ {y}] = f[x] + g[V]
        BY <3>2, <4>1
      <4>4. g[U \ {x}] = f[y] + g[V] /\ f[x] \in Int /\ f[y] \in Int /\ g[V] \in Int
        BY <2>1, <4>1, <4>2 DEF Adds
      <4> HIDE DEF h, V
      <4> QED
        BY <4>3, <4>4
    <3>3. CASE x \notin U
      BY <2>1, <2>2, <3>3 DEF Adds
    <3> QED
      BY <3>1, <3>2, <3>3
  <2> HIDE DEF h
  <2>5. Adds(f, W, h)
    BY <2>3, <2>4 DEF Adds
  <2> QED
    BY <2>5
<1> HIDE DEF G
<1>3. S \in G
  BY <1>1, <1>2, OneByOne
<1> QED
  BY <1>3 DEF G

\* Whatever order the elements are taken in.
Collects(f, S, h) ==
    /\ h[{}] = 0
    /\ \A T \in SUBSET S : T # {} => \E x \in T : h[T] = f[x] + h[T \ {x}]

LEMMA SumUnique ==
    ASSUME NEW S, IsFiniteSet(S), NEW f \in [S -> Int], NEW g, Adds(f, S, g), NEW h, Collects(f, S, h)
    PROVE  \A T \in SUBSET S : h[T] = g[T]
<1> DEFINE B == {T \in SUBSET S : h[T] # g[T]}
<1>1. SUFFICES ASSUME B # {} PROVE FALSE
  OBVIOUS
<1>2. PICK T \in B : \A U \in B : U \subseteq T => U = T
  <2>1. B \subseteq SUBSET S
    OBVIOUS
  <2> HIDE DEF B
  <2> QED
    BY <1>1, <2>1, Smallest
<1>3. T # {}
  BY <1>2 DEF Adds, Collects
<1>4. PICK x \in T : h[T] = f[x] + h[T \ {x}]
  BY <1>3 DEF Collects
<1>5. h[T \ {x}] = g[T \ {x}]
  BY <1>2, <1>4
<1>6. g[T] = f[x] + g[T \ {x}]
  BY <1>4 DEF Adds
<1> QED
  BY <1>4, <1>5, <1>6

\* The total of the weights is such a sum.
LEMMA TotalAdds ==
    ASSUME NEW entries, NEW S, IsFiniteSet(S), NEW f \in [S -> Int],
           \A i \in S : f[i] = entries[i].weight, NEW g, Adds(f, S, g)
    PROVE  Total(entries, S) = g[S]
<1> DEFINE pick(T) == CHOOSE x \in T : TRUE
           Rule(h) == h = [T \in SUBSET S |-> IF T = {} THEN 0 ELSE entries[pick(T)].weight + h[T \ {pick(T)}]]
           iter == CHOOSE h : Rule(h)
<1>1. Total(entries, S) = iter[S]
  BY DEF Total, MapThenSumSet, MapThenFoldSet
<1>2. \A T \in SUBSET S : T # {} => pick(T) \in T /\ pick(T) \in S
  OBVIOUS
<1>3. Rule(g)
  BY <1>2 DEF Adds
<1>4. Rule(iter)
  <2> HIDE DEF Rule
  <2> QED
    BY <1>3
<1> HIDE DEF iter, pick
<1>5. iter[{}] = 0 /\ \A T \in SUBSET S : T # {} => \E x \in T : iter[T] = f[x] + iter[T \ {x}]
  BY <1>2, <1>4
<1>6. Collects(f, S, iter)
  BY <1>5 DEF Collects
<1>7. \A T \in SUBSET S : iter[T] = g[T]
  BY <1>6, SumUnique
<1> QED
  BY <1>1, <1>7

\* A sum of nothing below zero is not below zero, and if it is zero, so is each.
LEMMA NoneBelow ==
    ASSUME NEW S, IsFiniteSet(S), NEW f \in [S -> Int], NEW g, Adds(f, S, g), \A x \in S : f[x] >= 0
    PROVE  /\ \A T \in SUBSET S : g[T] >= 0
           /\ g[S] = 0 => \A x \in S : f[x] = 0
           /\ \A x \in S : g[S] >= f[x]
<1> DEFINE G == {T \in SUBSET S : g[T] >= 0}
<1>1. {} \in G
  BY DEF Adds
<1>2. ASSUME NEW T \in SUBSET S, NEW x \in S \ T, T \in G PROVE T \cup {x} \in G
  <2>1. T \cup {x} \in SUBSET S /\ (T \cup {x}) \ {x} = T
    BY <1>2
  <2>2. g[T \cup {x}] = f[x] + g[T] /\ f[x] \in Int /\ g[T] \in Int
    BY <2>1 DEF Adds
  <2> QED
    BY <1>2, <2>1, <2>2
<1>3. \A T \in SUBSET S : T \in G
  <2> HIDE DEF G
  <2> QED
    BY <1>1, <1>2, OneByOne
<1>4. ASSUME NEW x \in S PROVE g[S] = f[x] + g[S \ {x}] /\ g[S \ {x}] >= 0 /\ g[S \ {x}] \in Int /\ f[x] \in Int /\ f[x] >= 0
  BY <1>3 DEF Adds
<1>5. ASSUME NEW x \in S PROVE g[S] >= f[x] /\ (g[S] = 0 => f[x] = 0)
  <2>1. PICK a, b \in Int : a = f[x] /\ b = g[S \ {x}]
    BY <1>4
  <2> QED
    BY <1>4, <2>1
<1> QED
  BY <1>3, <1>5

\* A sum of nothing above zero is not above zero.
LEMMA NoneAbove ==
    ASSUME NEW S, IsFiniteSet(S), NEW f \in [S -> Int], NEW g, Adds(f, S, g), \A x \in S : f[x] <= 0
    PROVE  g[S] <= 0
<1> DEFINE G == {T \in SUBSET S : g[T] <= 0}
<1>1. {} \in G
  BY DEF Adds
<1>2. ASSUME NEW T \in SUBSET S, NEW x \in S \ T, T \in G PROVE T \cup {x} \in G
  <2>1. T \cup {x} \in SUBSET S /\ (T \cup {x}) \ {x} = T
    BY <1>2
  <2>2. g[T \cup {x}] = f[x] + g[T] /\ f[x] \in Int /\ g[T] \in Int
    BY <2>1 DEF Adds
  <2> QED
    BY <1>2, <2>1, <2>2
<1>3. \A T \in SUBSET S : T \in G
  <2> HIDE DEF G
  <2> QED
    BY <1>1, <1>2, OneByOne
<1> QED
  BY <1>3

\* The sum of two functions is the sum of their sums.
LEMMA SumOfBoth ==
    ASSUME NEW S, NEW f \in [S -> Int], NEW g, Adds(f, S, g), NEW e \in [S -> Int], NEW h, Adds(e, S, h)
    PROVE  Adds([x \in S |-> f[x] + e[x]], S, [T \in SUBSET S |-> g[T] + h[T]])
<1> DEFINE both == [x \in S |-> f[x] + e[x]]
           sum == [T \in SUBSET S |-> g[T] + h[T]]
<1>1. sum \in [SUBSET S -> Int] /\ sum[{}] = 0
  BY DEF Adds
<1>2. ASSUME NEW T \in SUBSET S, NEW x \in T PROVE sum[T] = both[x] + sum[T \ {x}]
  <2>1. g[T] = f[x] + g[T \ {x}] /\ h[T] = e[x] + h[T \ {x}]
    BY DEF Adds
  <2>2. f[x] \in Int /\ e[x] \in Int /\ g[T \ {x}] \in Int /\ h[T \ {x}] \in Int
    BY DEF Adds
  <2>3. sum[T] = g[T] + h[T] /\ both[x] = f[x] + e[x] /\ sum[T \ {x}] = g[T \ {x}] + h[T \ {x}]
    OBVIOUS
  <2> HIDE DEF sum, both
  <2> QED
    BY <2>1, <2>2, <2>3
<1> QED
  BY <1>1, <1>2 DEF Adds

Lowers(f, S, y, t, e) == \A x \in S : e[x] = IF x = y THEN f[x] - t ELSE f[x]

\* One value lowered by t lowers the sum by t.
LEMMA SumWithOneLess ==
    ASSUME NEW S, NEW f \in [S -> Int], NEW g, Adds(f, S, g), NEW y \in S, NEW t \in Int,
           NEW e \in [S -> Int], Lowers(f, S, y, t, e)
    PROVE  \E h : Adds(e, S, h) /\ h[S] = g[S] - t
<1> DEFINE sum == [T \in SUBSET S |-> IF y \in T THEN g[T] - t ELSE g[T]]
<1>1. sum \in [SUBSET S -> Int] /\ sum[{}] = 0 /\ sum[S] = g[S] - t
  BY DEF Adds
<1>2. ASSUME NEW T \in SUBSET S, NEW x \in T PROVE sum[T] = e[x] + sum[T \ {x}]
  <2>1. g[T] = f[x] + g[T \ {x}] /\ f[x] \in Int /\ g[T \ {x}] \in Int /\ g[T] \in Int
    BY DEF Adds
  <2>2. CASE x = y
    <3>1. sum[T] = g[T] - t /\ e[x] = f[x] - t /\ sum[T \ {x}] = g[T \ {x}]
      BY <2>2 DEF Lowers
    <3> HIDE DEF sum
    <3> QED
      BY <2>1, <3>1
  <2>3. CASE x # y
    <3>1. e[x] = f[x] /\ (y \in T <=> y \in T \ {x})
      BY <2>3 DEF Lowers
    <3>2. \/ sum[T] = g[T] - t /\ sum[T \ {x}] = g[T \ {x}] - t
          \/ sum[T] = g[T] /\ sum[T \ {x}] = g[T \ {x}]
      BY <3>1
    <3> HIDE DEF sum
    <3> QED
      BY <2>1, <3>1, <3>2
  <2> QED
    BY <2>2, <2>3
<1> HIDE DEF sum
<1>3. Adds(e, S, sum)
  BY <1>1, <1>2 DEF Adds
<1> QED
  BY <1>1, <1>3

-----------------------------------------------------------------------------
(* The best of a set.                                                      *)

\* Of entries with whole cursors there is one that beats the others.
LEMMA BestIsThere ==
    ASSUME NEW S \in SUBSET Nat, IsFiniteSet(S), S # {}, NEW entries, \A i \in S : entries[i].current \in Int
    PROVE  /\ Best(entries, S) \in S
           /\ \A j \in S : \/ entries[j].current < entries[Best(entries, S)].current
                           \/ entries[j].current = entries[Best(entries, S)].current /\ Best(entries, S) <= j
<1> DEFINE Beats(i, j) == \/ entries[j].current < entries[i].current
                          \/ entries[j].current = entries[i].current /\ i <= j
           G == {T \in SUBSET S : T = {} \/ \E i \in T : \A j \in T : Beats(i, j)}
<1>1. {} \in G
  OBVIOUS
<1>2. ASSUME NEW T \in SUBSET S, NEW x \in S \ T, T \in G PROVE T \cup {x} \in G
  <2>1. CASE T = {}
    BY <2>1
  <2>2. CASE T # {}
    <3>1. PICK i \in T : \A j \in T : Beats(i, j)
      BY <1>2, <2>2
    <3>2. \A j, k, l \in S : (Beats(j, k) /\ Beats(k, l) => Beats(j, l)) /\ (Beats(j, k) \/ Beats(k, j)) /\ Beats(j, j)
      OBVIOUS
    <3>3. i \in S /\ x \in S /\ T \subseteq S
      OBVIOUS
    <3> HIDE DEF Beats
    <3>4. CASE Beats(i, x)
      <4>1. \A j \in T \cup {x} : Beats(i, j)
        BY <3>1, <3>4
      <4>2. i \in T \cup {x} /\ T \cup {x} \in SUBSET S
        BY <3>3
      <4> QED
        BY <4>1, <4>2
    <3>5. CASE Beats(x, i)
      <4>1. \A j \in T : Beats(x, j)
        BY <3>1, <3>2, <3>3, <3>5
      <4>2. \A j \in T \cup {x} : Beats(x, j)
        BY <3>2, <3>3, <4>1
      <4>3. x \in T \cup {x} /\ T \cup {x} \in SUBSET S
        BY <3>3
      <4> QED
        BY <4>2, <4>3
    <3>6. Beats(i, x) \/ Beats(x, i)
      BY <3>2, <3>3
    <3> QED
      BY <3>4, <3>5, <3>6
  <2> QED
    BY <2>1, <2>2
<1>3. S \in G
  <2> HIDE DEF G
  <2> QED
    BY <1>1, <1>2, OneByOne
<1>4. \E i \in S : \A j \in S : Beats(i, j)
  BY <1>3
<1> QED
  BY <1>4 DEF Best

-----------------------------------------------------------------------------
(* Counting picks.                                                         *)

\* How many of the picks from a to b were of m.
Turns(picks, m, a, b) == {k \in a..b : picks[k] = m}

Count(picks, m, a, b) == Cardinality(Turns(picks, m, a, b))

LEMMA CountIsNat ==
    ASSUME NEW picks, NEW m, NEW a \in Int, NEW b \in Int
    PROVE  Count(picks, m, a, b) \in Nat /\ IsFiniteSet(Turns(picks, m, a, b))
<1>1. IsFiniteSet(a..b)
  BY FS_Interval
<1>2. IsFiniteSet(Turns(picks, m, a, b))
  BY <1>1, FS_Subset DEF Turns
<1> QED
  BY <1>2, FS_CardinalityType DEF Count

LEMMA CountOfNone ==
    ASSUME NEW picks, NEW m, NEW a \in Int, NEW b \in Int, b < a
    PROVE  Count(picks, m, a, b) = 0
<1>1. Turns(picks, m, a, b) = {}
  BY DEF Turns
<1> QED
  BY <1>1, FS_EmptySet DEF Count

\* One pick more, at the end or at the start.
LEMMA CountOneMore ==
    ASSUME NEW picks, NEW m, NEW a \in Int, NEW b \in Int, a <= b
    PROVE  /\ Count(picks, m, a, b) = Count(picks, m, a, b - 1) + (IF picks[b] = m THEN 1 ELSE 0)
           /\ Count(picks, m, a, b) = Count(picks, m, a + 1, b) + (IF picks[a] = m THEN 1 ELSE 0)
<1> DEFINE Of(c, d) == Turns(picks, m, c, d)
<1>1. Of(a, b) = IF picks[b] = m THEN Of(a, b - 1) \cup {b} ELSE Of(a, b - 1)
  BY DEF Turns
<1>2. Of(a, b) = IF picks[a] = m THEN Of(a + 1, b) \cup {a} ELSE Of(a + 1, b)
  BY DEF Turns
<1>3. b \notin Of(a, b - 1) /\ a \notin Of(a + 1, b)
  BY DEF Turns
<1> b - 1 \in Int /\ a + 1 \in Int
  OBVIOUS
<1>4. IsFiniteSet(Of(a, b - 1)) /\ IsFiniteSet(Of(a + 1, b))
  BY CountIsNat
<1>5. Count(picks, m, a, b) = Cardinality(Of(a, b)) /\ Count(picks, m, a, b - 1) = Cardinality(Of(a, b - 1))
      /\ Count(picks, m, a + 1, b) = Cardinality(Of(a + 1, b))
  BY DEF Count
<1>6. Count(picks, m, a, b - 1) \in Nat /\ Count(picks, m, a + 1, b) \in Nat
  BY CountIsNat
<1> HIDE DEF Of
<1>7. Cardinality(Of(a, b - 1) \cup {b}) = Cardinality(Of(a, b - 1)) + 1
  BY <1>3, <1>4, FS_AddElement
<1>8. Cardinality(Of(a + 1, b) \cup {a}) = Cardinality(Of(a + 1, b)) + 1
  BY <1>3, <1>4, FS_AddElement
<1>9. Count(picks, m, a, b) = Count(picks, m, a, b - 1) + (IF picks[b] = m THEN 1 ELSE 0)
  BY <1>1, <1>5, <1>6, <1>7
<1>10. Count(picks, m, a, b) = Count(picks, m, a + 1, b) + (IF picks[a] = m THEN 1 ELSE 0)
  BY <1>2, <1>5, <1>6, <1>8
<1> QED
  BY <1>9, <1>10

LEMMA CountInTwo ==
    ASSUME NEW picks, NEW m, NEW a \in Int, NEW b \in Int, NEW c \in Int, a <= b + 1, b <= c
    PROVE  Count(picks, m, a, c) = Count(picks, m, a, b) + Count(picks, m, b + 1, c)
<1> DEFINE L == Turns(picks, m, a, b)
           R == Turns(picks, m, b + 1, c)
<1>1. Turns(picks, m, a, c) = L \cup R /\ L \cap R = {}
  BY DEF Turns
<1> b + 1 \in Int
  OBVIOUS
<1>2. IsFiniteSet(L) /\ IsFiniteSet(R)
  BY CountIsNat
<1>3. Count(picks, m, a, c) = Cardinality(L \cup R) /\ Count(picks, m, a, b) = Cardinality(L)
      /\ Count(picks, m, b + 1, c) = Cardinality(R)
  BY <1>1 DEF Count
<1>4. Cardinality(L) \in Nat /\ Cardinality(R) \in Nat
  BY <1>2, FS_CardinalityType
<1> HIDE DEF L, R
<1>5. Cardinality(L \cup R) = Cardinality(L) + Cardinality(R) - Cardinality(L \cap R)
  BY <1>2, FS_Union
<1>6. Cardinality(L \cap R) = 0
  BY <1>1, FS_EmptySet
<1> QED
  BY <1>3, <1>4, <1>5, <1>6

LEMMA CountOfSame ==
    ASSUME NEW p, NEW q, NEW m, NEW a \in Int, NEW b \in Int, \A k \in a..b : p[k] = q[k]
    PROVE  Count(p, m, a, b) = Count(q, m, a, b)
<1>1. Turns(p, m, a, b) = Turns(q, m, a, b)
  BY DEF Turns
<1> QED
  BY <1>1 DEF Count

-----------------------------------------------------------------------------
(* The rotation: members M of weights w and total T, with cursors c, ties  *)
(* going by ord, that was at zero before the picks p.                      *)

Leads(M, v, ord, m) ==
    m \in M /\ \A k \in M : v[k] < v[m] \/ (v[k] = v[m] /\ <<m, k>> \in ord)

\* The cursors that pick j is made from.
Claims(M, w, T, p, j) == [m \in M |-> j * w[m] - T * Count(p, m, 1, j - 1)]

Balanced(M, c) == \E s : Adds(c, M, s) /\ s[M] = 0

Party(M, w, T, ord) ==
    /\ IsFiniteSet(M) /\ w \in [M -> Nat \ {0}] /\ \E t : Adds(w, M, t) /\ T = t[M]
    /\ \A m, k \in M : <<m, k>> \in ord /\ <<k, m>> \in ord => m = k

\* Every pick went to the one who led, every run of T picks is shared out by
\* weight, and the cursors tell what is owed.
Rotation(M, w, T, ord, c, p) ==
    /\ p \in Seq(M) /\ c \in [M -> Int] /\ Balanced(M, c)
    /\ \A m \in M : c[m] = Len(p) * w[m] - T * Count(p, m, 1, Len(p)) /\ c[m] > -T
    /\ \A j \in 1..Len(p) : Leads(M, Claims(M, w, T, p, j), ord, p[j])
    /\ \A from \in 1..(Len(p) - T + 1) : \A m \in M : Count(p, m, from, from + T - 1) = w[m]

LEMMA Multiples ==
    /\ \A a, b, t \in Int : (a + 1) * b = a * b + b /\ t * (a + b) = t * a + t * b
    /\ \A a, b, t \in Int : t > 0 /\ t * a - t * b > -t => b <= a
    /\ \A a, b, t \in Int : t > 0 /\ t * a - t * b = 0 => a = b
<1>1. \A a, b, t \in Int : (a + 1) * b = a * b + b /\ t * (a + b) = t * a + t * b
  OBVIOUS
<1>2. \A a, b, t \in Int : t > 0 /\ t * a - t * b > -t => b <= a
  <2>1. ASSUME NEW a \in Int, NEW b \in Int, NEW t \in Int, t > 0, b >= a + 1 PROVE t * b >= t * a + t
    <3>1. PICK k \in Nat : b = (a + 1) + k
      <4>1. b - (a + 1) \in Nat /\ b = (a + 1) + (b - (a + 1))
        BY <2>1
      <4> QED
        BY <4>1
    <3>2. t * b = t * a + t + t * k /\ t * k >= 0
      BY <2>1, <3>1
    <3> QED
      BY <3>2
  <2> QED
    BY <2>1
<1>3. \A a, b, t \in Int : t > 0 /\ t * a - t * b = 0 => a = b
  <2>1. ASSUME NEW a \in Int, NEW b \in Int, NEW t \in Int, t > 0, t * a - t * b = 0 PROVE a = b
    <3>1. t * a - t * b > -t /\ t * b - t * a > -t
      BY <2>1
    <3>2. b <= a /\ a <= b
      BY <1>2, <2>1, <3>1
    <3> QED
      BY <3>2
  <2> QED
    BY <2>1
<1> QED
  BY <1>1, <1>2, <1>3

\* It starts when all cursors are at zero.
LEMMA RotationStarts ==
    ASSUME NEW M, NEW w, NEW T, NEW ord, Party(M, w, T, ord), NEW c \in [M -> Int], \A m \in M : c[m] = 0
    PROVE  Rotation(M, w, T, ord, c, <<>>)
<1>1. Adds(c, M, [K \in SUBSET M |-> 0])
  BY DEF Adds
<1>2. Balanced(M, c)
  BY <1>1 DEF Balanced
<1>3. PICK t : Adds(w, M, t) /\ T = t[M]
  BY DEF Party
<1>4. T \in Int /\ \A m \in M : T >= w[m] /\ w[m] \in Nat \ {0}
  <2>1. w \in [M -> Int] /\ IsFiniteSet(M) /\ \A m \in M : w[m] >= 0 /\ w[m] \in Nat \ {0}
    BY DEF Party
  <2>2. t[M] \in Int
    BY <1>3 DEF Adds
  <2> QED
    BY <1>3, <2>1, <2>2, NoneBelow
<1>5. \A m \in M : Count(<<>>, m, 1, 0) = 0
  BY CountOfNone
<1>6. ASSUME NEW m \in M PROVE c[m] = 0 * w[m] - T * 0 /\ c[m] > -T
  BY <1>4
<1>7. Len(<<>>) - T + 1 < 1 \/ M = {}
  BY <1>4
<1> QED
  BY <1>2, <1>4, <1>5, <1>6, <1>7 DEF Rotation

\* Everyone climbs by its weight and the one picked pays the total.
Moves(M, w, T, c, b, up, d) ==
    up = [m \in M |-> c[m] + w[m]] /\ d = [m \in M |-> IF m = b THEN up[m] - T ELSE up[m]]

Joins(p, b, n, q) == Len(p) = n /\ q = Append(p, b)

LEMMA BalanceKept ==
    ASSUME NEW M, NEW w, NEW T, NEW ord, Party(M, w, T, ord), NEW c \in [M -> Int], Balanced(M, c),
           NEW up, NEW d, NEW b, Moves(M, w, T, c, b, up, d), Leads(M, up, ord, b)
    PROVE  T \in Int /\ T >= 1 /\ Balanced(M, d) /\ up[b] >= 1 /\ up \in [M -> Int] /\ d \in [M -> Int]
<1>1. IsFiniteSet(M) /\ w \in [M -> Int] /\ b \in M /\ \A m \in M : w[m] >= 0 /\ w[m] \in Nat \ {0}
  BY DEF Party, Leads
<1>2. PICK t : Adds(w, M, t) /\ T = t[M]
  BY DEF Party
<1>3. T \in Int /\ T >= 1
  <2>1. t[M] \in Int
    BY <1>2 DEF Adds
  <2>2. t[M] >= w[b]
    BY <1>1, <1>2, NoneBelow
  <2> QED
    BY <1>1, <1>2, <2>1, <2>2
<1>4. PICK s : Adds(c, M, s) /\ s[M] = 0
  BY DEF Balanced
<1>5. PICK u : Adds(up, M, u) /\ u[M] = T
  <2>1. Adds([m \in M |-> c[m] + w[m]], M, [K \in SUBSET M |-> s[K] + t[K]])
    BY <1>1, <1>2, <1>4, SumOfBoth
  <2>2. [K \in SUBSET M |-> s[K] + t[K]][M] = T
    BY <1>2, <1>3, <1>4
  <2> QED
    BY <2>1, <2>2 DEF Moves
<1>6. up \in [M -> Int] /\ d \in [M -> Int]
  BY <1>1, <1>3 DEF Moves
<1>7. Balanced(M, d)
  <2>1. Lowers(up, M, b, T, d)
    BY DEF Moves, Lowers
  <2>2. \E h : Adds(d, M, h) /\ h[M] = u[M] - T
    BY <1>1, <1>3, <1>5, <1>6, <2>1, SumWithOneLess
  <2> QED
    BY <1>3, <1>5, <2>2 DEF Balanced
<1>8. up[b] >= 1
  <2>1. SUFFICES ASSUME up[b] <= 0 PROVE FALSE
    BY <1>1, <1>6
  <2>2. ASSUME NEW m \in M PROVE up[m] <= 0
    <3>1. up[m] \in Int /\ up[b] \in Int
      BY <1>1, <1>6
    <3>2. up[m] < up[b] \/ up[m] = up[b]
      BY DEF Leads
    <3> QED
      BY <2>1, <3>1, <3>2
  <2>3. u[M] <= 0
    BY <1>1, <1>5, <1>6, <2>2, NoneAbove
  <2> QED
    BY <1>3, <1>5, <2>3
<1> QED
  BY <1>3, <1>6, <1>7, <1>8

LEMMA PicksKept ==
    ASSUME NEW M, NEW p \in Seq(M), NEW b \in M, NEW n, NEW q, Joins(p, b, n, q)
    PROVE  /\ n \in Nat /\ q \in Seq(M) /\ Len(q) = n + 1 /\ q[n + 1] = b
           /\ \A k \in 1..n : q[k] = p[k]
           /\ \A m : \A i \in Int : \A k \in Int : 1 <= i /\ k <= n => Count(q, m, i, k) = Count(p, m, i, k)
           /\ \A m : Count(q, m, 1, n + 1) = Count(p, m, 1, n) + (IF b = m THEN 1 ELSE 0)
<1>1. n \in Nat /\ q \in Seq(M) /\ Len(q) = n + 1 /\ q[n + 1] = b /\ \A k \in 1..n : q[k] = p[k]
  BY DEF Joins
<1>2. ASSUME NEW m, NEW i \in Int, NEW k \in Int, 1 <= i, k <= n PROVE Count(q, m, i, k) = Count(p, m, i, k)
  <2>1. \A j \in i..k : q[j] = p[j]
    BY <1>1, <1>2
  <2> QED
    BY <2>1, CountOfSame
<1>3. ASSUME NEW m PROVE Count(q, m, 1, n + 1) = Count(p, m, 1, n) + (IF b = m THEN 1 ELSE 0)
  <2>1. n + 1 \in Int /\ 1 <= n + 1 /\ 1 \in Int /\ (n + 1) - 1 = n /\ n \in Int
    BY <1>1
  <2>2. Count(q, m, 1, n + 1) = Count(q, m, 1, (n + 1) - 1) + (IF q[n + 1] = m THEN 1 ELSE 0)
    BY <2>1, CountOneMore
  <2>3. Count(q, m, 1, n) = Count(p, m, 1, n)
    BY <1>2, <2>1
  <2> QED
    BY <1>1, <2>1, <2>2, <2>3
<1> QED
  BY <1>1, <1>2, <1>3

\* The cursors tell what is owed.
LEMMA DebtsKept ==
    ASSUME NEW n \in Nat, NEW x \in Int, NEW y \in Int, NEW T \in Int, T >= 1, NEW c \in Int, NEW up \in Int,
           c = n * x - T * y, c > -T, up = c + x, x > 0
    PROVE  /\ up = (n + 1) * x - T * y /\ up > -T
           /\ up - T = (n + 1) * x - T * (y + 1)
<1>1. (n + 1) * x = n * x + x /\ T * (y + 1) = T * y + T /\ n * x \in Int /\ T * y \in Int /\ T * (y + 1) \in Int
      /\ (n + 1) * x \in Int
  OBVIOUS
<1>2. PICK nx, ty, nnx, tty \in Int : nx = n * x /\ ty = T * y /\ nnx = (n + 1) * x /\ tty = T * (y + 1)
  BY <1>1
<1>3. nnx = nx + x /\ tty = ty + T /\ c = nx - ty
  BY <1>1, <1>2
<1>4. up = nnx - ty /\ up > -T /\ up - T = nnx - tty
  BY <1>3
<1> QED
  BY <1>2, <1>4

\* After the first T picks nobody is owed anything.
LEMMA FirstRound ==
    ASSUME NEW M, NEW w, NEW T \in Int, T >= 1, IsFiniteSet(M), \A m \in M : w[m] \in Int,
           NEW d \in [M -> Int], Balanced(M, d), NEW q,
           \A m \in M : d[m] = T * w[m] - T * Count(q, m, 1, T) /\ d[m] > -T
    PROVE  \A m \in M : Count(q, m, 1, T) = w[m]
<1>1. ASSUME NEW m \in M
      PROVE  \E x, y \in Int : x = w[m] /\ y = Count(q, m, 1, T) /\ d[m] = T * x - T * y /\ T * x - T * y > -T
  <2>1. 1 \in Int /\ Count(q, m, 1, T) \in Int
    BY CountIsNat
  <2> QED
    BY <2>1
<1>2. ASSUME NEW m \in M PROVE d[m] >= 0
  <2>1. PICK x, y \in Int : d[m] = T * x - T * y /\ T * x - T * y > -T
    BY <1>1
  <2> HIDE <1>1
  <2>2. y <= x
    BY <2>1, Multiples
  <2>3. PICK e \in Nat : x = y + e
    <3>1. x - y \in Nat /\ x = y + (x - y)
      BY <2>2
    <3> QED
      BY <3>1
  <2>4. T * x = T * y + T * e /\ T * e >= 0
    BY <2>3
  <2> QED
    BY <2>1, <2>4
<1>3. PICK v : Adds(d, M, v) /\ v[M] = 0
  BY DEF Balanced
<1>4. \A m \in M : d[m] = 0
  BY <1>2, <1>3, NoneBelow
<1>5. ASSUME NEW m \in M PROVE Count(q, m, 1, T) = w[m]
  <2>1. PICK x, y \in Int : x = w[m] /\ y = Count(q, m, 1, T) /\ d[m] = T * x - T * y
    BY <1>1
  <2>2. T * x - T * y = 0
    BY <1>4, <2>1
  <2>3. x = y
    BY <2>2, Multiples
  <2> QED
    BY <2>1, <2>3
<1> QED
  BY <1>5

\* The cursors before pick n + 1, everyone having climbed.
Owed(M, w, T, p, n, up) == \A m \in M : up[m] = (n + 1) * w[m] - T * Count(p, m, 1, n)

\* From then on the pick T turns ago is made again.
LEMMA SameAgain ==
    ASSUME NEW M, NEW w, NEW T \in Int, T >= 1, NEW ord, Party(M, w, T, ord), NEW c, NEW p, Rotation(M, w, T, ord, c, p),
           NEW n \in Nat, Len(p) = n, n >= T, NEW f \in Int, f = n - T + 1,
           NEW up \in [M -> Int], Owed(M, w, T, p, n, up), NEW b, Leads(M, up, ord, b)
    PROVE  p[f] = b /\ \A m \in M : Count(p, m, f, n) = w[m]
<1>1. f \in 1..n /\ f \in 1..(n - T + 1) /\ f + T - 1 = n /\ f - 1 \in Int /\ f - 1 <= n /\ f >= 1
      /\ (f - 1) + 1 = f /\ n + 1 = f + T
  OBVIOUS
<1>2. \A m \in M : Count(p, m, f, n) = w[m]
  <2>1. \A k \in 1..(n - T + 1) : \A m \in M : Count(p, m, k, k + T - 1) = w[m]
    BY DEF Rotation
  <2> QED
    BY <1>1, <2>1
<1>3. ASSUME NEW m \in M PROVE up[m] = f * w[m] - T * Count(p, m, 1, f - 1)
  <2>1. Count(p, m, 1, n) = Count(p, m, 1, f - 1) + Count(p, m, (f - 1) + 1, n)
    <3>1. 1 <= (f - 1) + 1 /\ f - 1 <= n /\ n \in Int /\ 1 \in Int /\ f - 1 \in Int
      BY <1>1
    <3> QED
      BY <3>1, CountInTwo
  <2>2. PICK x, y \in Int : x = w[m] /\ y = Count(p, m, 1, f - 1)
    <3>1. w[m] \in Int
      BY DEF Party
    <3>2. 1 \in Int /\ f - 1 \in Int
      BY <1>1
    <3> QED
      BY <3>1, <3>2, CountIsNat
  <2>3. Count(p, m, 1, n) = y + x
    BY <1>1, <1>2, <2>1, <2>2
  <2>4. up[m] = (f + T) * x - T * (y + x)
    BY <1>1, <2>2, <2>3 DEF Owed
  <2>5. (f + T) * x - T * (y + x) = f * x - T * y
    <3>1. T * (y + x) = T * y + T * x /\ (f + T) * x = f * x + T * x
      OBVIOUS
    <3>2. PICK fx, tx, ty \in Int : fx = f * x /\ tx = T * x /\ ty = T * y
      OBVIOUS
    <3> QED
      BY <3>1, <3>2
  <2> QED
    BY <2>2, <2>4, <2>5
<1>4. up = Claims(M, w, T, p, f)
  <2>1. up = [m \in M |-> up[m]]
    OBVIOUS
  <2> QED
    BY <1>3, <2>1 DEF Claims
<1>5. Leads(M, up, ord, p[f])
  BY <1>1, <1>4 DEF Rotation
<1>6. p[f] \in M /\ b \in M
  BY <1>5 DEF Leads
<1>7. up[b] < up[p[f]] \/ (up[b] = up[p[f]] /\ <<p[f], b>> \in ord)
  BY <1>5, <1>6 DEF Leads
<1>8. up[p[f]] < up[b] \/ (up[p[f]] = up[b] /\ <<b, p[f]>> \in ord)
  BY <1>6 DEF Leads
<1>9. PICK i, k \in Int : i = up[b] /\ k = up[p[f]]
  BY <1>6
<1>10. <<p[f], b>> \in ord /\ <<b, p[f]>> \in ord
  BY <1>7, <1>8, <1>9
<1> QED
  BY <1>2, <1>6, <1>10 DEF Party

\* And goes on with the next pick.
LEMMA RotationGoesOn ==
    ASSUME NEW M, NEW w, NEW T, NEW ord, Party(M, w, T, ord), NEW c, NEW p, Rotation(M, w, T, ord, c, p),
           NEW up, NEW d, NEW b, Moves(M, w, T, c, b, up, d), Leads(M, up, ord, b),
           NEW n, NEW q, Joins(p, b, n, q)
    PROVE  Rotation(M, w, T, ord, d, q)
<1>1. p \in Seq(M) /\ c \in [M -> Int] /\ Balanced(M, c) /\ Len(p) = n
  BY DEF Rotation, Joins
<1>2. T \in Int /\ T >= 1 /\ Balanced(M, d) /\ up[b] >= 1 /\ up \in [M -> Int] /\ d \in [M -> Int] /\ b \in M
  BY <1>1, BalanceKept DEF Leads
<1>3. \A m \in M : w[m] \in Int /\ w[m] > 0
  BY DEF Party
<1>4. /\ n \in Nat /\ q \in Seq(M) /\ Len(q) = n + 1 /\ q[n + 1] = b
      /\ \A k \in 1..n : q[k] = p[k]
      /\ \A m : \A i \in Int : \A k \in Int : 1 <= i /\ k <= n => Count(q, m, i, k) = Count(p, m, i, k)
      /\ \A m : Count(q, m, 1, n + 1) = Count(p, m, 1, n) + (IF b = m THEN 1 ELSE 0)
  <2>1. p \in Seq(M) /\ b \in M
    BY <1>1, <1>2
  <2> QED
    BY <2>1, PicksKept
<1>5. \A k \in 1..n : q[k] = p[k]
  BY <1>4
<1>6. \A m : \A i \in Int : \A k \in Int : 1 <= i /\ k <= n => Count(q, m, i, k) = Count(p, m, i, k)
  BY <1>4
<1>7. ASSUME NEW m \in M
      PROVE  /\ up[m] = (n + 1) * w[m] - T * Count(p, m, 1, n)
             /\ d[m] = (n + 1) * w[m] - T * Count(q, m, 1, n + 1) /\ d[m] > -T
  <2>1. c[m] = n * w[m] - T * Count(p, m, 1, n) /\ c[m] > -T
    BY <1>1 DEF Rotation
  <2>2. PICK x, y \in Int : x = w[m] /\ y = Count(p, m, 1, n)
    <3>1. 1 \in Int /\ n \in Int
      BY <1>4
    <3> QED
      BY <1>3, <3>1, CountIsNat
  <2>3. PICK c0, u0 \in Int : c0 = c[m] /\ u0 = up[m]
    BY <1>1, <1>2
  <2>4. c0 = n * x - T * y /\ c0 > -T
    BY <2>1, <2>2, <2>3
  <2>5. u0 = c0 + x /\ x > 0
    BY <1>3, <2>2, <2>3 DEF Moves
  <2>6. u0 = (n + 1) * x - T * y /\ u0 > -T /\ u0 - T = (n + 1) * x - T * (y + 1)
    BY <1>2, <1>4, <2>4, <2>5, DebtsKept
  <2>7. Count(q, m, 1, n + 1) = y + (IF b = m THEN 1 ELSE 0)
    BY <1>4, <2>2
  <2>8. d[m] = IF m = b THEN u0 - T ELSE u0
    BY <2>3 DEF Moves
  <2>9. m = b => u0 - T > -T
    BY <1>2, <2>3
  <2> HIDE <1>1, <1>2, <1>3
  <2> QED
    BY <2>2, <2>3, <2>6, <2>7, <2>8, <2>9
<1>8. ASSUME NEW j \in 1..(n + 1) PROVE Leads(M, Claims(M, w, T, q, j), ord, q[j])
  <2>1. j - 1 \in Int /\ 1 \in Int /\ j - 1 <= n
    BY <1>4
  <2>2. \A m \in M : Count(q, m, 1, j - 1) = Count(p, m, 1, j - 1)
    BY <1>6, <2>1
  <2>3. Claims(M, w, T, q, j) = Claims(M, w, T, p, j)
    BY <2>2 DEF Claims
  <2>4. CASE j \in 1..n
    <3>1. Leads(M, Claims(M, w, T, p, j), ord, p[j])
      BY <1>1, <2>4 DEF Rotation
    <3> QED
      BY <1>5, <2>3, <2>4, <3>1
  <2>5. CASE j = n + 1
    <3>1. Claims(M, w, T, p, j) = up
      <4>1. j - 1 = n
        BY <1>4, <2>5
      <4>2. Claims(M, w, T, p, j) = [m \in M |-> (n + 1) * w[m] - T * Count(p, m, 1, n)]
        BY <2>5, <4>1 DEF Claims
      <4>3. up = [m \in M |-> up[m]]
        BY <1>2
      <4> QED
        BY <1>7, <4>2, <4>3
    <3> QED
      BY <1>4, <2>3, <2>5, <3>1
  <2>6. j \in 1..n \/ j = n + 1
    BY <1>4
  <2> QED
    BY <2>4, <2>5, <2>6
<1>9. ASSUME NEW from \in 1..((n + 1) - T + 1), NEW m \in M PROVE Count(q, m, from, from + T - 1) = w[m]
  <2>1. CASE from \in 1..(n - T + 1)
    <3>1. Count(p, m, from, from + T - 1) = w[m]
      BY <1>1, <2>1 DEF Rotation
    <3>2. from \in Int /\ from + T - 1 \in Int /\ 1 <= from /\ from + T - 1 <= n
      BY <1>2, <1>4, <2>1
    <3>3. Count(q, m, from, from + T - 1) = Count(p, m, from, from + T - 1)
      BY <1>6, <3>2
    <3> QED
      BY <3>1, <3>3
  <2>2. CASE from = 1 /\ T = n + 1
    <3>1. \A k \in M : d[k] = T * w[k] - T * Count(q, k, 1, T) /\ d[k] > -T
      BY <1>7, <2>2
    <3>2. \A k \in M : w[k] \in Int
      BY <1>3
    <3>3. IsFiniteSet(M)
      BY DEF Party
    <3>4. Count(q, m, 1, T) = w[m]
      BY <1>2, <3>1, <3>2, <3>3, FirstRound
    <3>5. from + T - 1 = T
      BY <1>2, <2>2
    <3> QED
      BY <2>2, <3>4, <3>5
  <2>3. CASE from = n - T + 2 /\ n >= T
    <3>1. PICK f \in Int : f = n - T + 1
      BY <1>2, <1>4
    <3>2. Owed(M, w, T, p, n, up)
      BY <1>7 DEF Owed
    <3>3. p[f] = b /\ Count(p, m, f, n) = w[m]
      <4>1. n \in Nat /\ Len(p) = n /\ T \in Int /\ T >= 1 /\ up \in [M -> Int]
        BY <1>1, <1>2, <1>4
      <4>2. p[f] = b /\ \A k \in M : Count(p, k, f, n) = w[k]
        BY <2>3, <3>1, <3>2, <4>1, SameAgain
      <4> QED
        BY <4>2
    <3>4. f \in 1..n /\ f <= n + 1 /\ n + 1 \in Int /\ (n + 1) - 1 = n /\ from = f + 1 /\ from + T - 1 = n + 1 /\ n \in Int
      BY <1>2, <1>4, <2>3, <3>1
    <3>5. Count(q, m, f, n + 1) = Count(q, m, f, (n + 1) - 1) + (IF q[n + 1] = m THEN 1 ELSE 0)
          /\ Count(q, m, f, n + 1) = Count(q, m, f + 1, n + 1) + (IF q[f] = m THEN 1 ELSE 0)
      BY <3>4, CountOneMore
    <3>6. q[f] = b
      BY <1>5, <3>3, <3>4
    <3>7. Count(q, m, f, n) = w[m]
      BY <1>6, <3>3, <3>4
    <3>8. Count(q, m, f + 1, n + 1) \in Nat
      <4>1. f + 1 \in Int
        BY <3>4
      <4> QED
        BY <3>4, <4>1, CountIsNat
    <3>9. PICK x, y \in Int : x = w[m] /\ y = Count(q, m, f + 1, n + 1)
      BY <1>3, <3>8
    <3>10. x + (IF b = m THEN 1 ELSE 0) = y + (IF b = m THEN 1 ELSE 0)
      BY <1>4, <3>4, <3>5, <3>6, <3>7, <3>9
    <3>11. x = y
      BY <3>10
    <3> QED
      BY <3>4, <3>9, <3>11
  <2>4. from \in 1..(n - T + 1) \/ (from = 1 /\ T = n + 1) \/ (from = n - T + 2 /\ n >= T)
    BY <1>2, <1>4
  <2> QED
    BY <2>1, <2>2, <2>3, <2>4
<1> QED
  BY <1>2, <1>4, <1>7, <1>8, <1>9 DEF Rotation

-----------------------------------------------------------------------------
(* The pool as a rotation.                                                 *)

\* What is known of an entry.
Row(e) ==
    /\ e = [member |-> e.member, born |-> e.born, weight |-> e.weight, current |-> e.current, region |-> e.region]
    /\ e.weight \in Nat \ {0} /\ e.current \in Int

Single(entries) == \A i, j \in DOMAIN entries : entries[i].member = entries[j].member => i = j

Sound(entries) ==
    /\ IsSeq(entries)
    /\ \A i \in DOMAIN entries : Row(entries[i])
    /\ Single(entries)

\* By member: M the members of the entries in S, their weights and cursors, and
\* who comes before whom.
Describes(entries, S, M, w, ord, c) ==
    /\ M = {entries[i].member : i \in S}
    /\ w \in [M -> Nat \ {0}] /\ c \in [M -> Int]
    /\ \A i \in S : w[entries[i].member] = entries[i].weight /\ c[entries[i].member] = entries[i].current
    /\ \A i, j \in S : <<entries[i].member, entries[j].member>> \in ord <=> i <= j

LEMMA IndicesFinite ==
    ASSUME NEW entries, Sound(entries), NEW S, S \subseteq DOMAIN entries
    PROVE  IsFiniteSet(S) /\ S \in SUBSET Nat
<1>1. Len(entries) \in Nat /\ DOMAIN entries = 1..Len(entries)
  BY SeqDomain DEF Sound
<1>2. IsFiniteSet(1..Len(entries))
  BY <1>1, FS_Interval
<1> QED
  BY <1>1, <1>2, FS_Subset

LEMMA MembersFinite ==
    ASSUME NEW entries, Sound(entries), NEW S, S \subseteq DOMAIN entries
    PROVE  IsFiniteSet({entries[i].member : i \in S})
<1> DEFINE f == [i \in S |-> entries[i].member]
           M == {entries[i].member : i \in S}
<1>1. IsFiniteSet(S)
  BY IndicesFinite
<1>2. f \in Surjection(S, M)
  BY DEF Surjection
<1> HIDE DEF f
<1> QED
  BY <1>1, <1>2, FS_Surjection

\* The total of the weights, counted by entries or by members.
LEMMA TotalByMember ==
    ASSUME NEW entries, Sound(entries), NEW S, S \subseteq DOMAIN entries,
           NEW M, NEW w, NEW ord, NEW c, Describes(entries, S, M, w, ord, c), NEW t, Adds(w, M, t)
    PROVE  Total(entries, S) = t[M]
<1> DEFINE Of(T) == {entries[i].member : i \in T}
           f == [i \in S |-> entries[i].weight]
           g == [T \in SUBSET S |-> t[Of(T)]]
<1>1. IsFiniteSet(S)
  BY IndicesFinite
<1>2. f \in [S -> Int] /\ \A i \in S : f[i] = entries[i].weight /\ f[i] = w[entries[i].member]
  BY DEF Sound, Row, Describes
<1>3. \A T \in SUBSET S : Of(T) \in SUBSET M
  BY DEF Describes
<1>4. g \in [SUBSET S -> Int] /\ g[{}] = 0
  <2>1. Of({}) = {}
    OBVIOUS
  <2> QED
    BY <1>3, <2>1 DEF Adds
<1>5. ASSUME NEW T \in SUBSET S, NEW x \in T PROVE g[T] = f[x] + g[T \ {x}]
  <2>1. Of(T \ {x}) = Of(T) \ {entries[x].member}
    BY DEF Sound, Single
  <2>2. entries[x].member \in Of(T) /\ Of(T) \in SUBSET M
    BY <1>3
  <2>3. t[Of(T)] = w[entries[x].member] + t[Of(T) \ {entries[x].member}]
    BY <2>2 DEF Adds
  <2>4. g[T] = t[Of(T)] /\ g[T \ {x}] = t[Of(T \ {x})]
    OBVIOUS
  <2> HIDE DEF g, f, Of
  <2> QED
    BY <1>2, <2>1, <2>3, <2>4
<1>6. Adds(f, S, g)
  <2> HIDE DEF g, f
  <2> QED
    BY <1>4, <1>5 DEF Adds
<1>7. g[S] = t[M]
  BY DEF Describes
<1> HIDE DEF f, g
<1> QED
  BY <1>1, <1>2, <1>6, <1>7, TotalAdds

LEMMA Described ==
    ASSUME NEW entries, Sound(entries), NEW S, S \subseteq DOMAIN entries
    PROVE  \E M, w, ord, c : Describes(entries, S, M, w, ord, c)
<1> DEFINE M == {entries[i].member : i \in S}
           of(m) == CHOOSE i \in S : entries[i].member = m
           w == [m \in M |-> entries[of(m)].weight]
           c == [m \in M |-> entries[of(m)].current]
           ord == {x \in M \X M : of(x[1]) <= of(x[2])}
<1>1. \A i \in S : of(entries[i].member) = i
  BY DEF Sound, Single
<1> HIDE DEF of
<1>2. w \in [M -> Nat \ {0}] /\ c \in [M -> Int]
  BY <1>1 DEF Sound, Row
<1>3. \A i \in S : w[entries[i].member] = entries[i].weight /\ c[entries[i].member] = entries[i].current
  BY <1>1
<1>4. \A i, j \in S : <<entries[i].member, entries[j].member>> \in ord <=> i <= j
  BY <1>1
<1>5. Describes(entries, S, M, w, ord, c)
  <2> HIDE DEF w, c, ord
  <2> QED
    BY <1>2, <1>3, <1>4 DEF Describes
<1> QED
  BY <1>5

LEMMA PartyOf ==
    ASSUME NEW entries, Sound(entries), NEW S, S \subseteq DOMAIN entries,
           NEW M, NEW w, NEW ord, NEW c, Describes(entries, S, M, w, ord, c)
    PROVE  Party(M, w, Total(entries, S), ord)
<1>1. IsFiniteSet(M)
  BY MembersFinite DEF Describes
<1>2. w \in [M -> Nat \ {0}] /\ w \in [M -> Int]
  BY DEF Describes
<1>3. PICK t : Adds(w, M, t)
  BY <1>1, <1>2, SumExists
<1>4. Total(entries, S) = t[M]
  BY <1>3, TotalByMember
<1>5. ASSUME NEW m \in M, NEW k \in M, <<m, k>> \in ord, <<k, m>> \in ord PROVE m = k
  <2>1. PICK i \in S, j \in S : m = entries[i].member /\ k = entries[j].member
    BY DEF Describes
  <2>2. i <= j /\ j <= i /\ i \in Nat /\ j \in Nat
    BY <1>5, <2>1, IndicesFinite DEF Describes
  <2> QED
    BY <2>1, <2>2
<1> QED
  BY <1>1, <1>2, <1>3, <1>4, <1>5 DEF Party

\* The rotation over S has made these picks.
Fair(entries, S, picks) ==
    \E M, w, ord, c : /\ Describes(entries, S, M, w, ord, c)
                      /\ Rotation(M, w, Total(entries, S), ord, c, picks)

LEMMA FairFromZero ==
    ASSUME NEW entries, Sound(entries), NEW S, S \subseteq DOMAIN entries, \A i \in S : entries[i].current = 0
    PROVE  Fair(entries, S, <<>>)
<1>1. PICK M, w, ord, c : Describes(entries, S, M, w, ord, c)
  BY Described
<1>2. Party(M, w, Total(entries, S), ord)
  BY <1>1, PartyOf
<1>3. c \in [M -> Int] /\ \A m \in M : c[m] = 0
  BY <1>1 DEF Describes
<1>4. Rotation(M, w, Total(entries, S), ord, c, <<>>)
  BY <1>2, <1>3, RotationStarts
<1> QED
  BY <1>1, <1>4 DEF Fair

\* What a turn does to the entries.
LEMMA TurnTaken ==
    ASSUME NEW entries, Sound(entries), NEW S, S \subseteq DOMAIN entries, S # {}, Total(entries, S) \in Int
    PROVE  LET t == Turn(entries, S)
               b == Picked(entries, S)
           IN  /\ Sound(t) /\ DOMAIN t = DOMAIN entries /\ b \in S
               /\ \A i \in DOMAIN entries :
                    /\ t[i].member = entries[i].member /\ t[i].weight = entries[i].weight /\ t[i].born = entries[i].born
                    /\ i \in S /\ i # b => t[i].current = entries[i].current + entries[i].weight
                    /\ i = b => t[i].current = entries[i].current + entries[i].weight - Total(entries, S)
               /\ \A j \in S :
                    \/ entries[j].current + entries[j].weight < entries[b].current + entries[b].weight
                    \/ entries[j].current + entries[j].weight = entries[b].current + entries[b].weight /\ b <= j
<1> DEFINE up == Climbed(entries, S)
           b == Picked(entries, S)
           t == Turn(entries, S)
           T == Total(entries, S)
<1>1. Len(entries) \in Nat /\ DOMAIN entries = 1..Len(entries)
  BY SeqDomain DEF Sound
<1>2. DOMAIN up = DOMAIN entries /\ up = [i \in DOMAIN entries |-> up[i]]
  BY DEF Climbed
<1>3. ASSUME NEW i \in DOMAIN entries
      PROVE  /\ Row(up[i]) /\ up[i].member = entries[i].member /\ up[i].weight = entries[i].weight
             /\ up[i].born = entries[i].born
             /\ i \in S => up[i].current = entries[i].current + entries[i].weight
  <2>1. PICK e : e = entries[i]
    OBVIOUS
  <2>2. Row(e)
    BY <2>1 DEF Sound
  <2>3. up[i] = IF i \in S THEN [e EXCEPT !.current = @ + e.weight] ELSE e
    BY <2>1 DEF Climbed
  <2>4. PICK v \in Int : v = e.current + e.weight
    BY <2>2 DEF Row
  <2>5. up[i] = IF i \in S THEN [member |-> e.member, born |-> e.born, weight |-> e.weight, current |-> v, region |-> e.region]
                ELSE e
    <3>1. [e EXCEPT !.current = @ + e.weight]
            = [member |-> e.member, born |-> e.born, weight |-> e.weight, current |-> e.current + e.weight, region |-> e.region]
      BY <2>2 DEF Row
    <3> QED
      BY <2>3, <2>4, <3>1
  <2> QED
    BY <2>1, <2>2, <2>4, <2>5 DEF Row
<1>4. b \in S /\ \A j \in S : up[j].current < up[b].current \/ (up[j].current = up[b].current /\ b <= j)
  <2>1. IsFiniteSet(S) /\ S \in SUBSET Nat
    BY IndicesFinite
  <2>2. \A i \in S : up[i].current \in Int
    BY <1>3 DEF Row
  <2> HIDE DEF up
  <2> QED
    BY <2>1, <2>2, BestIsThere DEF Picked, up
<1>5. b \in DOMAIN entries
  BY <1>4
<1>6. t = [up EXCEPT ![b] = Paid(up[b], T)]
  BY DEF Turn
<1> HIDE DEF up, b, t, T
<1>7. Paid(up[b], T) = [member |-> up[b].member, born |-> up[b].born, weight |-> up[b].weight,
                        current |-> up[b].current - T, region |-> up[b].region]
  <2>1. Row(up[b])
    BY <1>3, <1>5
  <2> QED
    BY <2>1 DEF Row, Paid
<1>8. DOMAIN t = DOMAIN entries /\ t = [i \in DOMAIN entries |-> t[i]]
      /\ \A i \in DOMAIN entries : t[i] = IF i = b THEN Paid(up[b], T) ELSE up[i]
  BY <1>2, <1>5, <1>6
<1>9. ASSUME NEW i \in DOMAIN entries
      PROVE  /\ Row(t[i]) /\ t[i].member = entries[i].member /\ t[i].weight = entries[i].weight
             /\ t[i].born = entries[i].born
             /\ i \in S /\ i # b => t[i].current = entries[i].current + entries[i].weight
             /\ i = b => t[i].current = entries[i].current + entries[i].weight - T
  <2>1. CASE i = b
    <3>1. PICK r : r = up[b]
      OBVIOUS
    <3>2. Row(r) /\ r.member = entries[i].member /\ r.weight = entries[i].weight /\ r.born = entries[i].born
          /\ r.current = entries[i].current + entries[i].weight
      BY <1>3, <1>4, <2>1, <3>1
    <3>3. T \in Int
      BY DEF T
    <3>4. PICK v \in Int : v = r.current - T
      BY <3>2, <3>3 DEF Row
    <3>5. t[i] = [member |-> r.member, born |-> r.born, weight |-> r.weight, current |-> v, region |-> r.region]
      BY <1>7, <1>8, <2>1, <3>1, <3>4
    <3>6. Row(t[i]) /\ t[i].member = r.member /\ t[i].weight = r.weight /\ t[i].born = r.born /\ t[i].current = v
      BY <3>2, <3>5 DEF Row
    <3>7. Row(t[i])
      BY <3>6
    <3>8. t[i].member = entries[i].member /\ t[i].weight = entries[i].weight /\ t[i].born = entries[i].born
      BY <3>2, <3>6
    <3>9. t[i].current = entries[i].current + entries[i].weight - T
      <4>1. PICK x, y \in Int : x = entries[i].current /\ y = entries[i].weight
        BY DEF Sound, Row
      <4>2. v = (x + y) - T
        BY <3>2, <3>3, <3>4, <4>1
      <4> QED
        BY <3>3, <3>4, <3>6, <4>1, <4>2
    <3> QED
      BY <2>1, <3>7, <3>8, <3>9
  <2>2. CASE i # b
    <3>1. t[i] = up[i]
      BY <1>8, <2>2
    <3> QED
      BY <1>3, <2>2, <3>1
  <2> QED
    BY <2>1, <2>2
<1>10. Sound(t)
  <2>1. t \in Seq({t[i] : i \in DOMAIN t})
    BY <1>1, <1>8
  <2> QED
    BY <1>8, <1>9, <2>1 DEF Sound, Single, IsSeq
<1>11. \A j \in S : up[j].current = entries[j].current + entries[j].weight
  BY <1>3
<1> QED
  BY <1>4, <1>8, <1>9, <1>10, <1>11 DEF up, b, t, T

LEMMA FairTurn ==
    ASSUME NEW entries, Sound(entries), NEW S, S \subseteq DOMAIN entries, S # {}, NEW p, Fair(entries, S, p)
    PROVE  Fair(Turn(entries, S), S, Append(p, entries[Picked(entries, S)].member))
<1>1. PICK M, w, ord, c : Describes(entries, S, M, w, ord, c) /\ Rotation(M, w, Total(entries, S), ord, c, p)
  BY DEF Fair
<1>2. PICK T : T = Total(entries, S)
  OBVIOUS
<1>3. Party(M, w, T, ord)
  BY <1>1, <1>2, PartyOf
<1>4. w \in [M -> Int] /\ c \in [M -> Int]
  BY <1>1 DEF Describes
<1>5. T \in Int
  BY <1>3 DEF Party, Adds
<1>6. PICK t : t = Turn(entries, S)
  OBVIOUS
<1>7. PICK i : i = Picked(entries, S)
  OBVIOUS
<1>8. /\ Sound(t) /\ DOMAIN t = DOMAIN entries /\ i \in S
      /\ \A k \in DOMAIN entries :
           /\ t[k].member = entries[k].member /\ t[k].weight = entries[k].weight
           /\ k \in S /\ k # i => t[k].current = entries[k].current + entries[k].weight
           /\ k = i => t[k].current = entries[k].current + entries[k].weight - T
      /\ \A k \in S : \/ entries[k].current + entries[k].weight < entries[i].current + entries[i].weight
                      \/ entries[k].current + entries[k].weight = entries[i].current + entries[i].weight /\ i <= k
  BY <1>2, <1>5, <1>6, <1>7, TurnTaken
<1>9. PICK b : b = entries[i].member
  OBVIOUS
<1> DEFINE up == [m \in M |-> c[m] + w[m]]
           d == [m \in M |-> IF m = b THEN up[m] - T ELSE up[m]]
<1>10. Moves(M, w, T, c, b, up, d)
  BY DEF Moves
<1>11. b \in M /\ \A k \in S : entries[k].member \in M /\ up[entries[k].member] = entries[k].current + entries[k].weight
  BY <1>1, <1>8, <1>9 DEF Describes
<1>12. Leads(M, up, ord, b)
  <2>1. ASSUME NEW m \in M PROVE up[m] < up[b] \/ (up[m] = up[b] /\ <<b, m>> \in ord)
    <3>1. PICK k \in S : m = entries[k].member
      BY <1>1 DEF Describes
    <3>2. i <= k <=> <<b, m>> \in ord
      BY <1>1, <1>8, <1>9, <3>1 DEF Describes
    <3>3. up[m] = entries[k].current + entries[k].weight /\ up[b] = entries[i].current + entries[i].weight
      BY <1>8, <1>9, <1>11, <3>1
    <3> HIDE DEF up
    <3> QED
      BY <1>8, <3>2, <3>3
  <2> HIDE DEF up
  <2> QED
    BY <1>11, <2>1 DEF Leads
<1>13. \A k \in S : d[entries[k].member] = t[k].current
  <2>1. ASSUME NEW k \in S PROVE d[entries[k].member] = t[k].current
    <3>1. entries[k].member = b <=> k = i
      BY <1>8, <1>9 DEF Sound, Single
    <3>2. d[entries[k].member] = IF k = i THEN up[entries[k].member] - T ELSE up[entries[k].member]
      BY <1>11, <3>1
    <3>3. PICK x, y \in Int : x = entries[k].current /\ y = entries[k].weight
      BY DEF Sound, Row
    <3>4. (k # i => t[k].current = x + y) /\ (k = i => t[k].current = x + y - T) /\ up[entries[k].member] = x + y
      BY <1>8, <1>11, <3>3
    <3> HIDE DEF d, up
    <3> QED
      BY <1>5, <3>2, <3>4
  <2> QED
    BY <2>1
<1>14. d \in [M -> Int]
  BY <1>4, <1>5
<1>15. Joins(p, b, Len(p), Append(p, b))
  BY DEF Joins
<1> HIDE DEF up, d
<1>16. Rotation(M, w, T, ord, d, Append(p, b))
  BY <1>1, <1>2, <1>3, <1>10, <1>12, <1>15, RotationGoesOn
<1>17. Describes(t, S, M, w, ord, d)
  <2>1. \A k \in S : t[k].member = entries[k].member /\ t[k].weight = entries[k].weight
    BY <1>8
  <2> QED
    BY <1>1, <1>13, <1>14, <2>1 DEF Describes
<1>18. Total(t, S) = T
  <2>1. PICK s : Adds(w, M, s) /\ T = s[M]
    BY <1>3 DEF Party
  <2> QED
    BY <1>8, <1>17, <2>1, TotalByMember
<1> QED
  BY <1>6, <1>7, <1>9, <1>16, <1>17, <1>18 DEF Fair

LEMMA FairMeansShares ==
    ASSUME NEW entries, Sound(entries), NEW S, S \subseteq DOMAIN entries, NEW p, Fair(entries, S, p),
           NEW T, T = Total(entries, S), NEW from \in 1..(Len(p) - T + 1), NEW i \in S
    PROVE  Cardinality({k \in from..(from + T - 1) : p[k] = entries[i].member}) = entries[i].weight
<1>1. PICK M, w, ord, c : Describes(entries, S, M, w, ord, c) /\ Rotation(M, w, T, ord, c, p)
  BY DEF Fair
<1>2. entries[i].member \in M /\ w[entries[i].member] = entries[i].weight
  BY <1>1 DEF Describes
<1>3. \A m \in M : Count(p, m, from, from + T - 1) = w[m]
  BY <1>1 DEF Rotation
<1>4. Count(p, entries[i].member, from, from + T - 1) = entries[i].weight
  BY <1>2, <1>3
<1> QED
  BY <1>4 DEF Count, Turns

LEMMA EffectiveIn ==
    ASSUME NEW entries, NEW who
    PROVE  Effective(entries, who) \subseteq DOMAIN entries
  BY DEF Effective

\* later are the entries after an edit that kept what it kept of a member's
\* entry, and the order; f tells where an entry was before.
SameOrder(later, entries, f) ==
    /\ \A i \in DOMAIN later : \A j \in DOMAIN entries :
        later[i].member = entries[j].member => j = f[i] /\ later[i].current = entries[j].current
    /\ \A i, k \in DOMAIN later : i <= k <=> f[i] <= f[k]

\* While the shape is the same the rotation goes on.
LEMMA ShapeKept ==
    ASSUME NEW entries, Sound(entries), NEW later, Sound(later), NEW who, NEW who2, NEW f, SameOrder(later, entries, f),
           Shape(later, who2) = Shape(entries, who), NEW p, Fair(entries, Effective(entries, who), p)
    PROVE  Fair(later, Effective(later, who2), p)
<1> DEFINE S == Effective(entries, who)
           R == Effective(later, who2)
<1>1. S \subseteq DOMAIN entries /\ R \subseteq DOMAIN later
  BY EffectiveIn
<1>2. ASSUME NEW i \in R
      PROVE  \E j \in S : entries[j].member = later[i].member /\ entries[j].weight = later[i].weight
  <2>1. <<later[i].member, later[i].born, later[i].weight>> \in Shape(entries, who)
    BY <1>2 DEF Shape
  <2> QED
    BY <2>1 DEF Shape
<1>3. ASSUME NEW j \in S PROVE \E i \in R : entries[j].member = later[i].member
  <2>1. <<entries[j].member, entries[j].born, entries[j].weight>> \in Shape(later, who2)
    BY <1>3 DEF Shape
  <2> QED
    BY <2>1 DEF Shape
<1> HIDE DEF S, R
<1>4. ASSUME NEW i \in R
      PROVE  /\ f[i] \in S /\ entries[f[i]].member = later[i].member /\ entries[f[i]].weight = later[i].weight
             /\ entries[f[i]].current = later[i].current
  <2>1. PICK j \in S : entries[j].member = later[i].member /\ entries[j].weight = later[i].weight
    BY <1>2
  <2>2. j = f[i] /\ later[i].current = entries[j].current
    BY <1>1, <2>1 DEF SameOrder
  <2> QED
    BY <2>1, <2>2
<1>5. PICK M, w, ord, c : Describes(entries, S, M, w, ord, c) /\ Rotation(M, w, Total(entries, S), ord, c, p)
  BY DEF Fair, S
<1>6. Describes(later, R, M, w, ord, c)
  <2>1. M = {later[i].member : i \in R}
    <3>1. M = {entries[j].member : j \in S}
      BY <1>5 DEF Describes
    <3> QED
      BY <1>2, <1>3, <3>1
  <2>2. w \in [M -> Nat \ {0}] /\ c \in [M -> Int]
    BY <1>5 DEF Describes
  <2>3. \A i \in R : w[later[i].member] = later[i].weight /\ c[later[i].member] = later[i].current
    BY <1>4, <1>5 DEF Describes
  <2>4. \A i, k \in R : <<later[i].member, later[k].member>> \in ord <=> i <= k
    <3>1. \A i, k \in R : <<entries[f[i]].member, entries[f[k]].member>> \in ord <=> f[i] <= f[k]
      BY <1>4, <1>5 DEF Describes
    <3>2. \A i, k \in R : i <= k <=> f[i] <= f[k]
      BY <1>1 DEF SameOrder
    <3> QED
      BY <1>4, <3>1, <3>2
  <2> QED
    BY <2>1, <2>2, <2>3, <2>4 DEF Describes
<1>7. Total(later, R) = Total(entries, S)
  <2>1. Party(M, w, Total(entries, S), ord)
    BY <1>1, <1>5, PartyOf
  <2>2. PICK s : Adds(w, M, s) /\ Total(entries, S) = s[M]
    BY <2>1 DEF Party
  <2> QED
    BY <1>1, <1>6, <2>2, TotalByMember
<1> QED
  BY <1>5, <1>6, <1>7 DEF Fair, R

-----------------------------------------------------------------------------
(* The pool of the desk.                                                   *)

\* The weights requests in progress will write are weights, and while the
\* stretch counts, its picks are those of the rotation.
PoolCall(call) == call.op \in {"entry", "reweigh"} => call.weight \in Weights

PoolCallsSound == \A c \in Callers : PoolCall(calls[c])

PoolFair ==
    /\ Sound(pool)
    /\ stretch = [even |-> stretch.even, picks |-> stretch.picks]
    /\ stretch.even => Fair(pool, Effective(pool, members), stretch.picks)

PoolInv == PoolFair /\ PoolCallsSound

\* A stretch that begins anew is fair.
LEMMA FreshFair ==
    ASSUME NEW entries, Sound(entries), NEW who, NEW s, s = FreshStretch(entries, who)
    PROVE  s = [even |-> s.even, picks |-> s.picks] /\ (s.even => Fair(entries, Effective(entries, who), s.picks))
<1>1. s.picks = <<>> /\ (s.even <=> \A i \in Effective(entries, who) : entries[i].current = 0)
      /\ s = [even |-> s.even, picks |-> s.picks]
  BY DEF FreshStretch
<1> QED
  BY <1>1, EffectiveIn, FairFromZero

LEMMA PoolEdited ==
    ASSUME PoolFair, Sound(pool'), Reshaped, NEW f, SameOrder(pool', pool, f)
    PROVE  /\ stretch' = [even |-> stretch'.even, picks |-> stretch'.picks]
           /\ stretch'.even => Fair(pool', Effective(pool', members'), stretch'.picks)
<1>1. CASE Shape(pool', members') = Shape(pool, members)
  <2>1. stretch' = stretch
    BY <1>1 DEF Reshaped
  <2>2. Fair(pool, Effective(pool, members), stretch.picks) => Fair(pool', Effective(pool', members'), stretch.picks)
    BY <1>1, ShapeKept DEF PoolFair
  <2> QED
    BY <2>1, <2>2 DEF PoolFair
<1>2. CASE Shape(pool', members') # Shape(pool, members)
  <2>1. stretch' = FreshStretch(pool', members')
    BY <1>2 DEF Reshaped
  <2> QED
    BY <2>1, FreshFair
<1> QED
  BY <1>1, <1>2

LEMMA TotalWhole ==
    ASSUME NEW entries, Sound(entries), NEW S, S \subseteq DOMAIN entries
    PROVE  Total(entries, S) \in Int
<1>1. PICK M, w, ord, c : Describes(entries, S, M, w, ord, c)
  BY Described
<1>2. Party(M, w, Total(entries, S), ord)
  BY <1>1, PartyOf
<1> QED
  BY <1>2 DEF Party, Adds

LEMMA LeadAssigned ==
    ASSUME PoolFair, NEW region, NEW pick, NEW nobody, AssignLead(region, pick, nobody)
    PROVE  PoolFair'
<1>1. PICK S : S = Chosen(region)
  OBVIOUS
<1>2. CASE S = {}
  <2>1. UNCHANGED poolVars
    BY <1>1, <1>2 DEF AssignLead
  <2> QED
    BY <2>1 DEF PoolFair, poolVars
<1>3. CASE S # {}
  <2>1. /\ pick = pool[Picked(pool, S)].member /\ pool' = Turn(pool, S) /\ UNCHANGED members
        /\ stretch' = IF S = Effective(pool, members) THEN [stretch EXCEPT !.picks = Append(@, pick)]
                      ELSE FreshStretch(pool', members)
    BY <1>1, <1>3 DEF AssignLead
  <2>2. S \subseteq Effective(pool, members) /\ S \subseteq DOMAIN pool
    BY <1>1 DEF Chosen, Effective
  <2>3. Sound(pool) /\ Total(pool, S) \in Int
    BY <2>2, TotalWhole DEF PoolFair
  <2>4. Sound(pool') /\ DOMAIN pool' = DOMAIN pool /\ \A i \in DOMAIN pool : pool'[i].member = pool[i].member
    BY <1>3, <2>1, <2>2, <2>3, TurnTaken
  <2>5. Effective(pool', members') = Effective(pool, members)
    BY <2>1, <2>4 DEF Effective
  <2>6. CASE S = Effective(pool, members)
    <3>1. stretch' = [even |-> stretch.even, picks |-> Append(stretch.picks, pick)]
      BY <2>1, <2>6 DEF PoolFair
    <3>2. stretch.even => Fair(Turn(pool, S), S, Append(stretch.picks, pick))
      BY <1>3, <2>1, <2>2, <2>3, <2>6, FairTurn DEF PoolFair
    <3> QED
      BY <2>1, <2>4, <2>5, <2>6, <3>1, <3>2 DEF PoolFair
  <2>7. CASE S # Effective(pool, members)
    <3>1. stretch' = FreshStretch(pool', members')
      BY <2>1, <2>7
    <3> QED
      BY <2>4, <3>1, FreshFair DEF PoolFair
  <2> QED
    BY <2>6, <2>7
<1> QED
  BY <1>2, <1>3

\* Entries that are where they were.
LEMMA SamePlaces ==
    ASSUME NEW entries, Sound(entries), NEW later, Sound(later),
           \A i \in DOMAIN later \cap DOMAIN entries :
               later[i].member = entries[i].member /\ later[i].current = entries[i].current,
           \A i \in DOMAIN later \ DOMAIN entries : \A j \in DOMAIN entries : later[i].member # entries[j].member
    PROVE  \E f : SameOrder(later, entries, f)
<1> DEFINE f == [i \in DOMAIN later |-> i]
<1>1. SameOrder(later, entries, f)
  <2>1. ASSUME NEW i \in DOMAIN later, NEW j \in DOMAIN entries, later[i].member = entries[j].member
        PROVE  j = i /\ later[i].current = entries[j].current
    BY <2>1 DEF Sound, Single
  <2> QED
    BY <2>1 DEF SameOrder
<1> QED
  BY <1>1

LEMMA Inserted ==
    ASSUME PoolInv, NEW c \in Callers, InsertAssignPoolEntry(c)
    PROVE  PoolFair'
<1> DEFINE entry == [member |-> calls[c].member, born |-> spent, weight |-> calls[c].weight,
                     current |-> 0, region |-> calls[c].region]
<1>1. /\ calls[c].op = "entry" /\ Reshaped
      /\ pool' = IF \E i \in DOMAIN pool : pool[i].member = calls[c].member THEN pool ELSE Append(pool, entry)
  BY DEF InsertAssignPoolEntry, At
<1>2. Sound(pool)
  BY DEF PoolInv, PoolFair
<1>3. PICK e : e = entry
  OBVIOUS
<1>4. e.member = calls[c].member /\ Row(e)
  <2>1. calls[c].weight \in Nat \ {0}
    BY <1>1, PoolAssumption DEF PoolInv, PoolCallsSound, PoolCall
  <2> QED
    BY <1>3, <2>1 DEF Row
<1> HIDE DEF entry
<1>5. CASE pool' = pool
  <2>1. \E f : SameOrder(pool', pool, f)
    BY <1>2, <1>5, SamePlaces
  <2> QED
    BY <1>1, <1>2, <1>5, <2>1, PoolEdited DEF PoolInv, PoolFair
<1>6. CASE pool' = Append(pool, e) /\ ~\E i \in DOMAIN pool : pool[i].member = e.member
  <2>1. /\ IsSeq(pool') /\ Len(pool') = Len(pool) + 1 /\ DOMAIN pool' = DOMAIN pool \cup {Len(pool) + 1}
        /\ pool'[Len(pool) + 1] = e /\ \A i \in DOMAIN pool : pool'[i] = pool[i]
    BY <1>2, <1>6, Appended DEF Sound
  <2>2. Sound(pool')
    BY <1>2, <1>4, <1>6, <2>1 DEF Sound, Single
  <2>3. \E f : SameOrder(pool', pool, f)
    <3>1. \A i \in DOMAIN pool' \ DOMAIN pool : pool'[i] = e
      BY <2>1
    <3>2. \A i \in DOMAIN pool' \ DOMAIN pool : \A j \in DOMAIN pool : pool'[i].member # pool[j].member
      BY <1>6, <3>1
    <3>3. \A i \in DOMAIN pool' \cap DOMAIN pool : pool'[i].member = pool[i].member /\ pool'[i].current = pool[i].current
      BY <2>1
    <3> QED
      BY <1>2, <2>2, <3>2, <3>3, SamePlaces
  <2> QED
    BY <1>1, <2>2, <2>3, PoolEdited DEF PoolInv, PoolFair
<1> QED
  BY <1>1, <1>3, <1>4, <1>5, <1>6

LEMMA Written ==
    ASSUME PoolInv, NEW c \in Callers, WriteAssignPoolEntry(c)
    PROVE  PoolFair'
<1>1. PICK call : call = calls[c]
  OBVIOUS
<1> DEFINE Same(entry) == entry.member = call.member /\ entry.born = call.born
<1>2. /\ call.op = "reweigh" /\ Reshaped
      /\ pool' = [i \in DOMAIN pool |->
                    IF Same(pool[i]) THEN [pool[i] EXCEPT !.weight = call.weight, !.region = call.region] ELSE pool[i]]
  BY <1>1 DEF WriteAssignPoolEntry, At
<1>3. Sound(pool) /\ Len(pool) \in Nat /\ DOMAIN pool = 1..Len(pool)
  BY SeqDomain DEF PoolInv, PoolFair, Sound
<1>4. call.weight \in Nat \ {0}
  BY <1>1, <1>2, PoolAssumption DEF PoolInv, PoolCallsSound, PoolCall
<1>5. ASSUME NEW i \in DOMAIN pool
      PROVE  Row(pool'[i]) /\ pool'[i].member = pool[i].member /\ pool'[i].current = pool[i].current
  <2>1. PICK e : e = pool[i]
    OBVIOUS
  <2>2. Row(e)
    BY <1>3, <2>1 DEF Sound
  <2>3. PICK w, r : w = call.weight /\ r = call.region
    OBVIOUS
  <2>4. pool'[i] = IF Same(e) THEN [e EXCEPT !.weight = w, !.region = r] ELSE e
    BY <1>2, <2>1, <2>3
  <2>5. [e EXCEPT !.weight = w, !.region = r]
          = [member |-> e.member, born |-> e.born, weight |-> w, current |-> e.current, region |-> r]
    <3>1. PICK m, b, v, cur, t : e = [member |-> m, born |-> b, weight |-> v, current |-> cur, region |-> t]
      BY <2>2 DEF Row
    <3>2. /\ [[member |-> m, born |-> b, weight |-> v, current |-> cur, region |-> t] EXCEPT !.weight = w]
               = [member |-> m, born |-> b, weight |-> w, current |-> cur, region |-> t]
          /\ [[member |-> m, born |-> b, weight |-> w, current |-> cur, region |-> t] EXCEPT !.region = r]
               = [member |-> m, born |-> b, weight |-> w, current |-> cur, region |-> r]
      OBVIOUS
    <3>3. e.member = m /\ e.born = b /\ e.current = cur
      BY <3>1
    <3>4. [e EXCEPT !.weight = w, !.region = r] = [[e EXCEPT !.weight = w] EXCEPT !.region = r]
      OBVIOUS
    <3> QED
      BY <3>1, <3>2, <3>3, <3>4
  <2>6. pool'[i] = e \/ pool'[i] = [member |-> e.member, born |-> e.born, weight |-> w, current |-> e.current, region |-> r]
    BY <2>4, <2>5
  <2> QED
    BY <1>4, <2>1, <2>2, <2>3, <2>6 DEF Row
<1>6. DOMAIN pool' = DOMAIN pool /\ pool' = [i \in DOMAIN pool |-> pool'[i]]
  BY <1>2
<1>7. Sound(pool')
  <2>1. pool' \in Seq({pool'[i] : i \in DOMAIN pool'})
    BY <1>3, <1>6
  <2> QED
    BY <1>3, <1>5, <1>6, <2>1 DEF Sound, Single, IsSeq
<1>8. \E f : SameOrder(pool', pool, f)
  BY <1>3, <1>5, <1>6, <1>7, SamePlaces
<1> QED
  BY <1>2, <1>7, <1>8, PoolEdited DEF PoolInv, PoolFair

LEMMA Deleted ==
    ASSUME PoolInv, NEW x \in DOMAIN pool, DeleteAssignPoolEntry(x)
    PROVE  PoolFair'
<1>1. Sound(pool) /\ Len(pool) \in Nat /\ DOMAIN pool = 1..Len(pool)
  BY SeqDomain DEF PoolInv, PoolFair, Sound
<1>2. pool' = [j \in 1..(Len(pool) - 1) |-> IF j < x THEN pool[j] ELSE pool[j + 1]] /\ Reshaped
  BY DEF DeleteAssignPoolEntry
<1> DEFINE f == [j \in Nat |-> IF j < x THEN j ELSE j + 1]
<1>3. \A j \in DOMAIN pool' : f[j] \in DOMAIN pool /\ pool'[j] = pool[f[j]] /\ j \in Nat
  BY <1>1, <1>2
<1>4. \A j, k \in Nat : (j <= k <=> f[j] <= f[k]) /\ (f[j] = f[k] => j = k)
  BY <1>1
<1> HIDE DEF f
<1>5. Sound(pool')
  <2>1. Len(pool) - 1 \in Nat /\ DOMAIN pool' = 1..(Len(pool) - 1) /\ pool' = [j \in 1..(Len(pool) - 1) |-> pool'[j]]
    BY <1>1, <1>2
  <2>2. pool' \in Seq({pool'[i] : i \in DOMAIN pool'})
    BY <2>1
  <2>3. \A i \in DOMAIN pool' : Row(pool'[i])
    BY <1>1, <1>3 DEF Sound
  <2>4. Single(pool')
    BY <1>1, <1>3, <1>4 DEF Sound, Single
  <2> QED
    BY <2>2, <2>3, <2>4 DEF Sound, IsSeq
<1>6. SameOrder(pool', pool, f)
  <2>1. \A i \in DOMAIN pool' : \A j \in DOMAIN pool :
            pool'[i].member = pool[j].member => j = f[i] /\ pool'[i].current = pool[j].current
    BY <1>1, <1>3 DEF Sound, Single
  <2>2. \A i, k \in DOMAIN pool' : i <= k <=> f[i] <= f[k]
    BY <1>3, <1>4
  <2> QED
    BY <2>1, <2>2 DEF SameOrder
<1> QED
  BY <1>2, <1>5, <1>6, PoolEdited DEF PoolInv, PoolFair

LEMMA MemberWritten ==
    ASSUME PoolInv, NEW c \in Callers, WriteMember(c)
    PROVE  PoolFair'
<1>1. pool' = pool /\ Reshaped /\ Sound(pool)
  BY DEF WriteMember, PoolInv, PoolFair
<1>2. \E f : SameOrder(pool', pool, f)
  BY <1>1, SamePlaces
<1> QED
  BY <1>1, <1>2, PoolEdited DEF PoolInv, PoolFair

-----------------------------------------------------------------------------
(* What the steps do to the pool.                                          *)

\* A lead is assigned, or the pool stays as it is.
PoolStep == UNCHANGED poolVars \/ \E region, pick : AssignLead(region, pick, Nobody)

LEMMA PoolStepKeeps ==
    ASSUME PoolFair, PoolStep
    PROVE  PoolFair'
<1>1. CASE UNCHANGED poolVars
  BY <1>1 DEF PoolFair, poolVars
<1> QED
  BY <1>1, LeadAssigned DEF PoolStep

LEMMA FirstAssigns ==
    ASSUME NEW key, NEW content, NEW facts, NEW source, NEW assigns,
           FirstIntake(key, content, facts, source, assigns)
    PROVE  PoolStep
  BY DEF FirstIntake, PoolStep

LEMMA IntakeAssigns == ASSUME IntakeNext PROVE PoolStep
<1>1. ASSUME NEW c, NEW k, NEW content, PostEvent(c, k, content) PROVE PoolStep
  BY <1>1 DEF PostEvent, PoolStep
<1>2. ASSUME NEW c, CreateSourceRef(c) \/ LoadLead(c) \/ UpdateLead(c) PROVE PoolStep
  BY <1>2 DEF CreateSourceRef, LoadLead, UpdateLead, PoolStep
<1>3. ASSUME NEW c, IntakeEvent(c) PROVE PoolStep
  <2>1. CASE \E key, content, facts, source, assigns : FirstIntake(key, content, facts, source, assigns)
    BY <2>1, FirstAssigns
  <2>2. CASE UNCHANGED poolVars
    BY <2>2 DEF PoolStep
  <2> QED
    BY <1>3, <2>1, <2>2 DEF IntakeEvent, Replayed
<1>4. ASSUME NEW c, NEW m, NEW l, NEW status, NEW to, PatchLead(c, m, l, status) \/ ReassignLead(c, l, to) PROVE PoolStep
  BY <1>4 DEF PatchLead, ReassignLead, PoolStep
<1>5. ASSUME NEW i, NEW source, NEW ref, NEW payload, SubmitForm(i, source, ref, payload) PROVE PoolStep
  <2>1. CASE \E key, content, facts, src, assigns : FirstIntake(key, content, facts, src, assigns)
    BY <2>1, FirstAssigns
  <2>2. CASE UNCHANGED poolVars
    BY <2>2 DEF PoolStep
  <2> QED
    BY <1>5, <2>1, <2>2 DEF SubmitForm, SubmitFormInTx
<1>6. ASSUME NEW m, NEW phone, NEW contact, NEW to,
             WindowPasses \/ CreateContact(m, phone) \/ CreateLead(m, contact, to)
      PROVE  PoolStep
  BY <1>6 DEF WindowPasses, CreateContact, CreateLead, PoolStep
<1> QED
  BY <1>1, <1>2, <1>3, <1>4, <1>5, <1>6 DEF IntakeNext

LEMMA ConfirmAssigns == ASSUME ConfirmNext PROVE PoolStep
<1>1. ASSUME NEW c, NEW e, ConfirmChannelCandidate(c, e) PROVE PoolStep
  BY <1>1 DEF ConfirmChannelCandidate, PoolStep
<1>2. ASSUME NEW c, ConfirmedInTx(c) PROVE PoolStep
  <2>1. CASE \E key, content, facts, source, assigns : FirstIntake(key, content, facts, source, assigns)
    BY <2>1, FirstAssigns
  <2>2. CASE UNCHANGED poolVars
    BY <2>2 DEF PoolStep
  <2> QED
    BY <1>2, <2>1, <2>2 DEF ConfirmedInTx
<1> QED
  BY <1>1, <1>2 DEF ConfirmNext

LEMMA CompaniesAssign == ASSUME EnterpriseNext PROVE PoolStep /\ UNCHANGED calls
<1>1. ASSUME NEW batch, NEW e, NEW reason, Import(batch) \/ Suppress(e, reason) PROVE PoolStep /\ UNCHANGED calls
  BY <1>1 DEF Import, Suppress, AtOnce, PoolStep
<1>2. ASSUME NEW e, Confirm(e) PROVE PoolStep /\ UNCHANGED calls
  <2>1. CASE \E key, content, facts, source, assigns : FirstIntake(key, content, facts, source, assigns)
    BY <1>2, <2>1, FirstAssigns DEF Confirm, AtOnce
  <2>2. CASE UNCHANGED poolVars
    BY <1>2, <2>2 DEF Confirm, AtOnce, PoolStep
  <2> QED
    BY <1>2, <2>1, <2>2 DEF Confirm, ConfirmEnterpriseRecord
<1> QED
  BY <1>1, <1>2 DEF EnterpriseNext

LEMMA PoolEditsKeep ==
    ASSUME PoolInv, PoolNext
    PROVE  PoolFair'
<1>1. ASSUME NEW c, NEW m, NEW w, NEW r, NEW i, NEW row,
             CreateAssignPoolEntry(c, m, w, r) \/ UpdateAssignPoolEntry(c, i, w, r) \/ UpdateMember(c, m, row)
      PROVE  PoolFair'
  BY <1>1, PoolStepKeeps DEF CreateAssignPoolEntry, UpdateAssignPoolEntry, UpdateMember, PoolInv, PoolStep
<1> QED
  BY <1>1, Inserted, Written, Deleted, MemberWritten DEF PoolNext

\* Requests of other kinds write no weights.
LEMMA PoolCallsRest ==
    ASSUME PoolCallsSound, NEW ops, CallsTake(ops), ops \cap {"entry", "reweigh"} = {}
    PROVE  PoolCallsSound'
<1>1. ASSUME NEW c \in Callers, NEW d \in Callers, Takes(c, ops) PROVE PoolCall(calls'[d])
  <2>1. PICK call : calls' = [calls EXCEPT ![c] = call] /\ call.op \in ops
    BY <1>1 DEF Takes
  <2>2. calls'[d] = calls[d] \/ calls'[d] = call
    BY <2>1
  <2> QED
    BY <2>1, <2>2 DEF PoolCall, PoolCallsSound
<1>2. CASE UNCHANGED calls
  BY <1>2 DEF PoolCallsSound
<1> QED
  BY <1>1, <1>2 DEF CallsTake, PoolCallsSound

LEMMA PoolCallsKeep ==
    ASSUME PoolCallsSound, PoolNext
    PROVE  PoolCallsSound'
<1>1. ASSUME NEW c \in Callers, NEW call, PoolCall(call), Start(c, call) \/ Proceed(c, call)
      PROVE  PoolCallsSound'
  <2>1. calls' = [calls EXCEPT ![c] = call]
    BY <1>1 DEF Start, Proceed
  <2> QED
    BY <1>1, <2>1 DEF PoolCallsSound
<1>2. ASSUME NEW c \in Callers, NEW m, NEW w \in Weights, NEW r, CreateAssignPoolEntry(c, m, w, r) PROVE PoolCallsSound'
  <2>1. PoolCall([op |-> "entry", member |-> m, weight |-> w, region |-> r])
    BY DEF PoolCall
  <2> QED
    BY <1>1, <1>2, <2>1 DEF CreateAssignPoolEntry
<1>3. ASSUME NEW c \in Callers, NEW i, NEW w \in Weights, NEW r, UpdateAssignPoolEntry(c, i, w, r) PROVE PoolCallsSound'
  <2>1. PoolCall([op |-> "reweigh", member |-> pool[i].member, born |-> pool[i].born, weight |-> w, region |-> r])
    BY DEF PoolCall
  <2> QED
    BY <1>1, <1>3, <2>1 DEF UpdateAssignPoolEntry
<1>4. ASSUME NEW c \in Callers, NEW m, NEW row, UpdateMember(c, m, row) PROVE PoolCallsSound'
  <2>1. PoolCall([op |-> "member", member |-> m, row |-> row])
    BY DEF PoolCall
  <2> QED
    BY <1>1, <1>4, <2>1 DEF UpdateMember
<1>5. ASSUME NEW c \in Callers, InsertAssignPoolEntry(c) \/ WriteAssignPoolEntry(c) \/ WriteMember(c) PROVE PoolCallsSound'
  <2>1. PoolCall(Idle)
    BY DEF PoolCall, Idle
  <2> QED
    BY <1>1, <1>5, <2>1 DEF InsertAssignPoolEntry, WriteAssignPoolEntry, WriteMember, Finish
<1>6. ASSUME NEW i, DeleteAssignPoolEntry(i) PROVE PoolCallsSound'
  BY <1>6 DEF DeleteAssignPoolEntry, AtOnce, PoolCallsSound
<1> QED
  BY <1>2, <1>3, <1>4, <1>5, <1>6 DEF PoolNext

LEMMA PoolKeeps == DeskInv /\ PoolInv /\ [Next]_vars => PoolInv'
<1> SUFFICES ASSUME DeskInv, PoolInv, [Next]_vars PROVE PoolInv'
  OBVIOUS
<1>1. ASSUME PoolStep PROVE PoolFair'
  BY <1>1, PoolStepKeeps DEF PoolInv
<1>2. ASSUME NEW ops, CallsTake(ops), ops \cap {"entry", "reweigh"} = {} PROVE PoolCallsSound'
  BY <1>2, PoolCallsRest DEF PoolInv
<1>3. ASSUME UNCHANGED poolVars PROVE PoolStep
  BY <1>3 DEF PoolStep
<1>4. ASSUME UNCHANGED calls PROVE PoolCallsSound'
  BY <1>4 DEF PoolInv, PoolCallsSound
<1>5. CASE UNCHANGED vars
  BY <1>1, <1>3, <1>4, <1>5 DEF vars, requestVars, PoolInv
<1>6. CASE IntakeNext
  BY <1>1, <1>2, <1>6, IntakeAssigns, IntakeCalls DEF DeskInv, IntakeOps, PoolInv
<1>7. CASE FormNext /\ UNCHANGED <<poolVars, deskVars>>
  BY <1>1, <1>2, <1>3, <1>7, FormCalls DEF FormOps, PoolInv
<1>8. CASE PoolNext
  BY <1>8, PoolEditsKeep, PoolCallsKeep DEF PoolInv
<1>9. ASSUME NEW c \in Callers, Abandon(c), UNCHANGED <<forms, poolVars, deskVars>> PROVE PoolInv'
  <2>1. CallsTake({"idle"})
    BY <1>9, StepsTake DEF Abandon, CallsTake
  <2> QED
    BY <1>1, <1>2, <1>3, <1>9, <2>1 DEF PoolInv
<1>10. CASE ChannelNext /\ UNCHANGED poolVars
  BY <1>1, <1>2, <1>3, <1>10, ChannelCalls DEF ChannelOps, PoolInv
<1>11. CASE ConfirmNext
  BY <1>1, <1>2, <1>11, ConfirmAssigns, ConfirmCalls DEF ConfirmOps, PoolInv
<1>12. CASE EnterpriseNext
  BY <1>1, <1>4, <1>12, CompaniesAssign DEF PoolInv
<1>13. CASE FollowNext /\ UNCHANGED poolVars
  BY <1>1, <1>2, <1>3, <1>13, FollowCalls DEF FollowOps, DeskInv, PoolInv
<1>14. CASE ContactNext /\ UNCHANGED poolVars
  BY <1>1, <1>2, <1>3, <1>14, ContactCalls DEF ContactOps, PoolInv
<1> QED
  BY <1>5, <1>6, <1>7, <1>8, <1>9, <1>10, <1>11, <1>12, <1>13, <1>14 DEF Next, DeskNext

LEMMA PoolStarts == Init => PoolInv
<1> SUFFICES ASSUME Init PROVE PoolInv
  OBVIOUS
<1>1. PICK tenant \in SomeTenants : PoolInit(tenant.pool, tenant.turned)
  BY DEF Init, DeskInit
<1>2. PICK entries, turned : entries = tenant.pool /\ turned = tenant.turned
  OBVIOUS
<1>3. entries \in Seq(Entry) /\ \A i, j \in DOMAIN entries : entries[i].member = entries[j].member => i = j
  BY <1>2, DeskAssumption
<1>4. \A i \in DOMAIN entries : entries[i] \in Entry
  BY <1>3
<1>5. Sound(entries)
  <2>1. ASSUME NEW e \in Entry PROVE Row(e)
    BY PoolAssumption DEF Entry, Row
  <2> QED
    BY <1>3, <1>4, <2>1, SeqOf DEF Sound, Single
<1>6. PoolCallsSound
  BY DEF Init, DeskInit, Quiet, Idle, PoolCallsSound, PoolCall
<1>7. CASE pool = entries /\ stretch = FreshStretch(entries, members)
  BY <1>5, <1>6, <1>7, FreshFair DEF PoolInv, PoolFair
<1>8. CASE turned /\ entries # <<>>
  <2> DEFINE all == DOMAIN entries
             first == <<entries[Picked(entries, all)].member>>
  <2>1. /\ members = [m \in Members |-> [role |-> "sales", enabled |-> TRUE]] /\ pool = Turn(entries, all)
        /\ stretch = [FreshStretch(entries, members) EXCEPT !.picks = first]
    BY <1>1, <1>2, <1>8 DEF PoolInit
  <2>2. Effective(entries, members) = all
    <3>1. \A e \in Entry : members[e.member].role = "sales" /\ members[e.member].enabled
      BY <2>1 DEF Entry
    <3> QED
      BY <1>4, <3>1 DEF Effective
  <2>3. all # {}
    BY <1>3, <1>8
  <2>4. Total(entries, all) \in Int
    BY <1>5, TotalWhole
  <2>5. Sound(pool) /\ DOMAIN pool = all /\ \A i \in DOMAIN entries : pool[i].member = entries[i].member
    BY <1>5, <2>1, <2>3, <2>4, TurnTaken
  <2>6. Effective(pool, members) = all
    BY <2>2, <2>5 DEF Effective
  <2>7. stretch = [even |-> stretch.even, picks |-> first] /\ (stretch.even => \A i \in all : entries[i].current = 0)
    <3>1. PICK b \in BOOLEAN : b = (\A i \in all : entries[i].current = 0)
      OBVIOUS
    <3>2. FreshStretch(entries, members) = [even |-> b, picks |-> <<>>]
      BY <2>2, <3>1 DEF FreshStretch
    <3>3. PICK p : p = first
      OBVIOUS
    <3> HIDE DEF first
    <3>4. stretch = [even |-> b, picks |-> p]
      <4>1. stretch = [FreshStretch(entries, members) EXCEPT !.picks = p]
        BY <2>1, <3>3
      <4>2. [[even |-> b, picks |-> <<>>] EXCEPT !.picks = p] = [even |-> b, picks |-> p]
        OBVIOUS
      <4> QED
        BY <3>2, <4>1, <4>2
    <3>5. stretch.even = b /\ stretch.picks = p
      BY <3>4
    <3> QED
      BY <3>1, <3>3, <3>4, <3>5
  <2>8. ASSUME stretch.even PROVE Fair(pool, all, stretch.picks)
    <3>1. Fair(entries, all, <<>>)
      BY <1>5, <2>7, <2>8, FairFromZero
    <3>2. Fair(Turn(entries, all), all, Append(<<>>, entries[Picked(entries, all)].member))
      BY <1>5, <2>3, <3>1, FairTurn
    <3>3. stretch.picks = Append(<<>>, entries[Picked(entries, all)].member)
      BY <2>7
    <3> QED
      BY <2>1, <3>2, <3>3
  <2> HIDE DEF first
  <2>9. stretch = [even |-> stretch.even, picks |-> stretch.picks]
    BY <2>7
  <2> QED
    BY <1>6, <2>5, <2>6, <2>8, <2>9 DEF PoolInv, PoolFair
<1> QED
  BY <1>1, <1>2, <1>7, <1>8 DEF PoolInit

-----------------------------------------------------------------------------

\* While the pool stays as it is, each run of as many leads as the weights add
\* up to is shared out exactly by weight, for any members, weights and tags,
\* whoever edits or assigns in between (store/lead_assign.go, AssignLeadInTx,
\* advanceSmoothWRR).
THEOREM SharesExact == Spec => []FairShares
<1>1. ASSUME PoolInv PROVE FairShares
  <2>1. /\ Sound(pool) /\ Effective(pool, members) \subseteq DOMAIN pool
        /\ stretch.even => Fair(pool, Effective(pool, members), stretch.picks)
    BY <1>1, EffectiveIn DEF PoolInv, PoolFair
  <2> QED
    BY <2>1, FairMeansShares DEF FairShares
<1> QED
  BY <1>1, DeskStarts, DeskKeeps, PoolStarts, PoolKeeps, PTL DEF Spec
===============================================================================
