----------------------------- MODULE FoldProofs -----------------------------
(***************************************************************************)
(* What FoldLeft and FlattenSeq compute, for sequences of any length.      *)
(*                                                                         *)
(* The library defines both by CHOOSING a function on the subsets of the   *)
(* indices.  Such a function exists (FoldExists) and is determined on the  *)
(* sets 1..n, where its values are what a loop over the sequence has after *)
(* n rounds (FoldChain): ChainTo says so, and is what the facts about sums *)
(* and flattened sequences are proved from, and the loops of other modules *)
(* followed by.  An operator cannot be passed to a lemma, so the step of a *)
(* loop is a function of the round and the value so far.                   *)
(***************************************************************************)
EXTENDS Integers, Sequences, FiniteSets, SequencesExt, SequenceTheorems,
        WellFoundedInduction, TLAPS

\* Induction over the numbers, said of a set: as an operator's property it could
\* not be cited.
LEMMA SetInduction ==
    ASSUME NEW T, 0 \in T, \A n \in Nat : n \in T => n + 1 \in T
    PROVE  \A n \in Nat : n \in T
<1> SUFFICES ASSUME NEW n \in Nat, n \notin T PROVE FALSE
  OBVIOUS
<1> DEFINE U == {k \in Nat : k \notin T}
<1>1. U \subseteq Nat /\ U # {}
  OBVIOUS
<1> HIDE DEF U
<1>2. PICK m \in U : \A k \in U : ~(<<k, m>> \in OpToRel(<, Nat))
  BY <1>1, NatLessThanWellFounded, WFMin
<1>3. \A k \in U : ~(k < m)
  BY <1>1, <1>2 DEF OpToRel
<1>4. m \in Nat /\ m \notin T
  BY DEF U
<1>5. m # 0
  BY <1>4
<1>6. m - 1 \in Nat /\ m - 1 < m
  BY <1>4, <1>5
<1>7. m - 1 \notin T
  BY <1>6, <1>4
<1> QED BY <1>3, <1>6, <1>7 DEF U

\* The sets a fold over n elements goes through.
Below(n) == SUBSET (1..n)

LEMMA BelowFacts ==
    /\ Below(0) = {{}}
    /\ \A n \in Nat : Below(n) \subseteq Below(n + 1)
    /\ \A n \in Nat : 1..n \in Below(n)
    /\ \A n, m \in Nat : n <= m => 1..n \in Below(m)
BY DEF Below

\* A set of numbers, if it has any, has a greatest one.
HasMax(s) == s = {} \/ \E x \in s : \A y \in s : x >= y

LEMMA MaxExists ==
    ASSUME NEW n \in Nat, NEW s \in Below(n)
    PROVE  HasMax(s)
<1> DEFINE T == {k \in Nat : \A t \in Below(k) : HasMax(t)}
<1>1. 0 \in T
  BY BelowFacts DEF HasMax
<1>2. ASSUME NEW k \in Nat, k \in T PROVE k + 1 \in T
  <2> SUFFICES ASSUME NEW t \in Below(k + 1) PROVE HasMax(t)
    OBVIOUS
  <2>1. CASE k + 1 \in t
    BY <2>1 DEF HasMax, Below
  <2>2. CASE k + 1 \notin t
    <3>1. t \in Below(k)
      BY <2>2 DEF Below
    <3> QED BY <1>2, <3>1
  <2> QED BY <2>1, <2>2
<1> HIDE DEF T
<1>3. n \in T
  BY <1>1, <1>2, SetInduction
<1> QED BY <1>3 DEF T

\* The element a fold takes next, and what it leaves.
LEMMA MaxIs ==
    ASSUME NEW n \in Nat, NEW s \in Below(n), s # {}
    PROVE  Max(s) \in s /\ \A y \in s : Max(s) >= y
<1>1. \E x \in s : \A y \in s : x >= y
  BY MaxExists DEF HasMax
<1> QED BY <1>1, Zenon DEF Max

LEMMA MaxOfInterval ==
    ASSUME NEW n \in Nat
    PROVE  /\ Max(1..(n + 1)) = n + 1
           /\ (1..(n + 1)) \ {n + 1} = 1..n /\ 1..(n + 1) # {}
<1>1. 1..(n + 1) \in Below(n + 1) /\ 1..(n + 1) # {}
  <2>1. n + 1 \in Nat /\ n + 1 \in 1..(n + 1)
    OBVIOUS
  <2> QED BY <2>1, BelowFacts
<1>2. Max(1..(n + 1)) \in 1..(n + 1) /\ \A y \in 1..(n + 1) : Max(1..(n + 1)) >= y
  BY <1>1, MaxIs
<1> QED BY <1>1, <1>2

LEMMA MaxLeaves ==
    ASSUME NEW n \in Nat, NEW s \in Below(n + 1), s # {}
    PROVE  Max(s) \in 1..(n + 1) /\ s \ {Max(s)} \in Below(n)
<1>1. Max(s) \in s /\ \A y \in s : Max(s) >= y
  BY MaxIs
<1> DEFINE m == Max(s)
<1>2. m \in s /\ \A y \in s : m >= y
  BY <1>1
<1> HIDE DEF m
<1>3. s \ {m} \in Below(n) /\ m \in 1..(n + 1)
  BY <1>2 DEF Below
<1> QED BY <1>3 DEF m

\* A fold, with its operator as a function of the index and the value so far.
IsFold(f, n, base, step) ==
    f = [s \in Below(n) |->
            IF s = {} THEN base ELSE step[Max(s)][f[s \ {Max(s)}]]]

\* There is such a function, with values in A.
FoldFrom(n, A, base, step) == \E f \in [Below(n) -> A] : IsFold(f, n, base, step)

LEMMA FoldStarts ==
    ASSUME NEW A, NEW base \in A, NEW step
    PROVE  FoldFrom(0, A, base, step)
<1> DEFINE f == [s \in Below(0) |-> base]
<1>1. f \in [Below(0) -> A]
  OBVIOUS
<1>2. \A s \in Below(0) : s = {}
  BY BelowFacts
<1>3. f = [s \in Below(0) |-> IF s = {} THEN base ELSE step[Max(s)][f[s \ {Max(s)}]]]
  BY <1>2, Zenon
<1> QED BY <1>1, <1>3 DEF FoldFrom, IsFold

LEMMA FoldGoesOn ==
    ASSUME NEW n \in Nat, NEW A, NEW base \in A, NEW step \in [1..(n + 1) -> [A -> A]],
           FoldFrom(n, A, base, step)
    PROVE  FoldFrom(n + 1, A, base, step)
<1>1. PICK g \in [Below(n) -> A] : IsFold(g, n, base, step)
  BY DEF FoldFrom
<1> DEFINE f == [s \in Below(n + 1) |->
                     IF s = {} THEN base ELSE step[Max(s)][g[s \ {Max(s)}]]]
<1>2. \A s \in Below(n + 1) : s # {} =>
         Max(s) \in 1..(n + 1) /\ s \ {Max(s)} \in Below(n)
  BY MaxLeaves
<1>3. f \in [Below(n + 1) -> A]
  <2> SUFFICES ASSUME NEW s \in Below(n + 1), s # {}
               PROVE  step[Max(s)][g[s \ {Max(s)}]] \in A
    BY Zenon
  <2>1. g[s \ {Max(s)}] \in A /\ Max(s) \in 1..(n + 1)
    BY <1>1, <1>2
  <2> QED BY <2>1
<1>4. \A s \in Below(n) : f[s] = g[s]
  <2>1. Below(n) \subseteq Below(n + 1)
    BY BelowFacts
  <2>2. \A s \in Below(n) : g[s] = IF s = {} THEN base ELSE step[Max(s)][g[s \ {Max(s)}]]
    BY <1>1, Zenon DEF IsFold
  <2> QED BY <2>1, <2>2, Zenon
<1>5. \A s \in Below(n + 1) :
          f[s] = IF s = {} THEN base ELSE step[Max(s)][f[s \ {Max(s)}]]
  BY <1>2, <1>4, Zenon
<1> HIDE DEF f
<1>6. f = [s \in Below(n + 1) |-> IF s = {} THEN base ELSE step[Max(s)][f[s \ {Max(s)}]]]
  BY <1>3, <1>5, Zenon
<1> QED BY <1>3, <1>6 DEF IsFold, FoldFrom

\* It can be built for any number of elements, one at a time.
LEMMA FoldExists ==
    ASSUME NEW N \in Nat, NEW A, NEW base \in A, NEW step \in [1..N -> [A -> A]]
    PROVE  FoldFrom(N, A, base, step)
<1> DEFINE T == {n \in Nat : n <= N => FoldFrom(n, A, base, [i \in 1..n |-> step[i]])}
<1>1. 0 \in T
  BY FoldStarts
<1>2. ASSUME NEW n \in Nat, n \in T PROVE n + 1 \in T
  <2> SUFFICES ASSUME n + 1 <= N
               PROVE  FoldFrom(n + 1, A, base, [i \in 1..(n + 1) |-> step[i]])
    OBVIOUS
  <2> DEFINE st == [i \in 1..n |-> step[i]]
             st1 == [i \in 1..(n + 1) |-> step[i]]
  <2>1. FoldFrom(n, A, base, st)
    BY <1>2
  <2>2. FoldFrom(n, A, base, st1)
    <3>1. PICK g \in [Below(n) -> A] : IsFold(g, n, base, st)
      BY <2>1 DEF FoldFrom
    <3>2. \A s \in Below(n) : s # {} => Max(s) \in 1..n
      BY MaxIs DEF Below
    <3>3. \A i \in 1..n : st[i] = st1[i]
      OBVIOUS
    <3> HIDE DEF st, st1
    <3>4. IsFold(g, n, base, st1)
      BY <3>1, <3>2, <3>3, Zenon DEF IsFold
    <3> QED BY <3>1, <3>4 DEF FoldFrom
  <2>3. st1 \in [1..(n + 1) -> [A -> A]]
    OBVIOUS
  <2> HIDE DEF st, st1
  <2>4. FoldFrom(n + 1, A, base, st1)
    BY <2>2, <2>3, FoldGoesOn
  <2> QED BY <2>4 DEF st1
<1>3. N \in T
  <2> HIDE DEF T
  <2> QED BY <1>1, <1>2, SetInduction
<1>4. [i \in 1..N |-> step[i]] = step
  OBVIOUS
<1>5. FoldFrom(N, A, base, [i \in 1..N |-> step[i]])
  BY <1>3
<1> QED BY <1>4, <1>5

\* What a fold has computed after each element.
IsChain(g, n, base, step) ==
    /\ g[0] = base
    /\ \A i \in 1..n : g[i] = step[i][g[i - 1]]

\* The operator folded with is a function of more values than those of A.
Widens(wide, N, A, step) ==
    /\ step \in [1..N -> [A -> A]]
    /\ \A i \in 1..N : \A a \in A : wide[i][a] = step[i][a]

\* A fold that ends in value and never leaves A.
ChainTo(value, N, A, base, step) ==
    \E g \in [0..N -> A] : IsChain(g, N, base, step) /\ g[N] = value

\* A fold over the sets of indices is one over the indices in order.
LEMMA FoldChain ==
    ASSUME NEW N \in Nat, NEW A, NEW base \in A, NEW step, NEW f, NEW wide,
           IsFold(f, N, base, wide), Widens(wide, N, A, step)
    PROVE  ChainTo(f[1..N], N, A, base, step)
<1>0. step \in [1..N -> [A -> A]] /\ \A i \in 1..N : \A a \in A : wide[i][a] = step[i][a]
  BY DEF Widens
<1> DEFINE g == [n \in 0..N |-> f[1..n]]
           T == {n \in Nat : n <= N => g[n] \in A}
<1>1. \A n \in 0..N : 1..n \in Below(N)
  BY DEF Below
<1>2. g[0] = base
  <2>1. 1..0 = {} /\ 0 \in 0..N
    OBVIOUS
  <2>2. f[{}] = base
    BY <1>1, <2>1, Zenon DEF IsFold
  <2> QED BY <2>1, <2>2
<1>3. ASSUME NEW n \in 1..N PROVE g[n] = wide[n][g[n - 1]]
  <2>1. n - 1 \in Nat /\ (n - 1) + 1 = n /\ n - 1 \in 0..N /\ n \in 0..N
    OBVIOUS
  <2>2. Max(1..n) = n /\ (1..n) \ {n} = 1..(n - 1) /\ 1..n # {}
    BY <2>1, MaxOfInterval
  <2>3. f[1..n] = wide[Max(1..n)][f[(1..n) \ {Max(1..n)}]]
    BY <1>1, <2>1, <2>2, Zenon DEF IsFold
  <2> QED BY <2>1, <2>2, <2>3
<1>4. g[N] = f[1..N]
  OBVIOUS
<1>5. g = [n \in 0..N |-> g[n]]
  OBVIOUS
<1> HIDE DEF g
<1>6. 0 \in T
  BY <1>2
<1>7. ASSUME NEW n \in Nat, n \in T PROVE n + 1 \in T
  <2> SUFFICES ASSUME n + 1 <= N PROVE g[n + 1] \in A
    OBVIOUS
  <2>1. n + 1 \in 1..N /\ (n + 1) - 1 = n /\ g[n] \in A
    BY <1>7
  <2>2. g[n + 1] = step[n + 1][g[n]]
    BY <1>0, <1>3, <2>1
  <2> QED BY <1>0, <2>1, <2>2
<1>8. \A n \in 0..N : g[n] \in A
  <2>1. \A n \in Nat : n \in T
    <3> HIDE DEF T
    <3> QED BY <1>6, <1>7, SetInduction
  <2> QED BY <2>1
<1>9. g \in [0..N -> A]
  BY <1>5, <1>8
<1>10. IsChain(g, N, base, step)
  <2> SUFFICES ASSUME NEW n \in 1..N PROVE g[n] = step[n][g[n - 1]]
    BY <1>2 DEF IsChain
  <2>1. n - 1 \in 0..N
    OBVIOUS
  <2> QED BY <1>0, <1>3, <1>8, <2>1
<1> QED BY <1>4, <1>9, <1>10 DEF ChainTo

\* The values of a fold are determined by where it starts and what it does.
LEMMA ChainUnique ==
    ASSUME NEW N \in Nat, NEW g, NEW h, NEW base, NEW step,
           IsChain(g, N, base, step), IsChain(h, N, base, step)
    PROVE  \A n \in 0..N : g[n] = h[n]
<1> DEFINE T == {n \in Nat : n <= N => g[n] = h[n]}
<1>1. 0 \in T
  BY DEF IsChain
<1>2. ASSUME NEW n \in Nat, n \in T PROVE n + 1 \in T
  <2> SUFFICES ASSUME n + 1 <= N PROVE g[n + 1] = h[n + 1]
    OBVIOUS
  <2>1. n + 1 \in 1..N /\ (n + 1) - 1 = n /\ g[n] = h[n]
    BY <1>2
  <2> QED BY <2>1 DEF IsChain
<1> HIDE DEF T
<1>3. \A n \in Nat : n \in T
  BY <1>1, <1>2, SetInduction
<1> QED BY <1>3 DEF T

LEMMA ChainToUnique ==
    ASSUME NEW N \in Nat, NEW A, NEW base, NEW step, NEW u, NEW v,
           ChainTo(u, N, A, base, step), ChainTo(v, N, A, base, step)
    PROVE  u = v
<1>1. PICK g : IsChain(g, N, base, step) /\ g[N] = u
  BY DEF ChainTo
<1>2. PICK h : IsChain(h, N, base, step) /\ h[N] = v
  BY DEF ChainTo
<1>3. \A n \in 0..N : g[n] = h[n]
  BY <1>1, <1>2, ChainUnique
<1> QED BY <1>1, <1>2, <1>3

\* A fold over one element more.
Agrees(longer, step, N, A) == \A i \in 1..N : \A a \in A : longer[i][a] = step[i][a]

\* v is what one more element makes of u.
OneMore(v, u, N, A, base, step, longer) ==
    /\ ChainTo(u, N, A, base, step)
    /\ u \in A /\ v = longer[N + 1][u]

LEMMA ChainToStep ==
    ASSUME NEW N \in Nat, NEW A, NEW base, NEW step, NEW longer, NEW v,
           ChainTo(v, N + 1, A, base, longer), Agrees(longer, step, N, A)
    PROVE  \E u : OneMore(v, u, N, A, base, step, longer)
<1>1. PICK g \in [0..(N + 1) -> A] : IsChain(g, N + 1, base, longer) /\ g[N + 1] = v
  BY DEF ChainTo
<1> DEFINE h == [n \in 0..N |-> g[n]]
<1>2. h \in [0..N -> A] /\ h[N] = g[N] /\ g[N] \in A /\ h[0] = base
  BY <1>1 DEF IsChain
<1>3. ASSUME NEW i \in 1..N PROVE h[i] = step[i][h[i - 1]]
  <2>1. i \in 1..(N + 1) /\ i \in 0..N /\ i - 1 \in 0..N /\ i - 1 \in 0..(N + 1)
    OBVIOUS
  <2>2. g[i] = longer[i][g[i - 1]] /\ g[i - 1] \in A
    BY <1>1, <2>1 DEF IsChain
  <2> QED BY <2>1, <2>2 DEF Agrees
<1>4. v = longer[N + 1][g[N]]
  <2>1. N + 1 \in 1..(N + 1) /\ (N + 1) - 1 = N
    OBVIOUS
  <2> QED BY <1>1, <2>1 DEF IsChain
<1> HIDE DEF h
<1>5. ChainTo(g[N], N, A, base, step)
  BY <1>2, <1>3 DEF ChainTo, IsChain
<1> QED BY <1>2, <1>4, <1>5 DEF OneMore

-----------------------------------------------------------------------------
(***************************************************************************)
(* Sums.                                                                   *)
(***************************************************************************)
SumOf(s) == FoldLeft(+, 0, s)

\* What summing does with element i.
AddStep(s) == [i \in 1..Len(s) |-> [a \in Int |-> a + s[i]]]

LEMMA AddStepIs ==
    ASSUME NEW s \in Seq(Int), NEW i \in 1..Len(s), NEW a \in Int
    PROVE  AddStep(s)[i][a] = a + s[i]
BY DEF AddStep

\* The library's fold, which is a CHOICE of a function, computes the sums.
LEMMA SumChain ==
    ASSUME NEW s \in Seq(Int)
    PROVE  ChainTo(SumOf(s), Len(s), Int, 0, AddStep(s))
<1> DEFINE N == Len(s)
           Sums(f) == f = [t \in SUBSET DOMAIN s |->
                              IF t = {} THEN 0 ELSE f[t \ {Max(t)}] + s[Max(t)]]
           f == CHOOSE f : Sums(f)
           wide == [i \in 1..N |-> [a \in Int \cup {f[t] : t \in Below(N)} |-> a + s[i]]]
<1>1. N \in Nat /\ DOMAIN s = 1..N /\ SUBSET DOMAIN s = Below(N) /\ \A i \in 1..N : s[i] \in Int
  BY DEF Below
<1>2. AddStep(s) \in [1..N -> [Int -> Int]]
  BY <1>1 DEF AddStep
<1>3. \A t \in Below(N) : t # {} => Max(t) \in 1..N /\ t \ {Max(t)} \in Below(N)
  BY <1>1, MaxIs DEF Below
<1>4. \E h : Sums(h)
  <2>1. PICK h \in [Below(N) -> Int] : IsFold(h, N, 0, AddStep(s))
    <3> DEFINE A == Int
    <3>1. 0 \in A /\ AddStep(s) \in [1..N -> [A -> A]]
      BY <1>2
    <3> HIDE DEF N, A
    <3>2. \E h \in [Below(N) -> A] : IsFold(h, N, 0, AddStep(s))
      BY <1>1, <3>1, FoldExists DEF FoldFrom
    <3> QED BY <3>2 DEF A
  <2>2. \A t \in Below(N) : t # {} =>
           AddStep(s)[Max(t)][h[t \ {Max(t)}]] = h[t \ {Max(t)}] + s[Max(t)]
    <3> SUFFICES ASSUME NEW t \in Below(N), t # {}
                 PROVE  AddStep(s)[Max(t)][h[t \ {Max(t)}]] = h[t \ {Max(t)}] + s[Max(t)]
      OBVIOUS
    <3>1. Max(t) \in 1..N /\ h[t \ {Max(t)}] \in Int
      BY <1>3, <2>1
    <3> QED BY <3>1 DEF AddStep
  <2>3. Sums(h)
    <3> HIDE DEF N
    <3> QED BY <1>1, <2>1, <2>2, Zenon DEF IsFold
  <2> QED BY <2>3
<1>5. Sums(f)
  BY <1>4, Zenon
<1>6. SumOf(s) = f[1..N]
  <2>1. SumOf(s) = f[DOMAIN s]
    BY Zenon DEF SumOf, FoldLeft, MapThenFoldSet
  <2> QED BY <1>1, <2>1
<1> HIDE DEF f
<1>7. IsFold(f, N, 0, wide)
  <2>1. \A t \in Below(N) : t # {} =>
           wide[Max(t)][f[t \ {Max(t)}]] = f[t \ {Max(t)}] + s[Max(t)]
    <3> HIDE DEF N
    <3> QED BY <1>3, Zenon
  <2> HIDE DEF wide, N
  <2> QED BY <1>1, <1>5, <2>1, Zenon DEF IsFold
<1>8. \A i \in 1..N : \A a \in Int : wide[i][a] = AddStep(s)[i][a]
  <2> SUFFICES ASSUME NEW i \in 1..N, NEW a \in Int PROVE wide[i][a] = AddStep(s)[i][a]
    OBVIOUS
  <2>1. wide[i][a] = a + s[i]
    <3> HIDE DEF N
    <3> QED BY Zenon
  <2>2. AddStep(s)[i][a] = a + s[i]
    BY DEF AddStep
  <2> QED BY <2>1, <2>2
<1> HIDE DEF wide, N
<1>9. Widens(wide, N, Int, AddStep(s))
  BY <1>2, <1>8 DEF Widens
<1>10. ChainTo(f[1..N], N, Int, 0, AddStep(s))
  <2> DEFINE A == Int
  <2>1. 0 \in A /\ Widens(wide, N, A, AddStep(s))
    BY <1>9
  <2> HIDE DEF A
  <2>2. ChainTo(f[1..N], N, A, 0, AddStep(s))
    BY <1>1, <1>7, <2>1, FoldChain
  <2> QED BY <2>2 DEF A
<1> QED BY <1>6, <1>10 DEF N

LEMMA SumOfNone == SumOf(<<>>) = 0
<1>1. <<>> \in Seq(Int) /\ Len(<<>>) = 0
  OBVIOUS
<1> QED BY <1>1, SumChain DEF IsChain, ChainTo

LEMMA SumType ==
    ASSUME NEW s \in Seq(Int)
    PROVE  SumOf(s) \in Int
BY SumChain DEF ChainTo

\* A sum of one term more.
LEMMA SumExtends ==
    ASSUME NEW s \in Seq(Int), NEW r \in Seq(Int), NEW N \in Nat,
           Len(s) = N, Len(r) = N + 1, \A i \in 1..N : r[i] = s[i]
    PROVE  SumOf(r) = SumOf(s) + r[N + 1]
<1>1. ChainTo(SumOf(s), N, Int, 0, AddStep(s)) /\ ChainTo(SumOf(r), N + 1, Int, 0, AddStep(r))
  BY SumChain
<1>2. Agrees(AddStep(r), AddStep(s), N, Int)
  <2> SUFFICES ASSUME NEW i \in 1..N, NEW a \in Int
               PROVE  AddStep(r)[i][a] = AddStep(s)[i][a]
    BY DEF Agrees
  <2>1. i \in 1..Len(r) /\ i \in 1..Len(s) /\ r[i] = s[i]
    OBVIOUS
  <2>2. AddStep(r)[i][a] = a + r[i] /\ AddStep(s)[i][a] = a + s[i]
    BY <2>1, AddStepIs
  <2> QED BY <2>1, <2>2
<1>3. PICK u : OneMore(SumOf(r), u, N, Int, 0, AddStep(s), AddStep(r))
  BY <1>1, <1>2, ChainToStep
<1>4. ChainTo(u, N, Int, 0, AddStep(s)) /\ u \in Int /\ SumOf(r) = AddStep(r)[N + 1][u]
  BY <1>3 DEF OneMore
<1>5. u = SumOf(s)
  BY <1>1, <1>4, ChainToUnique
<1>6. AddStep(r)[N + 1][u] = u + r[N + 1]
  <2>1. N + 1 \in 1..Len(r)
    OBVIOUS
  <2> QED BY <1>4, <2>1, AddStepIs
<1> QED BY <1>4, <1>5, <1>6

LEMMA SumAppend ==
    ASSUME NEW s \in Seq(Int), NEW x \in Int
    PROVE  SumOf(Append(s, x)) = SumOf(s) + x
<1> DEFINE r == Append(s, x)
<1>1. /\ r \in Seq(Int) /\ Len(s) \in Nat
      /\ Len(r) = Len(s) + 1 /\ r[Len(s) + 1] = x
      /\ \A i \in 1..Len(s) : r[i] = s[i]
  OBVIOUS
<1> HIDE DEF r
<1>2. SumOf(r) = SumOf(s) + r[Len(s) + 1]
  BY <1>1, SumExtends
<1> QED BY <1>1, <1>2 DEF r

-----------------------------------------------------------------------------
(***************************************************************************)
(* Flattening.                                                             *)
(***************************************************************************)
\* What flattening does with sequence i.
FlatStep(cs, S) ==
    [i \in 1..Len(cs) |-> [a \in Seq(S) |-> IF i = 1 THEN cs[i] ELSE a \o cs[i]]]

LEMMA FlatStepIs ==
    ASSUME NEW S, NEW cs \in Seq(Seq(S)), NEW i \in 1..Len(cs), NEW a \in Seq(S)
    PROVE  FlatStep(cs, S)[i][a] = IF i = 1 THEN cs[i] ELSE a \o cs[i]
BY Zenon DEF FlatStep

LEMMA ChainToType ==
    ASSUME NEW N \in Nat, NEW A, NEW base, NEW step, NEW v, ChainTo(v, N, A, base, step)
    PROVE  v \in A
BY DEF ChainTo

LEMMA ChainExists ==
    ASSUME NEW N \in Nat, NEW A, NEW base \in A, NEW step \in [1..N -> [A -> A]]
    PROVE  \E g : g \in [0..N -> A] /\ IsChain(g, N, base, step)
<1>1. PICK f \in [Below(N) -> A] : IsFold(f, N, base, step)
  BY FoldExists DEF FoldFrom
<1>2. Widens(step, N, A, step)
  BY DEF Widens
<1>3. ChainTo(f[1..N], N, A, base, step)
  BY <1>1, <1>2, FoldChain
<1> QED BY <1>3 DEF ChainTo

\* As SumChain, for FlattenSeq.
LEMMA FlatChain ==
    ASSUME NEW S, NEW cs \in Seq(Seq(S))
    PROVE  ChainTo(FlattenSeq(cs), Len(cs), Seq(S), <<>>, FlatStep(cs, S))
<1> DEFINE N == Len(cs)
           A == Seq(S)
           Flattens(f) == f = [i \in 1..N |-> IF i = 1 THEN cs[i] ELSE f[i - 1] \o cs[i]]
           f == CHOOSE f : Flattens(f)
           g == [i \in 0..N |-> IF i = 0 THEN <<>> ELSE f[i]]
           wide == [i \in 1..N |-> [a \in A \cup {g[j] : j \in 0..N} |->
                                       IF i = 1 THEN cs[i] ELSE a \o cs[i]]]
<1>1. N \in Nat /\ <<>> \in A /\ \A i \in 1..N : cs[i] \in A
  OBVIOUS
<1>2. FlatStep(cs, S) \in [1..N -> [A -> A]]
  <2> SUFFICES ASSUME NEW i \in 1..N, NEW a \in A
               PROVE  (IF i = 1 THEN cs[i] ELSE a \o cs[i]) \in A
    BY DEF FlatStep
  <2> QED BY <1>1
<1>3. PICK h : h \in [0..N -> A] /\ IsChain(h, N, <<>>, FlatStep(cs, S))
  <2> HIDE DEF N, A
  <2> QED BY <1>1, <1>2, ChainExists
<1>4. ASSUME NEW i \in 1..N PROVE h[i] = IF i = 1 THEN cs[i] ELSE h[i - 1] \o cs[i]
  <2>1. i - 1 \in 0..N
    OBVIOUS
  <2>2. h[i - 1] \in A /\ h[i] = FlatStep(cs, S)[i][h[i - 1]]
    BY <1>3, <2>1 DEF IsChain
  <2> HIDE DEF g, f
  <2> QED BY <2>2, FlatStepIs
<1>5. Flattens(f)
  <2>1. Flattens([i \in 1..N |-> h[i]])
    <3>1. \A i \in 1..N : i # 1 => i - 1 \in 1..N
      OBVIOUS
    <3> HIDE DEF N
    <3> QED BY <1>4, <3>1, Zenon
  <2> QED BY <2>1, Zenon
<1> HIDE DEF f
<1>6. /\ g[0] = <<>>
      /\ \A i \in 1..N : g[i] = IF i = 1 THEN cs[i] ELSE g[i - 1] \o cs[i]
  <2>0. g[0] = <<>>
    BY <1>1
  <2> SUFFICES ASSUME NEW i \in 1..N
               PROVE  g[i] = IF i = 1 THEN cs[i] ELSE g[i - 1] \o cs[i]
    BY <2>0, Zenon
  <2>1. f[i] = IF i = 1 THEN cs[i] ELSE f[i - 1] \o cs[i]
    <3> HIDE DEF N
    <3> QED BY <1>5, Zenon
  <2>2. i \in 0..N /\ i # 0 /\ i - 1 \in 0..N /\ (i # 1 => i - 1 # 0)
    OBVIOUS
  <2>3. g[i] = f[i] /\ (i # 1 => g[i - 1] = f[i - 1])
    <3> HIDE DEF N
    <3> QED BY <2>2, Zenon
  <2> HIDE DEF g
  <2> QED BY <2>1, <2>3, Zenon
<1> HIDE DEF g
<1>7. ASSUME NEW i \in 1..N, NEW j \in 0..N
      PROVE  wide[i][g[j]] = IF i = 1 THEN cs[i] ELSE g[j] \o cs[i]
  <2> HIDE DEF N, A
  <2> QED BY Zenon
<1>8. ASSUME NEW i \in 1..N, NEW a \in A
      PROVE  wide[i][a] = IF i = 1 THEN cs[i] ELSE a \o cs[i]
  <2> HIDE DEF N, A
  <2> QED BY Zenon
<1> HIDE DEF wide
<1>9. \A i \in 1..N : i - 1 \in 0..N
  OBVIOUS
<1>10. IsChain(g, N, <<>>, wide)
  BY <1>6, <1>7, <1>9 DEF IsChain
<1>11. IsChain(h, N, <<>>, wide)
  <2>1. ASSUME NEW i \in 1..N PROVE h[i] = wide[i][h[i - 1]]
    <3>1. h[i - 1] \in A
      BY <1>3, <1>9
    <3> HIDE DEF A
    <3>2. h[i] = IF i = 1 THEN cs[i] ELSE h[i - 1] \o cs[i]
      BY <1>4, Zenon
    <3>3. wide[i][h[i - 1]] = IF i = 1 THEN cs[i] ELSE h[i - 1] \o cs[i]
      BY <1>8, <3>1, Zenon
    <3> QED BY <3>2, <3>3, Zenon
  <2> QED BY <1>3, <2>1 DEF IsChain
<1>12. \A i \in 0..N : g[i] = h[i]
  <2> HIDE DEF N
  <2> QED BY <1>1, <1>10, <1>11, ChainUnique
<1>13. FlattenSeq(cs) = h[N]
  <2>1. CASE N = 0
    <3>1. FlattenSeq(cs) = cs /\ cs = <<>>
      BY <2>1 DEF FlattenSeq
    <3> QED BY <1>6, <1>12, <2>1, <3>1
  <2>2. CASE N # 0
    <3>1. FlattenSeq(cs) = f[N]
      BY <2>2, Zenon DEF FlattenSeq, f
    <3>2. g[N] = f[N]
      BY <1>1, <2>2 DEF g
    <3> QED BY <1>1, <1>12, <3>1, <3>2
  <2> QED BY <2>1, <2>2
<1> HIDE DEF N, A
<1>14. ChainTo(h[N], N, A, <<>>, FlatStep(cs, S))
  BY <1>3 DEF ChainTo
<1> QED BY <1>13, <1>14 DEF N, A

LEMMA FlattenNone == FlattenSeq(<<>>) = <<>>
<1>1. Len(<<>>) = 0
  OBVIOUS
<1> QED BY <1>1 DEF FlattenSeq

LEMMA FlattenType ==
    ASSUME NEW S, NEW cs \in Seq(Seq(S))
    PROVE  FlattenSeq(cs) \in Seq(S)
<1>1. Len(cs) \in Nat
  OBVIOUS
<1>2. ChainTo(FlattenSeq(cs), Len(cs), Seq(S), <<>>, FlatStep(cs, S))
  BY FlatChain, Zenon
<1> QED BY <1>1, <1>2, ChainToType, Zenon

\* One sequence more goes on where the others end.
LEMMA FlattenAppend ==
    ASSUME NEW S, NEW cs \in Seq(Seq(S)), NEW c \in Seq(S)
    PROVE  FlattenSeq(Append(cs, c)) = FlattenSeq(cs) \o c
<1> DEFINE r == Append(cs, c)
           N == Len(cs)
<1>1. /\ r \in Seq(Seq(S)) /\ N \in Nat /\ Len(r) = N + 1 /\ r[N + 1] = c
      /\ \A i \in 1..N : r[i] = cs[i]
  OBVIOUS
<1> HIDE DEF r
<1>2. /\ ChainTo(FlattenSeq(cs), N, Seq(S), <<>>, FlatStep(cs, S))
      /\ ChainTo(FlattenSeq(r), N + 1, Seq(S), <<>>, FlatStep(r, S))
  BY <1>1, FlatChain
<1>3. Agrees(FlatStep(r, S), FlatStep(cs, S), N, Seq(S))
  <2> SUFFICES ASSUME NEW i \in 1..N, NEW a \in Seq(S)
               PROVE  FlatStep(r, S)[i][a] = FlatStep(cs, S)[i][a]
    BY DEF Agrees
  <2>1. i \in 1..Len(r) /\ r[i] = cs[i]
    BY <1>1
  <2>2. /\ FlatStep(r, S)[i][a] = IF i = 1 THEN r[i] ELSE a \o r[i]
        /\ FlatStep(cs, S)[i][a] = IF i = 1 THEN cs[i] ELSE a \o cs[i]
    <3>1. i \in 1..Len(cs)
      BY DEF N
    <3>2. r \in Seq(Seq(S))
      BY <1>1
    <3>5. i \in 1..Len(r)
      BY <2>1
    <3>3. FlatStep(r, S)[i][a] = IF i = 1 THEN r[i] ELSE a \o r[i]
      BY <3>5, <3>2, FlatStepIs, ZenonT(30)
    <3>4. FlatStep(cs, S)[i][a] = IF i = 1 THEN cs[i] ELSE a \o cs[i]
      BY <3>1, FlatStepIs, ZenonT(30)
    <3> QED BY <3>3, <3>4, Zenon
  <2> QED BY <2>1, <2>2, Zenon
<1> HIDE DEF N
<1>4. PICK u : OneMore(FlattenSeq(r), u, N, Seq(S), <<>>, FlatStep(cs, S), FlatStep(r, S))
  BY <1>1, <1>2, <1>3, ChainToStep
<1>5. /\ ChainTo(u, N, Seq(S), <<>>, FlatStep(cs, S))
      /\ u \in Seq(S) /\ FlattenSeq(r) = FlatStep(r, S)[N + 1][u]
  BY <1>4 DEF OneMore
<1>6. u = FlattenSeq(cs)
  BY <1>1, <1>2, <1>5, ChainToUnique
<1>7. FlatStep(r, S)[N + 1][u] = IF N + 1 = 1 THEN r[N + 1] ELSE u \o r[N + 1]
  <2>1. N + 1 \in 1..Len(r)
    BY <1>1
  <2> QED BY <1>1, <1>5, <2>1, FlatStepIs
<1>8. N = 0 => u = <<>>
  BY <1>6, FlattenNone DEF N
<1>9. <<>> \o c = c
  OBVIOUS
<1> QED BY <1>1, <1>5, <1>6, <1>7, <1>8, <1>9 DEF r

\* Sequences of one term each, and the terms themselves.
LEMMA FlattenOnes ==
    ASSUME NEW S, NEW cs \in Seq(Seq(S)), NEW ps \in Seq(S)
    PROVE  FlattenSeq(cs \o [k \in 1..Len(ps) |-> <<ps[k]>>]) = FlattenSeq(cs) \o ps
<1> DEFINE ones(n) == [k \in 1..n |-> <<ps[k]>>]
           T == {n \in Nat : n <= Len(ps) =>
                    FlattenSeq(cs \o ones(n)) = FlattenSeq(cs) \o SubSeq(ps, 1, n)}
<1>0. FlattenSeq(cs) \in Seq(S)
  BY FlattenType
<1>1. 0 \in T
  <2>1. ones(0) = <<>> /\ SubSeq(ps, 1, 0) = <<>>
    OBVIOUS
  <2>2. cs \o <<>> = cs /\ FlattenSeq(cs) \o <<>> = FlattenSeq(cs)
    BY <1>0
  <2> QED BY <2>1, <2>2
<1>2. ASSUME NEW n \in Nat, n \in T PROVE n + 1 \in T
  <2> SUFFICES ASSUME n + 1 <= Len(ps)
               PROVE  FlattenSeq(cs \o ones(n + 1)) = FlattenSeq(cs) \o SubSeq(ps, 1, n + 1)
    OBVIOUS
  <2> DEFINE ds == cs \o ones(n)
             x == ps[n + 1]
             qs == SubSeq(ps, 1, n)
  <2>1. ones(n) \in Seq(Seq(S)) /\ ds \in Seq(Seq(S)) /\ x \in S /\ <<x>> \in Seq(S)
        /\ qs \in Seq(S)
    <3>1. \A k \in 1..n : <<ps[k]>> \in Seq(S)
      OBVIOUS
    <3>2. ones(n) \in Seq(Seq(S))
      BY <3>1
    <3>3. ds \in Seq(Seq(S))
      <4> HIDE DEF ones
      <4> QED BY <3>2
    <3> QED BY <3>2, <3>3
  <2>2. cs \o ones(n + 1) = Append(ds, <<x>>)
    <3>1. ones(n + 1) = Append(ones(n), <<x>>)
      OBVIOUS
    <3> HIDE DEF ones
    <3> DEFINE o == ones(n)
               y == <<x>>
    <3>2. o \in Seq(Seq(S)) /\ y \in Seq(S)
      BY <2>1
    <3> HIDE DEF x, o, y
    <3>3. cs \o Append(o, y) = Append(cs \o o, y)
      BY <3>2
    <3> QED BY <3>1, <3>3 DEF o, y
  <2>3. SubSeq(ps, 1, n + 1) = qs \o <<x>>
    OBVIOUS
  <2>4. FlattenSeq(ds) = FlattenSeq(cs) \o qs
    <3>1. n <= Len(ps)
      OBVIOUS
    <3> HIDE DEF ones
    <3> QED BY <1>2, <3>1, Zenon
  <2> HIDE DEF ds, x, qs, ones
  <2>5. FlattenSeq(Append(ds, <<x>>)) = FlattenSeq(ds) \o <<x>>
    <3> DEFINE y == <<x>>
    <3>1. ds \in Seq(Seq(S))
      BY <2>1
    <3>2. y \in Seq(S)
      BY <2>1
    <3> HIDE DEF y
    <3>3. FlattenSeq(Append(ds, y)) = FlattenSeq(ds) \o y
      BY <3>1, <3>2, FlattenAppend, Zenon
    <3> QED BY <3>3 DEF y
  <2>6. (FlattenSeq(cs) \o qs) \o <<x>> = FlattenSeq(cs) \o (qs \o <<x>>)
    <3> DEFINE f == FlattenSeq(cs)
               y == <<x>>
    <3>1. f \in Seq(S)
      BY <1>0
    <3>2. qs \in Seq(S)
      BY <2>1
    <3>3. y \in Seq(S)
      BY <2>1
    <3> HIDE DEF f, y
    <3>4. (f \o qs) \o y = f \o (qs \o y)
      BY ONLY <3>1, <3>2, <3>3, ConcatAssociative
    <3> QED BY <3>4 DEF f, y
  <2> QED BY <2>2, <2>3, <2>4, <2>5, <2>6
<1>3. \A n \in Nat : n \in T
  <2> HIDE DEF T
  <2> QED BY <1>1, <1>2, SetInduction
<1>4. SubSeq(ps, 1, Len(ps)) = ps /\ Len(ps) \in Nat /\ Len(ps) <= Len(ps)
  OBVIOUS
<1>5. FlattenSeq(cs \o ones(Len(ps))) = FlattenSeq(cs) \o SubSeq(ps, 1, Len(ps))
  <2> HIDE DEF ones
  <2> QED BY <1>3, <1>4, Zenon
<1> QED BY <1>4, <1>5, Zenon
=============================================================================
