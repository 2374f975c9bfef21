------------------------------ MODULE Extrema ------------------------------
(***************************************************************************)
(* A finite set of natural numbers that is not empty has a least and a     *)
(* greatest element: what the first slot that fits, the largest jid and    *)
(* the end of a line rest on; its elements can be summed one by one, in    *)
(* any order; and a recursive definition that uses only values of less     *)
(* rank has a solution.  Shared by the proofs of the components.           *)
(***************************************************************************)
EXTENDS Integers, FiniteSetsExt, FiniteSetTheorems, TLAPS

MinimalIn(T, A) == \A B \in T : B \subseteq A => B = A

\* Of the subsets in a family, one has no proper subset in it.
LEMMA MinimalSubset ==
  ASSUME NEW S, IsFiniteSet(S), NEW T, T \subseteq SUBSET S, T # {}
  PROVE  \E A \in T : MinimalIn(T, A)
<1>1. T \subseteq FiniteSubsetsOf(S)
  BY FS_Subset DEF FiniteSubsetsOf
<1>2. PICK A \in T : \A B \in T : <<B, A>> \notin StrictSubsetOrdering(S)
  BY <1>1, FS_StrictSubsetOrderingWellFounded, WFMin
<1> QED
  BY <1>2 DEF StrictSubsetOrdering, MinimalIn

\* A finite set of natural numbers has a least and a greatest element.
LEMMA LeastExists ==
  ASSUME NEW S \in SUBSET Nat, IsFiniteSet(S), S # {}
  PROVE  \E s \in S : \A r \in S : s <= r
<1> DEFINE below(s) == {r \in S : r <= s}
           T == {below(s) : s \in S}
<1>1. T \subseteq SUBSET S /\ T # {}
  <2>1. PICK s \in S : TRUE
    OBVIOUS
  <2>2. below(s) \in T
    BY <2>1
  <2>3. \A x \in S : below(x) \in SUBSET S
    OBVIOUS
  <2> QED
    BY <2>2, <2>3
<1>2. PICK A \in T : MinimalIn(T, A)
  <2> HIDE DEF T
  <2>1. IsFiniteSet(S) /\ T # {} /\ T \subseteq SUBSET S
    BY <1>1
  <2> QED
    BY <2>1, MinimalSubset
<1>3. PICK s \in S : A = below(s)
  BY <1>2
<1>4. ASSUME NEW r \in S PROVE s <= r
  <2>1. s \in Nat /\ r \in Nat /\ \A x \in S : x \in Nat
    OBVIOUS
  <2>2. r <= s => \A x \in S : x \in below(r) => x \in below(s)
    BY <2>1
  <2>3. r <= s => below(r) \subseteq below(s) /\ below(r) \in T
    BY <2>2
  <2>4. r <= s => below(r) = below(s)
    BY <1>2, <1>3, <2>3 DEF MinimalIn
  <2>5. s \in below(s)
    BY <2>1
  <2> QED
    BY <2>1, <2>4, <2>5
<1> QED
  BY <1>4

LEMMA GreatestExists ==
  ASSUME NEW S \in SUBSET Nat, IsFiniteSet(S), S # {}
  PROVE  \E s \in S : \A r \in S : r <= s
<1> DEFINE above(s) == {r \in S : s <= r}
           T == {above(s) : s \in S}
<1>1. T \subseteq SUBSET S /\ T # {}
  <2>1. PICK s \in S : TRUE
    OBVIOUS
  <2>2. above(s) \in T
    BY <2>1
  <2>3. \A x \in S : above(x) \in SUBSET S
    OBVIOUS
  <2> QED
    BY <2>2, <2>3
<1>2. PICK A \in T : MinimalIn(T, A)
  <2> HIDE DEF T
  <2>1. IsFiniteSet(S) /\ T # {} /\ T \subseteq SUBSET S
    BY <1>1
  <2> QED
    BY <2>1, MinimalSubset
<1>3. PICK s \in S : A = above(s)
  BY <1>2
<1>4. ASSUME NEW r \in S PROVE r <= s
  <2>1. s \in Nat /\ r \in Nat /\ \A x \in S : x \in Nat
    OBVIOUS
  <2>2. s <= r => \A x \in S : x \in above(r) => x \in above(s)
    BY <2>1
  <2>3. s <= r => above(r) \subseteq above(s) /\ above(r) \in T
    BY <2>2
  <2>4. s <= r => above(r) = above(s)
    BY <1>2, <1>3, <2>3 DEF MinimalIn
  <2>5. s \in above(s)
    BY <2>1
  <2> QED
    BY <2>1, <2>4, <2>5
<1> QED
  BY <1>4

\* The least counterexample: what holds of 0, and of n if of n - 1, holds of every n up to m.
LEMMA LeastBelow ==
  ASSUME NEW m \in Nat, NEW S \in SUBSET (0 .. m), S # {}
  PROVE  \E n \in S : \A k \in S : n <= k
<1>1. IsFiniteSet(0 .. m)
  BY FS_Interval
<1>2. IsFiniteSet(S)
  BY <1>1, FS_Subset
<1> QED
  BY <1>2, LeastExists

-----------------------------------------------------------------------------
(* Sums over finite sets.                                                    *)

\* The element that the fold takes first.
Some(s) == CHOOSE x \in s : TRUE

\* The sum over S, as the properties of the runs write it.
Total(bs, S) == MapThenSumSet(LAMBDA i : bs[i], S)

\* g is the function that the fold defines by recursion on sets.
Rec(g, bs, S) ==
  /\ g \in [SUBSET S -> Int] /\ g[{}] = 0
  /\ \A s \in SUBSET S : s # {} => g[s] = bs[Some(s)] + g[s \ {Some(s)}]

\* There is only one, and the one on a smaller set agrees with it.
LEMMA RecUnique ==
  ASSUME NEW S, IsFiniteSet(S), NEW T, S \subseteq T, NEW bs, NEW g, NEW h, Rec(g, bs, S), Rec(h, bs, T)
  PROVE  \A s \in SUBSET S : g[s] = h[s]
<1> DEFINE D == {s \in SUBSET S : g[s] # h[s]}
<1>1. SUFFICES ASSUME D # {} PROVE FALSE
  OBVIOUS
<1>2. D \subseteq SUBSET S
  OBVIOUS
<1>3. PICK A \in D : MinimalIn(D, A)
  <2> HIDE DEF D
  <2> QED
    BY <1>1, <1>2, MinimalSubset
<1>4. A \in SUBSET S /\ A \in SUBSET T /\ A # {}
  BY DEF Rec
<1> DEFINE x == Some(A)
<1>5. x \in A
  BY <1>4 DEF Some
<1>6. A \ {x} \notin D
  <2> HIDE DEF x, D
  <2> QED
    BY <1>3, <1>5 DEF MinimalIn
<1>7. g[A \ {x}] = h[A \ {x}]
  BY <1>4, <1>6
<1>8. g[A] = bs[x] + g[A \ {x}] /\ h[A] = bs[x] + h[A \ {x}]
  BY <1>4 DEF Rec
<1> QED
  BY <1>7, <1>8

\* It can be restricted to a smaller set.
LEMMA RecSmaller ==
  ASSUME NEW S, NEW T \in SUBSET S, NEW bs, NEW g, Rec(g, bs, S)
  PROVE  Rec([s \in SUBSET T |-> g[s]], bs, T)
<1> DEFINE h == [s \in SUBSET T |-> g[s]]
<1>1. h \in [SUBSET T -> Int] /\ h[{}] = 0
  BY DEF Rec
<1>2. ASSUME NEW s \in SUBSET T, s # {} PROVE h[s] = bs[Some(s)] + h[s \ {Some(s)}]
  <2>1. g[s] = bs[Some(s)] + g[s \ {Some(s)}]
    BY <1>2 DEF Rec
  <2>2. s \ {Some(s)} \in SUBSET T
    OBVIOUS
  <2> QED
    BY <2>1, <2>2
<1> HIDE DEF h
<1> QED
  BY <1>1, <1>2 DEF Rec, h

\* There is one for every finite set: each smaller set has one, and one more step gives that of the whole.
LEMMA RecExists ==
  ASSUME NEW S, IsFiniteSet(S), NEW bs, \A x \in S : bs[x] \in Int
  PROVE  \E g : Rec(g, bs, S)
<1> DEFINE D == {s \in SUBSET S : ~\E g : Rec(g, bs, s)}
<1>1. SUFFICES ASSUME D # {} PROVE FALSE
  <2>1. S \notin D
    BY <1>1
  <2> QED
    BY <2>1
<1>2. D \subseteq SUBSET S
  OBVIOUS
<1>3. PICK A \in D : MinimalIn(D, A)
  <2> HIDE DEF D
  <2> QED
    BY <1>1, <1>2, MinimalSubset
<1> DEFINE h(B) == CHOOSE g : Rec(g, bs, B)
<1>4. A \in SUBSET S /\ IsFiniteSet(A)
  BY FS_Subset
<1>5. ASSUME NEW B \in SUBSET A, B # A PROVE Rec(h(B), bs, B)
  <2>1. B \notin D
    <3> HIDE DEF D
    <3> QED
      BY <1>3, <1>5 DEF MinimalIn
  <2>2. \E g : Rec(g, bs, B)
    BY <1>4, <2>1
  <2> QED
    BY <2>2
<1> HIDE DEF h
<1> DEFINE rest(B) == B \ {Some(B)}
           f == [B \in SUBSET A |-> IF B = {} THEN 0 ELSE bs[Some(B)] + h(rest(B))[rest(B)]]
<1>6. ASSUME NEW B \in SUBSET A, B # {}
      PROVE  /\ Some(B) \in B /\ bs[Some(B)] \in Int /\ rest(B) \in SUBSET A /\ rest(B) # A
             /\ Rec(h(rest(B)), bs, rest(B)) /\ h(rest(B))[rest(B)] \in Int
  <2>1. Some(B) \in B
    BY <1>6 DEF Some
  <2>2. bs[Some(B)] \in Int /\ rest(B) \in SUBSET A /\ rest(B) # A
    BY <1>4, <2>1
  <2>3. Rec(h(rest(B)), bs, rest(B))
    BY <1>5, <2>2
  <2>4. h(rest(B))[rest(B)] \in Int
    BY <2>3 DEF Rec
  <2> QED
    BY <2>1, <2>2, <2>3, <2>4
<1>7. ASSUME NEW B \in SUBSET A, B # A PROVE f[B] = h(B)[B]
  <2>1. Rec(h(B), bs, B)
    BY <1>5, <1>7
  <2>2. CASE B = {}
    BY <2>1, <2>2 DEF Rec
  <2>3. CASE B # {}
    <3> DEFINE C == rest(B)
    <3>1. Rec(h(C), bs, C) /\ C \subseteq B
      BY <1>6, <2>3
    <3>2. IsFiniteSet(C)
      BY <1>4, FS_Subset
    <3>3. h(C)[C] = h(B)[C]
      <4> HIDE DEF C
      <4> QED
        BY <2>1, <3>1, <3>2, RecUnique
    <3>4. h(B)[B] = bs[Some(B)] + h(B)[C]
      BY <2>1, <2>3 DEF Rec
    <3>5. f[B] = bs[Some(B)] + h(C)[C]
      BY <2>3
    <3> QED
      BY <3>3, <3>4, <3>5
  <2> QED
    BY <2>2, <2>3
<1>8. Rec(f, bs, A)
  <2>1. \A B \in SUBSET A : f[B] \in Int
    BY <1>6
  <2>2. f \in [SUBSET A -> Int] /\ f[{}] = 0
    BY <2>1
  <2>3. ASSUME NEW B \in SUBSET A, B # {} PROVE f[B] = bs[Some(B)] + f[B \ {Some(B)}]
    <3>1. f[B] = bs[Some(B)] + h(rest(B))[rest(B)]
      BY <2>3
    <3>2. f[rest(B)] = h(rest(B))[rest(B)]
      BY <1>6, <1>7, <2>3
    <3> QED
      BY <3>1, <3>2
  <2> HIDE DEF f
  <2> QED
    BY <2>2, <2>3 DEF Rec
<1> QED
  BY <1>4, <1>8

\* What the fold of the community modules computes.
LEMMA TotalIs ==
  ASSUME NEW S, IsFiniteSet(S), NEW bs, \A x \in S : bs[x] \in Int
  PROVE  \E g : Rec(g, bs, S) /\ \A s \in SUBSET S : Total(bs, s) = g[s]
<1> SUFFICES \A g : Rec(g, bs, S) => \A s \in SUBSET S : Total(bs, s) = g[s]
  BY RecExists
<1> SUFFICES ASSUME NEW g, Rec(g, bs, S), NEW s \in SUBSET S PROVE Total(bs, s) = g[s]
  OBVIOUS
<1> DEFINE Is(f) == f = [t \in SUBSET s |-> IF t = {} THEN 0 ELSE bs[Some(t)] + f[t \ {Some(t)}]]
           f == CHOOSE f : Is(f)
<1>1. Total(bs, s) = f[s]
  BY DEF Total, MapThenSumSet, MapThenFoldSet, Some
<1>2. IsFiniteSet(s)
  BY FS_Subset
<1>3. Is([t \in SUBSET s |-> g[t]])
  <2> DEFINE k == [t \in SUBSET s |-> g[t]]
  <2>1. Rec(k, bs, s)
    BY RecSmaller
  <2>2. \A t \in SUBSET s : k[t] = IF t = {} THEN 0 ELSE bs[Some(t)] + k[t \ {Some(t)}]
    BY <2>1 DEF Rec
  <2> QED
    BY <2>2
<1>4. Is(f)
  <2> HIDE DEF Is
  <2> QED
    BY <1>3
<1>5. Rec(f, bs, s)
  <2>1. \A t \in SUBSET s : f[t] = IF t = {} THEN 0 ELSE bs[Some(t)] + f[t \ {Some(t)}]
    BY <1>4
  <2> DEFINE D == {t \in SUBSET s : f[t] # g[t]}
  <2>2. D = {}
    <3> SUFFICES ASSUME D # {} PROVE FALSE
      OBVIOUS
    <3>1. D \subseteq SUBSET s
      OBVIOUS
    <3>2. PICK A \in D : MinimalIn(D, A)
      <4> HIDE DEF D
      <4> QED
        BY <1>2, <3>1, MinimalSubset
    <3> HIDE DEF f
    <3>3. A \in SUBSET s /\ A \in SUBSET S /\ A # {}
      BY <2>1 DEF Rec
    <3> DEFINE x == Some(A)
    <3>4. x \in A
      BY <3>3 DEF Some
    <3>5. A \ {x} \notin D
      <4> HIDE DEF x, D
      <4> QED
        BY <3>2, <3>4 DEF MinimalIn
    <3>6. f[A \ {x}] = g[A \ {x}]
      BY <3>3, <3>5
    <3>7. f[A] = bs[x] + f[A \ {x}] /\ g[A] = bs[x] + g[A \ {x}]
      BY <2>1, <3>3 DEF Rec
    <3> QED
      BY <3>6, <3>7
  <2>3. \A t \in SUBSET s : f[t] = g[t]
    BY <2>2
  <2>4. f = [t \in SUBSET s |-> g[t]]
    <3>1. f = [t \in SUBSET s |-> f[t]]
      BY <1>4
    <3> HIDE DEF f
    <3> QED
      BY <2>3, <3>1
  <2> HIDE DEF f
  <2> QED
    BY <2>4, RecSmaller
<1> HIDE DEF f, Is
<1>6. f[s] = g[s]
  <2>1. s \subseteq S /\ s \in SUBSET s
    OBVIOUS
  <2>2. \A t \in SUBSET s : f[t] = g[t]
    BY <1>2, <1>5, <2>1, RecUnique
  <2> QED
    BY <2>1, <2>2
<1> QED
  BY <1>1, <1>6

\* A sum over a set with one more element.
LEMMA TotalWith ==
  ASSUME NEW S, IsFiniteSet(S), NEW bs, \A x \in S : bs[x] \in Int, NEW i \in S
  PROVE  Total(bs, S) = bs[i] + Total(bs, S \ {i})
<1>1. PICK g : Rec(g, bs, S) /\ \A s \in SUBSET S : Total(bs, s) = g[s]
  BY TotalIs
<1> DEFINE D == {s \in SUBSET S : ~\A x \in s : g[s] = bs[x] + g[s \ {x}]}
<1>2. D = {}
  <2> SUFFICES ASSUME D # {} PROVE FALSE
    OBVIOUS
  <2>1. D \subseteq SUBSET S
    OBVIOUS
  <2>2. PICK A \in D : MinimalIn(D, A)
    <3> HIDE DEF D
    <3> QED
      BY <2>1, MinimalSubset
  <2>3. A \in SUBSET S /\ \E x \in A : g[A] # bs[x] + g[A \ {x}]
    OBVIOUS
  <2>4. PICK x \in A : g[A] # bs[x] + g[A \ {x}]
    BY <2>3
  <2> DEFINE y == Some(A)
  <2>5. y \in A /\ g[A] = bs[y] + g[A \ {y}]
    BY <1>1, <2>3, <2>4 DEF Rec, Some
  <2> HIDE DEF y
  <2>6. x # y
    BY <2>4, <2>5
  <2>7. A \ {y} \notin D /\ A \ {x} \notin D
    <3> HIDE DEF D
    <3> QED
      BY <2>2, <2>5 DEF MinimalIn
  <2>8. /\ g[A \ {y}] = bs[x] + g[(A \ {y}) \ {x}]
        /\ g[A \ {x}] = bs[y] + g[(A \ {x}) \ {y}]
    BY <2>3, <2>5, <2>6, <2>7
  <2>9. (A \ {y}) \ {x} = (A \ {x}) \ {y}
    OBVIOUS
  <2>a. bs[x] \in Int /\ bs[y] \in Int /\ g[(A \ {x}) \ {y}] \in Int
    BY <1>1, <2>3, <2>5 DEF Rec
  <2>b. g[A] = bs[y] + (bs[x] + g[(A \ {x}) \ {y}])
    BY <2>5, <2>8, <2>9
  <2>c. bs[x] + g[A \ {x}] = bs[x] + (bs[y] + g[(A \ {x}) \ {y}])
    BY <2>8
  <2> HIDE DEF D
  <2> QED
    BY <2>4, <2>a, <2>b, <2>c
<1>3. g[S] = bs[i] + g[S \ {i}]
  BY <1>2
<1> QED
  BY <1>1, <1>3

\* A sum of sizes is a size; that of none is 0.
LEMMA TotalNat ==
  ASSUME NEW S, IsFiniteSet(S), NEW bs, \A x \in S : bs[x] \in Nat
  PROVE  Total(bs, S) \in Nat /\ Total(bs, {}) = 0
<1>1. PICK g : Rec(g, bs, S) /\ \A s \in SUBSET S : Total(bs, s) = g[s]
  BY TotalIs
<1> DEFINE D == {s \in SUBSET S : g[s] \notin Nat}
<1>2. D = {}
  <2> SUFFICES ASSUME D # {} PROVE FALSE
    OBVIOUS
  <2>1. D \subseteq SUBSET S
    OBVIOUS
  <2>2. PICK A \in D : MinimalIn(D, A)
    <3> HIDE DEF D
    <3> QED
      BY <2>1, MinimalSubset
  <2>3. A \in SUBSET S /\ g[A] \notin Nat
    OBVIOUS
  <2>4. A # {}
    <3>1. g[{}] \in Nat
      BY <1>1 DEF Rec
    <3> QED
      BY <2>3, <3>1
  <2> DEFINE y == Some(A)
  <2>5. y \in A /\ g[A] = bs[y] + g[A \ {y}]
    BY <1>1, <2>3, <2>4 DEF Rec, Some
  <2> HIDE DEF y
  <2>6. A \ {y} \notin D
    <3> HIDE DEF D
    <3> QED
      BY <2>2, <2>5 DEF MinimalIn
  <2>7. g[A \ {y}] \in Nat /\ bs[y] \in Nat
    BY <2>3, <2>5, <2>6
  <2> QED
    BY <2>3, <2>5, <2>7
<1> QED
  BY <1>1, <1>2 DEF Rec

\* A sum depends on the terms only.
LEMMA TotalSame ==
  ASSUME NEW S, IsFiniteSet(S), NEW bs, \A x \in S : bs[x] \in Int, NEW bs2, \A x \in S : bs2[x] = bs[x]
  PROVE  Total(bs2, S) = Total(bs, S)
<1>1. PICK g : Rec(g, bs, S) /\ \A s \in SUBSET S : Total(bs, s) = g[s]
  BY TotalIs
<1>2. PICK h : Rec(h, bs2, S) /\ \A s \in SUBSET S : Total(bs2, s) = h[s]
  BY TotalIs
<1>3. Rec(h, bs, S)
  <2>1. ASSUME NEW s \in SUBSET S, s # {} PROVE bs[Some(s)] = bs2[Some(s)]
    BY <2>1 DEF Some
  <2> QED
    BY <1>2, <2>1 DEF Rec
<1>4. g[S] = h[S]
  BY <1>1, <1>3, RecUnique
<1> QED
  BY <1>1, <1>2, <1>4

-----------------------------------------------------------------------------
(* Recursive definitions, and induction over numbers.                       *)

\* The least number with a property, which the predecessor hence has not.
LEMMA LeastNat ==
  ASSUME NEW S \in SUBSET Nat, S # {}
  PROVE  \E n \in S : \A k \in S : n <= k
<1>1. PICK m \in S : TRUE
  OBVIOUS
<1> DEFINE T == {k \in S : k <= m}
<1>2. T \in SUBSET (0 .. m) /\ T # {}
  <2>1. m \in Nat /\ m \in T
    BY <1>1
  <2>2. \A k \in T : k \in 0 .. m
    BY <2>1
  <2> QED
    BY <2>1, <2>2
<1>3. PICK n \in T : \A k \in T : n <= k
  <2> HIDE DEF T
  <2> QED
    BY <1>1, <1>2, LeastBelow
<1>4. \A k \in S : n <= k
  BY <1>1, <1>3
<1> QED
  BY <1>3, <1>4

\* A recursive definition on a domain that uses only values of less rank has a solution.
Recursive(D, V, rank, G) ==
  /\ rank \in [D -> Nat] /\ G \in [[D -> V] -> [D -> V]]
  /\ \A f \in [D -> V], g \in [D -> V], x \in D :
       (\A y \in D : rank[y] < rank[x] => f[y] = g[y]) => G[f][x] = G[g][x]

LEMMA FixpointExists ==
  ASSUME NEW D, NEW V, NEW v0 \in V, NEW rank, NEW G, Recursive(D, V, rank, G)
  PROVE  \E f \in [D -> V] : G[f] = f
<1>0. /\ rank \in [D -> Nat] /\ G \in [[D -> V] -> [D -> V]]
      /\ \A f \in [D -> V], g \in [D -> V], x \in D :
           (\A y \in D : rank[y] < rank[x] => f[y] = g[y]) => G[f][x] = G[g][x]
  BY DEF Recursive
<1> USE <1>0
<1> DEFINE Good(f, n) == f \in [D -> V] /\ \A x \in D : rank[x] < n => G[f][x] = f[x]
<1>1. ASSUME NEW f, NEW n \in Nat, Good(f, n) PROVE Good(G[f], n + 1)
  <2>1. G[f] \in [D -> V]
    BY <1>1
  <2>2. ASSUME NEW x \in D, rank[x] < n + 1 PROVE G[G[f]][x] = G[f][x]
    <3>1. \A y \in D : rank[y] < rank[x] => G[f][y] = f[y]
      BY <1>1, <2>2
    <3> QED
      BY <1>1, <2>1, <3>1
  <2> QED
    BY <2>1, <2>2
<1>2. ASSUME NEW n \in Nat PROVE \E f : Good(f, n)
  <2> DEFINE S == {k \in Nat : ~\E f : Good(f, k)}
  <2>1. SUFFICES S = {}
    OBVIOUS
  <2>2. SUFFICES ASSUME S # {} PROVE FALSE
    OBVIOUS
  <2>3. S \in SUBSET Nat
    OBVIOUS
  <2>4. PICK k \in S : \A j \in S : k <= j
    <3> HIDE DEF S
    <3> QED
      BY <2>2, <2>3, LeastNat
  <2>5. k # 0
    <3>1. Good([x \in D |-> v0], 0)
      OBVIOUS
    <3> QED
      BY <3>1, <2>4
  <2>6. k - 1 \in Nat /\ k - 1 \notin S
    BY <2>4, <2>5
  <2>7. PICK f : Good(f, k - 1)
    BY <2>6
  <2>8. Good(G[f], (k - 1) + 1)
    <3> HIDE DEF Good
    <3> QED
      BY <1>1, <2>6, <2>7
  <2>9. (k - 1) + 1 = k
    BY <2>4
  <2> QED
    BY <2>4, <2>8, <2>9
<1>3. ASSUME NEW f, NEW g, NEW n \in Nat, NEW m \in Nat, Good(f, n), Good(g, m), NEW x \in D, rank[x] < n, rank[x] < m
      PROVE  f[x] = g[x]
  <2> DEFINE S == {r \in Nat : \E y \in D : rank[y] = r /\ r < n /\ r < m /\ f[y] # g[y]}
  <2>1. SUFFICES ASSUME S # {} PROVE FALSE
    BY <1>3
  <2>2. S \in SUBSET Nat
    OBVIOUS
  <2>3. PICK r \in S : \A j \in S : r <= j
    <3> HIDE DEF S
    <3> QED
      BY <2>1, <2>2, LeastNat
  <2>4. PICK y \in D : rank[y] = r /\ r < n /\ r < m /\ f[y] # g[y]
    BY <2>3
  <2>5. \A w \in D : rank[w] < rank[y] => f[w] = g[w]
    <3>1. ASSUME NEW w \in D, rank[w] < rank[y], f[w] # g[w] PROVE FALSE
      <4>1. rank[w] \in Nat /\ rank[w] < n /\ rank[w] < m
        BY <3>1, <2>4, <2>3
      <4>2. rank[w] \in S
        BY <4>1, <3>1
      <4> QED
        BY <4>1, <4>2, <2>3, <2>4, <3>1
    <3> QED
      BY <3>1
  <2>6. G[f][y] = G[g][y]
    BY <1>3, <2>5
  <2> QED
    BY <1>3, <2>4, <2>6
<1> DEFINE F == [x \in D |-> (CHOOSE f : Good(f, rank[x] + 1))[x]]
<1>4. ASSUME NEW x \in D PROVE Good(CHOOSE f : Good(f, rank[x] + 1), rank[x] + 1)
  <2> HIDE DEF Good
  <2>1. rank[x] + 1 \in Nat
    OBVIOUS
  <2> QED
    BY <1>2, <2>1
<1>5. F \in [D -> V]
  <2>1. ASSUME NEW x \in D PROVE F[x] \in V
    BY <1>4
  <2> QED
    BY <2>1
<1>6. ASSUME NEW x \in D PROVE G[F][x] = F[x]
  <2> DEFINE h == CHOOSE f : Good(f, rank[x] + 1)
  <2>1. Good(h, rank[x] + 1) /\ F[x] = h[x]
    BY <1>4
  <2>2. ASSUME NEW y \in D, rank[y] < rank[x] PROVE F[y] = h[y]
    <3> DEFINE hy == CHOOSE f : Good(f, rank[y] + 1)
    <3>1. Good(hy, rank[y] + 1) /\ F[y] = hy[y]
      BY <1>4
    <3>2. rank[x] \in Nat /\ rank[y] \in Nat
      OBVIOUS
    <3>3. rank[x] + 1 \in Nat /\ rank[y] + 1 \in Nat /\ rank[y] < rank[x] + 1 /\ rank[y] < rank[y] + 1
      BY <3>2, <2>2
    <3>4. hy[y] = h[y]
      <4> HIDE DEF Good, h, hy
      <4> QED
        BY <1>3, <2>1, <3>1, <3>3
    <3> QED
      BY <3>1, <3>4
  <2>3. h \in [D -> V]
    BY <2>1
  <2>4. G[F][x] = G[h][x]
    <3> HIDE DEF h, F
    <3> QED
      BY <1>5, <2>2, <2>3
  <2>5. G[h][x] = h[x]
    <3> HIDE DEF h, F
    <3> QED
      BY <2>1
  <2> QED
    BY <2>1, <2>4, <2>5
<1>7. G[F] \in [D -> V]
  <2> HIDE DEF F
  <2> QED
    BY <1>5
<1>8. G[F] = F
  <2> HIDE DEF F
  <2> QED
    BY <1>5, <1>6, <1>7
<1> QED
  BY <1>5, <1>8

\* Induction over numbers, and over those up to n from the greatest downwards.
LEMMA Upwards ==
  ASSUME NEW a \in Int, NEW b \in Int, NEW P \in SUBSET (a .. b),
         \A k \in a .. b : (\A j \in a .. k - 1 : j \in P) => k \in P
  PROVE  \A k \in a .. b : k \in P
<1> DEFINE S == {n \in Nat : a + n \in (a .. b) \ P}
<1>1. SUFFICES ASSUME NEW w \in a .. b, w \notin P PROVE FALSE
  OBVIOUS
<1>2. S \in SUBSET Nat /\ w - a \in S
  BY <1>1
<1>3. PICK n \in S : \A k \in S : n <= k
  <2> HIDE DEF S
  <2> QED
    BY <1>2, LeastNat
<1>4. n \in Nat /\ a + n \in a .. b /\ a + n \notin P
  BY <1>3
<1>5. ASSUME NEW j \in a .. (a + n) - 1, j \notin P PROVE FALSE
  <2>1. j \in a .. b /\ j - a < n /\ j - a \in Nat
    BY <1>4
  <2>2. j - a \in S
    BY <2>1, <1>5
  <2> QED
    BY <2>1, <2>2, <1>3, <1>4
<1> QED
  BY <1>4, <1>5

LEMMA Downwards ==
  ASSUME NEW a \in Int, NEW b \in Int, NEW P \in SUBSET (a .. b),
         \A k \in a .. b : (\A j \in k + 1 .. b : j \in P) => k \in P
  PROVE  \A k \in a .. b : k \in P
<1> DEFINE S == {n \in Nat : b - n \in (a .. b) \ P}
<1>1. SUFFICES ASSUME NEW w \in a .. b, w \notin P PROVE FALSE
  OBVIOUS
<1>2. S \in SUBSET Nat /\ b - w \in S
  BY <1>1
<1>3. PICK n \in S : \A k \in S : n <= k
  <2> HIDE DEF S
  <2> QED
    BY <1>2, LeastNat
<1>4. n \in Nat /\ b - n \in a .. b /\ b - n \notin P
  BY <1>3
<1>5. ASSUME NEW j \in (b - n) + 1 .. b, j \notin P PROVE FALSE
  <2>1. j \in a .. b /\ b - j < n /\ b - j \in Nat
    BY <1>4
  <2>2. b - j \in S
    BY <2>1, <1>5
  <2> QED
    BY <2>1, <2>2, <1>3, <1>4
<1> QED
  BY <1>4, <1>5
=============================================================================
