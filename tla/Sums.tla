--------------------------------- MODULE Sums ---------------------------------
(******************************************************************************)
(* Sums over finite sets.  The ledgers are accounts: what they promise is an  *)
(* equation between a running total and a sum over calls, reservations or     *)
(* slots.  SumFunctionOnSet(f, S) of the community module Functions, a fold   *)
(* of + over S, is what the models use; here is what their proofs need of it. *)
(*                                                                            *)
(* The fold is a recursive function on the subsets of S.  That it is what its *)
(* equation says, and what follows by induction on S, is proved with          *)
(* smallest counterexamples: the subsets of a finite set are well founded     *)
(* under strict inclusion, so a non-empty set of them has a minimal element.  *)
(******************************************************************************)
EXTENDS Integers, Functions, FiniteSetTheorems, TLAPS

LOCAL Pick(s) == CHOOSE x \in s : TRUE

\* g is the fold's table for the subsets of S.
LOCAL Tabulates(g, f, S) ==
  g = [s \in SUBSET S |-> IF s = {} THEN 0 ELSE f[Pick(s)] + g[s \ {Pick(s)}]]

\* A non-empty set of subsets of a finite set has a minimal element.
LEMMA MinimalSubset ==
  ASSUME NEW S, IsFiniteSet(S), NEW Bad, Bad \subseteq SUBSET S, Bad # {}
  PROVE  \E s \in Bad : \A t \in Bad : ~ (t \subseteq s /\ t # s)
<1>1. IsWellFoundedOn(StrictSubsetOrdering(S), SUBSET S)
  BY FS_StrictSubsetOrderingWellFounded, FS_FiniteSubsetsOfFinite
<1>2. PICK s \in Bad : \A t \in Bad : <<t, s>> \notin StrictSubsetOrdering(S)
  <2> HIDE DEF StrictSubsetOrdering
  <2> QED BY <1>1, WFMin
<1>3. QED BY <1>2 DEF StrictSubsetOrdering

LEMMA PickIn == ASSUME NEW s, s # {} PROVE Pick(s) \in s
BY DEF Pick

\* Two tables agree where both are defined.
LEMMA TablesAgree ==
  ASSUME NEW S, IsFiniteSet(S), NEW f, NEW T, T \subseteq S,
         NEW g, Tabulates(g, f, S), NEW h, Tabulates(h, f, T)
  PROVE  \A s \in SUBSET T : g[s] = h[s]
<1> DEFINE Bad == {s \in SUBSET T : g[s] # h[s]}
<1>1. SUFFICES ASSUME Bad # {} PROVE FALSE
  OBVIOUS
<1>2. PICK s \in Bad : \A t \in Bad : ~ (t \subseteq s /\ t # s)
  <2>1. Bad \subseteq SUBSET S
    OBVIOUS
  <2> HIDE DEF Bad
  <2> QED BY <1>1, <2>1, MinimalSubset
<1>3. s # {}
  BY DEF Tabulates
<1>4. s \ {Pick(s)} \notin Bad /\ s \ {Pick(s)} \in SUBSET T
  BY <1>2, <1>3, PickIn
<1>5. /\ g[s] = f[Pick(s)] + g[s \ {Pick(s)}]
      /\ h[s] = f[Pick(s)] + h[s \ {Pick(s)}]
  BY <1>3 DEF Tabulates
<1>6. QED BY <1>2, <1>4, <1>5

\* Every finite set has a table: from the tables of its proper subsets.
LEMMA TableExists ==
  ASSUME NEW A, IsFiniteSet(A), NEW f
  PROVE  \A S \in SUBSET A : \E g : Tabulates(g, f, S)
<1> DEFINE Bad == {S \in SUBSET A : ~ \E g : Tabulates(g, f, S)}
<1>1. SUFFICES ASSUME Bad # {} PROVE FALSE
  OBVIOUS
<1>2. PICK S \in Bad : \A t \in Bad : ~ (t \subseteq S /\ t # S)
  <2>1. Bad \subseteq SUBSET A
    OBVIOUS
  <2> HIDE DEF Bad
  <2> QED BY <1>1, <2>1, MinimalSubset
<1> DEFINE table(t) == CHOOSE g : Tabulates(g, f, t)
           below == [s \in SUBSET S |-> table(s)[s]]
           whole == [s \in SUBSET S |->
                       IF s # S THEN below[s]
                       ELSE IF S = {} THEN 0
                       ELSE f[Pick(S)] + below[S \ {Pick(S)}]]
<1>3. \A t \in SUBSET S : t # S => Tabulates(table(t), f, t)
  BY <1>2
<1>4. ASSUME NEW s \in SUBSET S
      PROVE  whole[s] = IF s = {} THEN 0
                        ELSE f[Pick(s)] + whole[s \ {Pick(s)}]
  <2> HIDE DEF table
  <2>1. CASE s = {}
    <3>1. CASE s # S
      BY <2>1, <3>1, <1>3 DEF Tabulates
    <3>2. QED BY <2>1, <3>1
  <2>2. CASE s # {} /\ s = S
    BY <2>2, PickIn
  <2>3. CASE s # {} /\ s # S
    <3> DEFINE p == s \ {Pick(s)}
    <3>1. Pick(s) \in s /\ p \in SUBSET s /\ p \in SUBSET S /\ p # S
      BY <2>3, PickIn
    <3>2. Tabulates(table(s), f, s) /\ Tabulates(table(p), f, p)
      BY <1>3, <2>3, <3>1
    <3>3. IsFiniteSet(s)
      BY <1>2, FS_Subset
    <3>4. table(s)[p] = table(p)[p]
      BY <3>1, <3>2, <3>3, TablesAgree
    <3>5. table(s)[s] = f[Pick(s)] + table(s)[p]
      <4> HIDE DEF p
      <4> QED BY <3>2, <2>3 DEF Tabulates, p
    <3>6. whole[s] = table(s)[s] /\ whole[p] = table(p)[p]
      BY <2>3, <3>1
    <3>7. QED BY <3>4, <3>5, <3>6, <2>3
  <2>4. QED BY <2>1, <2>2, <2>3
<1>5. Tabulates(whole, f, S)
  <2> HIDE DEF whole
  <2>1. whole = [s \in SUBSET S |-> whole[s]]
    BY DEF whole
  <2>2. QED BY <1>4, <2>1 DEF Tabulates
<1>6. QED BY <1>2, <1>5

\* The sum is the table's entry.
LEMMA SumTabulated ==
  ASSUME NEW S, IsFiniteSet(S), NEW f
  PROVE  \E g : Tabulates(g, f, S) /\ SumFunctionOnSet(f, S) = g[S]
<1>1. SumFunctionOnSet(f, S) = (CHOOSE g : Tabulates(g, f, S))[S]
  BY DEF SumFunctionOnSet, FoldFunctionOnSet, MapThenFoldSet, Tabulates, Pick
<1>2. \E g : Tabulates(g, f, S)
  BY TableExists
<1>3. QED BY <1>1, <1>2

LEMMA SumPicks ==
  ASSUME NEW S, IsFiniteSet(S), S # {}, NEW f
  PROVE  SumFunctionOnSet(f, S)
           = f[Pick(S)] + SumFunctionOnSet(f, S \ {Pick(S)})
<1> DEFINE T == S \ {Pick(S)}
<1>1. T \subseteq S /\ IsFiniteSet(T)
  BY FS_Subset
<1>2. PICK g : Tabulates(g, f, S) /\ SumFunctionOnSet(f, S) = g[S]
  BY SumTabulated
<1>3. PICK h : Tabulates(h, f, T) /\ SumFunctionOnSet(f, T) = h[T]
  BY <1>1, SumTabulated
<1>4. g[T] = h[T]
  <2> HIDE DEF T
  <2> QED BY <1>1, <1>2, <1>3, TablesAgree
<1>5. g[S] = f[Pick(S)] + g[T]
  BY <1>2 DEF Tabulates
<1>6. QED BY <1>2, <1>3, <1>4, <1>5

--------------------------------------------------------------------------------
(* Induction on a finite set, with a set in place of a predicate.             *)

LEMMA SubsetInduction ==
  ASSUME NEW S, IsFiniteSet(S), NEW Good, {} \in Good,
         \A s \in SUBSET S, x \in S : s \in Good => s \union {x} \in Good
  PROVE  S \in Good
<1> DEFINE Bad == {s \in SUBSET S : s \notin Good}
<1>1. SUFFICES ASSUME Bad # {} PROVE FALSE
  OBVIOUS
<1>2. PICK s \in Bad : \A t \in Bad : ~ (t \subseteq s /\ t # s)
  <2>1. Bad \subseteq SUBSET S
    OBVIOUS
  <2> HIDE DEF Bad
  <2> QED BY <1>1, <2>1, MinimalSubset
<1>3. PICK x \in s : TRUE
  OBVIOUS
<1>4. s \ {x} \in SUBSET S /\ s \ {x} \in Good /\ x \in S
  BY <1>2, <1>3
<1>5. s = (s \ {x}) \union {x}
  BY <1>3
<1>6. QED BY <1>2, <1>4, <1>5

\* What holds of 0, and of k + 1 when of k, holds of n.
LEMMA CountingUp ==
  ASSUME NEW n \in Nat, NEW Good, 0 \in Good,
         \A k \in 0..(n - 1) : k \in Good => k + 1 \in Good
  PROVE  n \in Good
<1> DEFINE I == 1..n
           Bad == {s \in SUBSET I : \E k \in 0..n : s = 1..k /\ k \notin Good}
<1>1. SUFFICES ASSUME n \notin Good PROVE FALSE
  OBVIOUS
<1>2. I \in Bad /\ Bad \subseteq SUBSET I /\ IsFiniteSet(I)
  BY <1>1, FS_Interval
<1>3. PICK s \in Bad : \A t \in Bad : ~ (t \subseteq s /\ t # s)
  <2> HIDE DEF Bad, I
  <2> QED BY <1>2, MinimalSubset
<1>4. PICK k \in 0..n : s = 1..k /\ k \notin Good
  BY <1>3
<1>5. k # 0 /\ k - 1 \in 0..(n - 1) /\ k - 1 \notin Good
  BY <1>4
<1>6. 1..(k - 1) \in Bad /\ 1..(k - 1) \subseteq s /\ k \in s /\ k \notin 1..(k - 1)
  BY <1>4, <1>5
<1>7. QED BY <1>3, <1>6

--------------------------------------------------------------------------------
(* What a sum is.                                                             *)

LEMMA SumEmpty == ASSUME NEW f PROVE SumFunctionOnSet(f, {}) = 0
<1>1. PICK g : Tabulates(g, f, {}) /\ SumFunctionOnSet(f, {}) = g[{}]
  BY SumTabulated, FS_EmptySet
<1>2. QED BY <1>1 DEF Tabulates

LEMMA SumInt ==
  ASSUME NEW S, IsFiniteSet(S), NEW f, \A x \in S : f[x] \in Int
  PROVE  SumFunctionOnSet(f, S) \in Int
<1> DEFINE Bad == {s \in SUBSET S : SumFunctionOnSet(f, s) \notin Int}
<1>1. SUFFICES ASSUME Bad # {} PROVE FALSE
  OBVIOUS
<1>2. PICK s \in Bad : \A t \in Bad : ~ (t \subseteq s /\ t # s)
  <2>1. Bad \subseteq SUBSET S
    OBVIOUS
  <2> HIDE DEF Bad
  <2> QED BY <1>1, <2>1, MinimalSubset
<1>3. s # {}
  <2>1. SumFunctionOnSet(f, {}) \in Int
    BY SumEmpty
  <2>2. QED BY <2>1
<1>4. Pick(s) \in s /\ IsFiniteSet(s)
  BY <1>2, <1>3, PickIn, FS_Subset
<1>5. SumFunctionOnSet(f, s)
        = f[Pick(s)] + SumFunctionOnSet(f, s \ {Pick(s)})
  BY <1>3, <1>4, SumPicks
<1>6. SumFunctionOnSet(f, s \ {Pick(s)}) \in Int
  BY <1>2, <1>4
<1>7. QED BY <1>2, <1>4, <1>5, <1>6

\* Any element may be taken out first.
LEMMA SumTakeOut ==
  ASSUME NEW S, IsFiniteSet(S), NEW f, \A x \in S : f[x] \in Int, NEW e \in S
  PROVE  SumFunctionOnSet(f, S) = f[e] + SumFunctionOnSet(f, S \ {e})
<1> DEFINE Fits(s, x) ==
             SumFunctionOnSet(f, s) = f[x] + SumFunctionOnSet(f, s \ {x})
           Bad == {s \in SUBSET S : \E x \in s : ~ Fits(s, x)}
<1>1. SUFFICES ASSUME Bad # {} PROVE FALSE
  OBVIOUS
<1>2. PICK s \in Bad : \A t \in Bad : ~ (t \subseteq s /\ t # s)
  <2>1. Bad \subseteq SUBSET S
    OBVIOUS
  <2> HIDE DEF Bad
  <2> QED BY <1>1, <2>1, MinimalSubset
<1>3. PICK x \in s : ~ Fits(s, x)
  OBVIOUS
<1> DEFINE p == Pick(s)
           both == s \ {x, p}
<1>4. p \in s /\ IsFiniteSet(s) /\ s \subseteq S
  BY <1>2, <1>3, PickIn, FS_Subset
<1>5. Fits(s, p)
  BY <1>3, <1>4, SumPicks
<1>6. x # p
  BY <1>3, <1>5
<1>7. /\ SumFunctionOnSet(f, s \ {p}) = f[x] + SumFunctionOnSet(f, both)
      /\ SumFunctionOnSet(f, s \ {x}) = f[p] + SumFunctionOnSet(f, both)
  <2>1. both = (s \ {p}) \ {x} /\ both = (s \ {x}) \ {p}
    OBVIOUS
  <2>2. s \ {p} \notin Bad /\ s \ {x} \notin Bad
    BY <1>2, <1>3, <1>4
  <2>3. Fits(s \ {p}, x) /\ Fits(s \ {x}, p)
    BY <2>2, <1>3, <1>4, <1>6
  <2>4. QED BY <2>1, <2>3
<1>8. SumFunctionOnSet(f, both) \in Int
  <2>1. IsFiniteSet(both) /\ \A y \in both : f[y] \in Int
    BY <1>4, FS_Subset
  <2> HIDE DEF both
  <2> QED BY <2>1, SumInt
<1>9. f[x] \in Int /\ f[p] \in Int
  BY <1>4
<1>10. Fits(s, x)
  <2> HIDE DEF both, p
  <2> QED BY <1>5, <1>7, <1>8, <1>9
<1>11. QED BY <1>3, <1>10

LEMMA SumAdd ==
  ASSUME NEW S, IsFiniteSet(S), NEW f, NEW e, e \notin S,
         \A x \in S \union {e} : f[x] \in Int
  PROVE  SumFunctionOnSet(f, S \union {e}) = f[e] + SumFunctionOnSet(f, S)
<1>1. IsFiniteSet(S \union {e}) /\ (S \union {e}) \ {e} = S
  BY FS_AddElement
<1>2. SumFunctionOnSet(f, S \union {e})
        = f[e] + SumFunctionOnSet(f, (S \union {e}) \ {e})
  BY <1>1, SumTakeOut
<1>3. QED BY <1>1, <1>2

--------------------------------------------------------------------------------
(* Sums compared.                                                             *)

\* Functions that are ordered on S have sums that are.
LEMMA SumAtMost ==
  ASSUME NEW S, IsFiniteSet(S), NEW f, NEW g,
         \A x \in S : f[x] \in Int /\ g[x] \in Int /\ f[x] <= g[x]
  PROVE  SumFunctionOnSet(f, S) <= SumFunctionOnSet(g, S)
<1> DEFINE Good == {s \in SUBSET S :
                      SumFunctionOnSet(f, s) <= SumFunctionOnSet(g, s)}
<1>1. {} \in Good
  BY SumEmpty
<1>2. ASSUME NEW s \in SUBSET S, NEW x \in S, s \in Good
      PROVE  s \union {x} \in Good
  <2>1. CASE x \in s
    <3>1. s \union {x} = s
      BY <2>1
    <3>2. QED BY <3>1, <1>2
  <2>2. CASE x \notin s
    <3>1. IsFiniteSet(s)
      BY FS_Subset
    <3>2. /\ SumFunctionOnSet(f, s) \in Int
          /\ SumFunctionOnSet(g, s) \in Int
      BY <3>1, SumInt
    <3>3. /\ SumFunctionOnSet(f, s \union {x})
               = f[x] + SumFunctionOnSet(f, s)
          /\ SumFunctionOnSet(g, s \union {x})
               = g[x] + SumFunctionOnSet(g, s)
      BY <3>1, <2>2, SumAdd
    <3>4. QED BY <3>2, <3>3, <1>2
  <2>3. QED BY <2>1, <2>2
<1>3. S \in Good
  <2> HIDE DEF Good
  <2> QED BY <1>1, <1>2, SubsetInduction
<1>4. QED BY <1>3

LEMMA SumSame ==
  ASSUME NEW S, IsFiniteSet(S), NEW f, NEW g,
         \A x \in S : f[x] \in Int /\ f[x] = g[x]
  PROVE  SumFunctionOnSet(f, S) = SumFunctionOnSet(g, S)
<1>1. /\ SumFunctionOnSet(f, S) \in Int
      /\ SumFunctionOnSet(g, S) \in Int
  BY SumInt
<1>2. /\ SumFunctionOnSet(f, S) <= SumFunctionOnSet(g, S)
      /\ SumFunctionOnSet(g, S) <= SumFunctionOnSet(f, S)
  <2>1. \A x \in S : g[x] \in Int /\ f[x] <= g[x] /\ g[x] <= f[x]
    OBVIOUS
  <2>2. QED BY <2>1, SumAtMost
<1>3. QED BY <1>1, <1>2

LEMMA SumOfConstant ==
  ASSUME NEW S, IsFiniteSet(S), NEW f, NEW k \in Int, \A x \in S : f[x] = k
  PROVE  SumFunctionOnSet(f, S) = Cardinality(S) * k
<1> DEFINE Good == {s \in SUBSET S :
                      SumFunctionOnSet(f, s) = Cardinality(s) * k}
<1>1. {} \in Good
  <2>1. 0 = 0 * k
    OBVIOUS
  <2>2. QED BY <2>1, SumEmpty, FS_EmptySet
<1>2. ASSUME NEW s \in SUBSET S, NEW x \in S, s \in Good
      PROVE  s \union {x} \in Good
  <2>1. CASE x \in s
    <3>1. s \union {x} = s
      BY <2>1
    <3>2. QED BY <3>1, <1>2
  <2>2. CASE x \notin s
    <3>1. IsFiniteSet(s)
      BY FS_Subset
    <3>2. Cardinality(s) \in Nat
      BY <3>1, FS_CardinalityType
    <3>3. Cardinality(s \union {x}) = Cardinality(s) + 1
      BY <3>1, <2>2, FS_AddElement
    <3>4. SumFunctionOnSet(f, s \union {x})
            = f[x] + SumFunctionOnSet(f, s)
      BY <3>1, <2>2, SumAdd
    <3>5. \A n \in Nat : k + n * k = (n + 1) * k
      OBVIOUS
    <3>6. SumFunctionOnSet(f, s \union {x}) = k + Cardinality(s) * k
      BY <3>4, <1>2
    <3>7. SumFunctionOnSet(f, s \union {x}) = Cardinality(s \union {x}) * k
      BY <3>6, <3>5, <3>3, <3>2
    <3>8. QED BY <3>7, <1>2
  <2>3. QED BY <2>1, <2>2
<1>3. S \in Good
  <2> HIDE DEF Good
  <2> QED BY <1>1, <1>2, SubsetInduction
<1>4. QED BY <1>3

\* The sum over a union of disjoint sets is the sum of their sums.
LEMMA SumOfUnion ==
  ASSUME NEW S, IsFiniteSet(S), NEW T, IsFiniteSet(T), S \intersect T = {},
         NEW f, \A x \in S \union T : f[x] \in Int
  PROVE  SumFunctionOnSet(f, S \union T)
           = SumFunctionOnSet(f, S) + SumFunctionOnSet(f, T)
<1> DEFINE Good == {t \in SUBSET T :
                      SumFunctionOnSet(f, S \union t)
                        = SumFunctionOnSet(f, S) + SumFunctionOnSet(f, t)}
<1>1. SumFunctionOnSet(f, S) \in Int
  BY SumInt
<1>2. {} \in Good
  <2>1. S \union {} = S
    OBVIOUS
  <2>2. QED BY <1>1, <2>1, SumEmpty
<1>3. ASSUME NEW t \in SUBSET T, NEW x \in T, t \in Good
      PROVE  t \union {x} \in Good
  <2>1. CASE x \in t
    <3>1. t \union {x} = t
      BY <2>1
    <3>2. QED BY <3>1, <1>3
  <2>2. CASE x \notin t
    <3>1. IsFiniteSet(t) /\ IsFiniteSet(S \union t)
      BY FS_Subset, FS_Union
    <3>2. x \notin S \union t /\ S \union (t \union {x}) = (S \union t) \union {x}
      BY <2>2
    <3>3. SumFunctionOnSet(f, t) \in Int
      BY <3>1, SumInt
    <3>4. SumFunctionOnSet(f, t \union {x}) = f[x] + SumFunctionOnSet(f, t)
      BY <3>1, <2>2, SumAdd
    <3>5. SumFunctionOnSet(f, (S \union t) \union {x})
            = f[x] + SumFunctionOnSet(f, S \union t)
      <4>1. \A y \in (S \union t) \union {x} : f[y] \in Int
        OBVIOUS
      <4>2. QED BY <4>1, <3>1, <3>2, SumAdd
    <3>6. f[x] \in Int
      OBVIOUS
    <3>7. SumFunctionOnSet(f, S \union (t \union {x}))
            = SumFunctionOnSet(f, S) + SumFunctionOnSet(f, t \union {x})
      <4>1. SumFunctionOnSet(f, S \union t)
              = SumFunctionOnSet(f, S) + SumFunctionOnSet(f, t)
        BY <1>3
      <4>2. SumFunctionOnSet(f, S \union (t \union {x}))
              = f[x] + SumFunctionOnSet(f, S \union t)
        BY <3>2, <3>5
      <4> HIDE DEF Good
      <4>3. QED BY <1>1, <3>3, <3>4, <3>6, <4>1, <4>2
    <3>8. QED BY <3>7
  <2>3. QED BY <2>1, <2>2
<1>4. T \in Good
  <2> HIDE DEF Good
  <2> QED BY <1>2, <1>3, SubsetInduction
<1>5. QED BY <1>4

LEMMA SumNotNegative ==
  ASSUME NEW S, IsFiniteSet(S), NEW f, \A x \in S : f[x] \in Nat
  PROVE  0 <= SumFunctionOnSet(f, S)
<1> DEFINE zero == [x \in S |-> 0]
<1>1. \A x \in S : /\ zero[x] \in Int /\ f[x] \in Int /\ zero[x] <= f[x]
                   /\ zero[x] = 0
  OBVIOUS
<1> HIDE DEF zero
<1>2. SumFunctionOnSet(zero, S) <= SumFunctionOnSet(f, S)
  BY <1>1, SumAtMost
<1>3. SumFunctionOnSet(zero, S) = Cardinality(S) * 0
  BY <1>1, SumOfConstant
<1>4. Cardinality(S) * 0 = 0
  BY FS_CardinalityType
<1>5. QED BY <1>2, <1>3, <1>4

--------------------------------------------------------------------------------
(* Sums of an account before and after one entry.                             *)

\* One entry is added.
LEMMA SumExtend ==
  ASSUME NEW S, IsFiniteSet(S), NEW e, e \notin S, NEW f, NEW g, g[e] \in Int,
         \A x \in S : f[x] \in Int /\ g[x] = f[x]
  PROVE  SumFunctionOnSet(g, S \union {e}) = SumFunctionOnSet(f, S) + g[e]
<1>1. SumFunctionOnSet(g, S) = SumFunctionOnSet(f, S)
  <2>1. \A x \in S : g[x] \in Int /\ g[x] = f[x]
    OBVIOUS
  <2>2. QED BY <2>1, SumSame
<1>2. SumFunctionOnSet(g, S \union {e}) = g[e] + SumFunctionOnSet(g, S)
  <2>1. \A x \in S \union {e} : g[x] \in Int
    OBVIOUS
  <2>2. QED BY <2>1, SumAdd
<1>3. SumFunctionOnSet(f, S) \in Int
  BY SumInt
<1>4. QED BY <1>1, <1>2, <1>3

\* One entry changes.
LEMMA SumChange ==
  ASSUME NEW S, IsFiniteSet(S), NEW e \in S, NEW f, NEW g,
         \A x \in S : f[x] \in Int /\ g[x] \in Int,
         \A x \in S : x # e => g[x] = f[x]
  PROVE  SumFunctionOnSet(g, S) = SumFunctionOnSet(f, S) + (g[e] - f[e])
<1> DEFINE T == S \ {e}
<1>1. IsFiniteSet(T)
  BY FS_Subset
<1>2. /\ SumFunctionOnSet(f, S) = f[e] + SumFunctionOnSet(f, T)
      /\ SumFunctionOnSet(g, S) = g[e] + SumFunctionOnSet(g, T)
  BY SumTakeOut
<1>3. \A x \in T : f[x] \in Int /\ f[x] = g[x]
  OBVIOUS
<1>4. SumFunctionOnSet(f, T) = SumFunctionOnSet(g, T)
  <2> HIDE DEF T
  <2> QED BY <1>1, <1>3, SumSame
<1>5. SumFunctionOnSet(f, T) \in Int
  <2> HIDE DEF T
  <2> QED BY <1>1, <1>3, SumInt
<1>6. QED BY <1>2, <1>4, <1>5

\* A sum of naturals over a part is no more than the sum over the whole.
LEMMA SumOfPart ==
  ASSUME NEW S, IsFiniteSet(S), NEW T, T \subseteq S, NEW f, \A x \in S : f[x] \in Nat
  PROVE  SumFunctionOnSet(f, T) <= SumFunctionOnSet(f, S)
<1>1. PICK U : U = S \ T
  OBVIOUS
<1>2. IsFiniteSet(T) /\ IsFiniteSet(U)
  BY <1>1, FS_Subset
<1>3. T \union U = S /\ T \intersect U = {}
  BY <1>1
<1>4. /\ \A x \in T \union U : f[x] \in Int
      /\ \A x \in T : f[x] \in Int
      /\ \A x \in U : f[x] \in Nat /\ f[x] \in Int
  BY <1>3
<1>5. SumFunctionOnSet(f, S) = SumFunctionOnSet(f, T) + SumFunctionOnSet(f, U)
  <2>1. SumFunctionOnSet(f, T \union U)
          = SumFunctionOnSet(f, T) + SumFunctionOnSet(f, U)
    BY <1>2, <1>3, <1>4, SumOfUnion
  <2>2. QED BY <1>3, <2>1
<1>6. /\ SumFunctionOnSet(f, T) \in Int /\ SumFunctionOnSet(f, U) \in Int
      /\ 0 <= SumFunctionOnSet(f, U)
  BY <1>2, <1>4, SumInt, SumNotNegative
<1>7. QED BY <1>5, <1>6
================================================================================
