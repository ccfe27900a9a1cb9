------------------------------ MODULE Amounts ------------------------------
(***************************************************************************)
(* Facts about the arithmetic of balances and ledgers: division that       *)
(* rounds down, as Solidity's does, and the sum of a function of amounts.  *)
(*                                                                         *)
(* SumFunction is a fold, a function defined by recursion on the subsets   *)
(* of its domain.  The facts about it are proved by induction on the size  *)
(* of those subsets, in the first-order form a set of naturals has: the    *)
(* set of the sizes that are still wrong has no least element.             *)
(***************************************************************************)
EXTENDS Integers, Functions, FiniteSetTheorems, WellFoundedInduction, TLAPS

(***************************************************************************)
(* Division                                                                *)
(***************************************************************************)

\* Division rounds down and stays a natural number.
LEMMA DivNat ==
    ASSUME NEW x \in Nat, NEW d \in Nat \ {0}
    PROVE  /\ x \div d \in Nat
           /\ (x \div d) * d <= x
           /\ x < (x \div d) * d + d
  OBVIOUS

\* A share n/m of p, with n at most m, is at most p.
LEMMA ShareBound ==
    ASSUME NEW p \in Nat, NEW m \in Nat \ {0}, NEW n \in Nat, n <= m
    PROVE  (p * n) \div m \in 0 .. p
<1> DEFINE q == (p * n) \div m
<1>1. p * n \in Nat
  OBVIOUS
<1>2. q \in Nat /\ q * m <= p * n
  BY <1>1, DivNat
<1>3. p * n <= p * m
  OBVIOUS
<1>4. q <= p
  <2>1. SUFFICES ASSUME q >= p + 1 PROVE FALSE
    BY <1>2
  <2>2. q * m >= (p + 1) * m
    BY <2>1, <1>2
  <2>3. (p + 1) * m = p * m + m
    OBVIOUS
  <2> QED
    BY <2>2, <2>3, <1>2, <1>3
<1> QED
  BY <1>2, <1>4

\* A common positive factor cancels.
LEMMA MulCancel ==
    ASSUME NEW x \in Int, NEW y \in Int, NEW t \in Nat \ {0}, x * t < y * t
    PROVE  x < y
<1>1. SUFFICES ASSUME y <= x PROVE FALSE
  OBVIOUS
<1>2. y * t <= x * t
  BY <1>1
<1>3. x * t \in Int /\ y * t \in Int
  OBVIOUS
<1> QED
  BY <1>2, <1>3

\* The whole of x comes back for all of m, and less than x for less than m.
LEMMA ShareWhole ==
    ASSUME NEW x \in Nat, NEW m \in Nat \ {0}, NEW n \in Nat, n <= m
    PROVE  /\ n = m => (x * n) \div m = x
           /\ n < m /\ x > 0 => (x * n) \div m < x
<1> DEFINE q == (x * n) \div m
<1>1. x * n \in Nat /\ x * m \in Nat
  OBVIOUS
<1>2. q \in Nat /\ q * m <= x * n /\ x * n < q * m + m
  BY <1>1, DivNat
<1> HIDE DEF q
<1>3. ASSUME n = m PROVE q = x
  <2>1. q * m <= x * m /\ x * m < (q + 1) * m
    BY <1>2, <1>3
  <2>2. x < q + 1
    BY <1>2, <2>1, MulCancel
  <2>3. q < x + 1
    <3>1. q * m < (x + 1) * m
      BY <1>1, <1>2, <2>1
    <3> QED
      BY <1>2, <3>1, MulCancel
  <2> QED
    BY <1>2, <2>2, <2>3
<1>4. ASSUME n < m, x > 0 PROVE q < x
  <2>1. x * n < x * m
    BY <1>4
  <2>2. q * m < x * m
    BY <1>1, <1>2, <2>1
  <2> QED
    BY <1>2, <2>2, MulCancel
<1> QED
  BY <1>3, <1>4 DEF q

\* What a share leaves behind grows with what it is taken from.
LEMMA ShareRest ==
    ASSUME NEW x \in Nat, NEW y \in Nat, x <= y,
           NEW m \in Nat \ {0}, NEW n \in Nat, n <= m
    PROVE  x - (x * n) \div m <= y - (y * n) \div m
<1> DEFINE p == (x * n) \div m
           q == (y * n) \div m
<1>1. x * n \in Nat /\ y * n \in Nat
  OBVIOUS
<1>2. p \in Nat /\ x * n < p * m + m
  BY <1>1, DivNat
<1>3. q \in Nat /\ q * m <= y * n
  BY <1>1, DivNat
<1> HIDE DEF p, q
<1>4. (y - x) * n <= (y - x) * m
  OBVIOUS
<1>5. (q - p - 1) * m < (y - x) * m
  <2>1. /\ (q - p - 1) * m = q * m - p * m - m
        /\ (y - x) * n = y * n - x * n
    BY <1>2, <1>3
  <2>2. q * m \in Int /\ p * m \in Int /\ (y - x) * m \in Int
    BY <1>2, <1>3
  <2> QED
    BY <1>1, <1>2, <1>3, <1>4, <2>1, <2>2
<1>6. q - p - 1 < y - x
  BY <1>2, <1>3, <1>5, MulCancel
<1> QED
  BY <1>2, <1>3, <1>6 DEF p, q

(***************************************************************************)
(* Induction, with the induction hypothesis a set                          *)
(***************************************************************************)

Less == {p \in Nat \X Nat : p[1] < p[2]}

\* Every nonempty set of naturals has a least element.
LEMMA LeastNat ==
    ASSUME NEW T, T \subseteq Nat, T # {}
    PROVE  \E n \in T : \A m \in T : n <= m
<1>1. IsWellFoundedOn(Less, Nat)
  BY NatLessThanWellFounded DEF OpToRel, Less
<1>2. PICK n \in T : \A m \in T : ~ (<<m, n>> \in Less)
  BY <1>1, WFMin
<1>3. \A m \in T : n <= m
  <2>1. SUFFICES ASSUME NEW m \in T PROVE n <= m
    OBVIOUS
  <2>2. m \in Nat /\ n \in Nat
    OBVIOUS
  <2>3. ~ (m < n)
    BY <1>2, <2>2 DEF Less
  <2> QED
    BY <2>2, <2>3
<1> QED
  BY <1>3

\* A set that holds zero and the successor of each of its members holds
\* every natural number.
LEMMA NatSteps ==
    ASSUME NEW Good, 0 \in Good,
           \A n \in Nat : n \in Good => n + 1 \in Good
    PROVE  Nat \subseteq Good
<1> DEFINE Bad == Nat \ Good
<1>1. SUFFICES ASSUME Bad # {} PROVE FALSE
  OBVIOUS
<1>2. PICK n \in Bad : \A m \in Bad : n <= m
  BY <1>1, LeastNat
<1>3. n \in Nat /\ n # 0 /\ n \notin Good
  OBVIOUS
<1>4. n - 1 \in Nat /\ ~ (n <= n - 1) /\ n = (n - 1) + 1
  BY <1>3
<1>5. n - 1 \in Good
  BY <1>2, <1>4
<1> QED
  BY <1>3, <1>4, <1>5

\* Removing a member leaves a set one smaller.
LEMMA Removed ==
    ASSUME NEW s, IsFiniteSet(s), NEW x \in s
    PROVE  /\ IsFiniteSet(s \ {x})
           /\ Cardinality(s) \in Nat
           /\ Cardinality(s \ {x}) = Cardinality(s) - 1
           /\ Cardinality(s \ {x}) \in Nat
  BY FS_RemoveElement, FS_CardinalityType

\* A set that holds the empty set, and a subset of S whenever it holds what
\* is left of it without any one of its members, holds every subset of S.
LEMMA SubsetSteps ==
    ASSUME NEW S, IsFiniteSet(S), NEW Good, {} \in Good,
           \A s \in SUBSET S : s # {} /\ (\A x \in s : s \ {x} \in Good) => s \in Good
    PROVE  SUBSET S \subseteq Good
<1> DEFINE Sized == {n \in Nat : \A s \in SUBSET S : Cardinality(s) = n => s \in Good}
<1>0. \A s \in SUBSET S : IsFiniteSet(s) /\ Cardinality(s) \in Nat
  BY FS_Subset, FS_CardinalityType
<1>1. 0 \in Sized
  BY <1>0, FS_EmptySet
<1>2. ASSUME NEW n \in Nat, n \in Sized
      PROVE  n + 1 \in Sized
  <2>1. SUFFICES ASSUME NEW s \in SUBSET S, Cardinality(s) = n + 1
                 PROVE  s \in Good
    OBVIOUS
  <2>2. s # {}
    <3>1. Cardinality({}) = 0
      BY FS_EmptySet
    <3> QED
      BY <2>1, <3>1
  <2>3. ASSUME NEW x \in s
        PROVE  s \ {x} \in Good
    <3>1. Cardinality(s \ {x}) = n
      BY <1>0, <2>1, Removed
    <3> QED
      BY <1>2, <3>1
  <2> QED
    BY <2>2, <2>3
<1>3. Nat \subseteq Sized
  <2> HIDE DEF Sized
  <2> QED
    BY <1>1, <1>2, NatSteps
<1> QED
  BY <1>0, <1>3

(***************************************************************************)
(* The sum of a function                                                   *)
(***************************************************************************)

\* The recursive function SumFunction folds with: the sum over each subset
\* s of S, one member CHOOSE takes and then the rest.
Iter(f, S) == CHOOSE iter : iter = [s \in SUBSET S |->
    IF s = {} THEN 0
              ELSE f[CHOOSE x \in s : TRUE] + iter[s \ {CHOOSE x \in s : TRUE}]]

LEMMA SumIsIter ==
    ASSUME NEW f, NEW S
    PROVE  SumFunctionOnSet(f, S) = Iter(f, S)[S]
  BY DEF SumFunctionOnSet, FoldFunctionOnSet, MapThenFoldSet, Iter

\* The part of the sum over the empty set is zero, and over any other subset
\* what CHOOSE takes and the rest: a function that satisfies the recursion
\* exists on the subsets of at most n members for each n, built from the one
\* for n - 1.
LEMMA IterParts ==
    ASSUME NEW S, IsFiniteSet(S), NEW f
    PROVE  /\ Iter(f, S)[{}] = 0
           /\ \A s \in SUBSET S : s # {} => \E c \in s :
                Iter(f, S)[s] = f[c] + Iter(f, S)[s \ {c}]
<1> DEFINE Pick(s)    == CHOOSE x \in s : TRUE
           Body(g, s) == IF s = {} THEN 0 ELSE f[Pick(s)] + g[s \ {Pick(s)}]
           Upto(n)    == {s \in SUBSET S : Cardinality(s) <= n}
           Good       == {n \in Nat : \E g : g = [s \in Upto(n) |-> Body(g, s)]}
<1>0. \A s \in SUBSET S : /\ IsFiniteSet(s)
                          /\ Cardinality(s) \in Nat
                          /\ Cardinality(s) <= Cardinality(S)
                          /\ Cardinality(S) \in Nat
  BY FS_Subset, FS_CardinalityType
<1>1. 0 \in Good
  <2> DEFINE g == [s \in Upto(0) |-> 0]
  <2>1. \A s \in Upto(0) : s = {}
    BY <1>0, FS_EmptySet
  <2>2. g = [s \in Upto(0) |-> Body(g, s)]
    BY <2>1
  <2> QED
    BY <2>2
<1>2. ASSUME NEW n \in Nat, n \in Good
      PROVE  n + 1 \in Good
  <2>1. PICK g : g = [s \in Upto(n) |-> Body(g, s)]
    BY <1>2
  <2> DEFINE h == [s \in Upto(n + 1) |-> Body(g, s)]
  <2>2. \A s \in Upto(n) : s \in Upto(n + 1) /\ g[s] = Body(g, s)
    <3>1. \A s \in Upto(n) : s \in Upto(n + 1)
      BY <1>0
    <3>2. \A s \in Upto(n) : g[s] = Body(g, s)
      <4> HIDE DEF Body, Upto
      <4> QED
        BY <2>1
    <3> QED
      BY <3>1, <3>2
  <2>3. \A s \in Upto(n) : h[s] = g[s]
    BY <2>2
  <2>4. ASSUME NEW s \in Upto(n + 1), s # {}
        PROVE  s \ {Pick(s)} \in Upto(n)
    <3>1. Pick(s) \in s
      BY <2>4
    <3> HIDE DEF Pick
    <3> QED
      BY <1>0, <3>1, Removed
  <2>5. \A s \in Upto(n + 1) : Body(g, s) = Body(h, s)
    <3> HIDE DEF h
    <3> QED
      BY <2>3, <2>4
  <2>6. h = [s \in Upto(n + 1) |-> Body(h, s)]
    BY <2>5
  <2> QED
    <3> HIDE DEF h, Body, Upto
    <3> QED
      BY <2>6
<1>3. Nat \subseteq Good
  <2> HIDE DEF Good
  <2> QED
    BY <1>1, <1>2, NatSteps
<1>4. Cardinality(S) \in Good
  BY <1>0, <1>3
<1>5. Upto(Cardinality(S)) = SUBSET S
  BY <1>0
<1>6. \E g : g = [s \in SUBSET S |-> Body(g, s)]
  BY <1>4, <1>5
<1> DEFINE I == Iter(f, S)
<1>7. I = [s \in SUBSET S |-> Body(I, s)]
  BY <1>6 DEF Iter
<1>8. \A s \in SUBSET S : I[s] = Body(I, s)
  <2> HIDE DEF I, Body
  <2> QED
    BY <1>7
<1>9. ASSUME NEW s \in SUBSET S, s # {}
      PROVE  Pick(s) \in s /\ I[s] = f[Pick(s)] + I[s \ {Pick(s)}]
  <2>1. Pick(s) \in s
    BY <1>9
  <2> HIDE DEF I, Pick
  <2> QED
    BY <1>8, <1>9, <2>1
<1>10. I[{}] = 0
  <2> HIDE DEF I, Pick
  <2> QED
    BY <1>8
<1> HIDE DEF I, Pick
<1>11. \A s \in SUBSET S : s # {} => \E c \in s : I[s] = f[c] + I[s \ {c}]
  BY <1>9
<1> QED
  BY <1>10, <1>11 DEF I

\* Sums of whole numbers are whole numbers.
LEMMA IterInt ==
    ASSUME NEW S, IsFiniteSet(S), NEW f \in [S -> Int]
    PROVE  \A s \in SUBSET S : Iter(f, S)[s] \in Int
<1> DEFINE Good == {s \in SUBSET S : Iter(f, S)[s] \in Int}
<1>1. {} \in Good
  BY IterParts
<1>2. ASSUME NEW s \in SUBSET S, s # {}, \A x \in s : s \ {x} \in Good
      PROVE  s \in Good
  <2>1. PICK c \in s : Iter(f, S)[s] = f[c] + Iter(f, S)[s \ {c}]
    BY <1>2, IterParts
  <2>2. f[c] \in Int /\ Iter(f, S)[s \ {c}] \in Int
    BY <1>2
  <2> QED
    BY <2>1, <2>2
<1>3. SUBSET S \subseteq Good
  <2> HIDE DEF Good
  <2> QED
    BY <1>1, <1>2, SubsetSteps
<1> QED
  BY <1>3

\* Which member is taken first does not matter.
LEMMA IterRemove ==
    ASSUME NEW S, IsFiniteSet(S), NEW f \in [S -> Int],
           NEW t \in SUBSET S, NEW y \in t
    PROVE  Iter(f, S)[t] = f[y] + Iter(f, S)[t \ {y}]
<1> DEFINE I    == Iter(f, S)
           Good == {s \in SUBSET S : \A x \in s : I[s] = f[x] + I[s \ {x}]}
<1>0. \A s \in SUBSET S : I[s] \in Int
  BY IterInt
<1>1. {} \in Good
  OBVIOUS
<1>2. ASSUME NEW s \in SUBSET S, s # {}, \A x \in s : s \ {x} \in Good
      PROVE  s \in Good
  <2>1. PICK c \in s : I[s] = f[c] + I[s \ {c}]
    BY <1>2, IterParts
  <2>2. ASSUME NEW x \in s, x # c
        PROVE  I[s] = f[x] + I[s \ {x}]
    <3> DEFINE rest == (s \ {c}) \ {x}
    <3>1. rest = (s \ {x}) \ {c} /\ rest \in SUBSET S
      OBVIOUS
    <3>2. I[s \ {c}] = f[x] + I[rest]
      BY <1>2, <2>2
    <3>3. I[s \ {x}] = f[c] + I[rest]
      BY <1>2, <2>2, <3>1
    <3>4. f[x] \in Int /\ f[c] \in Int /\ I[rest] \in Int
      BY <1>0, <3>1
    <3> HIDE DEF I, rest
    <3> QED
      BY <2>1, <3>2, <3>3, <3>4
  <2> QED
    BY <2>1, <2>2
<1>3. SUBSET S \subseteq Good
  <2> HIDE DEF Good
  <2> QED
    BY <1>1, <1>2, SubsetSteps
<1> QED
  BY <1>3

\* Functions that agree on a set have the same sum over it.
LEMMA IterAgree ==
    ASSUME NEW S, IsFiniteSet(S), NEW T, IsFiniteSet(T),
           NEW f \in [S -> Int], NEW g \in [T -> Int],
           NEW U, U \subseteq S, U \subseteq T, \A x \in U : f[x] = g[x]
    PROVE  Iter(f, S)[U] = Iter(g, T)[U]
<1> DEFINE Good == {s \in SUBSET U : Iter(f, S)[s] = Iter(g, T)[s]}
<1>0. IsFiniteSet(U)
  BY FS_Subset
<1>21. \A s \in SUBSET S : \A y \in s : Iter(f, S)[s] = f[y] + Iter(f, S)[s \ {y}]
  BY IterRemove
<1>22. \A s \in SUBSET T : \A y \in s : Iter(g, T)[s] = g[y] + Iter(g, T)[s \ {y}]
  BY IterRemove
<1>1. {} \in Good
  BY IterParts
<1>2. ASSUME NEW s \in SUBSET U, s # {}, \A x \in s : s \ {x} \in Good
      PROVE  s \in Good
  <2>1. PICK c \in s : TRUE
    BY <1>2
  <2>2. Iter(f, S)[s] = f[c] + Iter(f, S)[s \ {c}]
    BY <1>21
  <2>3. Iter(g, T)[s] = g[c] + Iter(g, T)[s \ {c}]
    BY <1>22
  <2>4. Iter(f, S)[s \ {c}] = Iter(g, T)[s \ {c}] /\ f[c] = g[c]
    BY <1>2
  <2> QED
    BY <2>2, <2>3, <2>4
<1>3. SUBSET U \subseteq Good
  <2> HIDE DEF Good
  <2> QED
    BY <1>0, <1>1, <1>2, SubsetSteps
<1> QED
  BY <1>3

\* The sum is a whole number, and a natural one when every amount is.
LEMMA SumInt ==
    ASSUME NEW S, IsFiniteSet(S), NEW f \in [S -> Int]
    PROVE  SumFunction(f) \in Int
  BY SumIsIter, IterInt DEF SumFunction

\* Sums keep the order of their amounts.
LEMMA SumMonotone ==
    ASSUME NEW S, IsFiniteSet(S), NEW f \in [S -> Int], NEW g \in [S -> Int],
           \A x \in S : f[x] <= g[x]
    PROVE  SumFunction(f) <= SumFunction(g)
<1> DEFINE F    == Iter(f, S)
           G    == Iter(g, S)
           Good == {s \in SUBSET S : F[s] <= G[s]}
<1>0. \A s \in SUBSET S : F[s] \in Int /\ G[s] \in Int
  BY IterInt
<1>1. {} \in Good
  BY IterParts
<1>2. ASSUME NEW s \in SUBSET S, s # {}, \A x \in s : s \ {x} \in Good
      PROVE  s \in Good
  <2>1. PICK c \in s : TRUE
    BY <1>2
  <2>21. F[s] = f[c] + F[s \ {c}]
    BY IterRemove
  <2>22. G[s] = g[c] + G[s \ {c}]
    BY IterRemove
  <2>3. /\ F[s \ {c}] <= G[s \ {c}] /\ f[c] <= g[c]
        /\ F[s \ {c}] \in Int /\ G[s \ {c}] \in Int
        /\ f[c] \in Int /\ g[c] \in Int
    BY <1>0, <1>2
  <2> HIDE DEF F, G
  <2>4. F[s] <= G[s]
    BY <2>21, <2>22, <2>3
  <2> QED
    BY <2>4
<1>3. SUBSET S \subseteq Good
  <2> HIDE DEF Good
  <2> QED
    BY <1>1, <1>2, SubsetSteps
<1> QED
  BY <1>3, SumIsIter DEF SumFunction

\* Nothing owed to anyone is nothing owed.
LEMMA SumZero ==
    ASSUME NEW S, IsFiniteSet(S), NEW f \in [S -> Int], \A x \in S : f[x] = 0
    PROVE  SumFunction(f) = 0
<1> DEFINE F    == Iter(f, S)
           Good == {s \in SUBSET S : F[s] = 0}
<1>1. {} \in Good
  BY IterParts
<1>2. ASSUME NEW s \in SUBSET S, s # {}, \A x \in s : s \ {x} \in Good
      PROVE  s \in Good
  <2>1. PICK c \in s : F[s] = f[c] + F[s \ {c}]
    BY <1>2, IterParts
  <2>2. F[s \ {c}] = 0 /\ f[c] = 0
    BY <1>2
  <2> QED
    BY <2>1, <2>2
<1>3. SUBSET S \subseteq Good
  <2> HIDE DEF Good
  <2> QED
    BY <1>1, <1>2, SubsetSteps
<1> QED
  BY <1>3, SumIsIter DEF SumFunction

\* Sums of natural numbers are natural numbers.
LEMMA IterNat ==
    ASSUME NEW S, IsFiniteSet(S), NEW f \in [S -> Nat]
    PROVE  \A s \in SUBSET S : Iter(f, S)[s] \in Nat
<1> DEFINE Good == {s \in SUBSET S : Iter(f, S)[s] \in Nat}
<1>1. {} \in Good
  BY IterParts
<1>2. ASSUME NEW s \in SUBSET S, s # {}, \A x \in s : s \ {x} \in Good
      PROVE  s \in Good
  <2>1. PICK c \in s : Iter(f, S)[s] = f[c] + Iter(f, S)[s \ {c}]
    BY <1>2, IterParts
  <2>2. Iter(f, S)[s \ {c}] \in Nat /\ f[c] \in Nat
    BY <1>2
  <2> QED
    BY <2>1, <2>2
<1>3. SUBSET S \subseteq Good
  <2> HIDE DEF Good
  <2> QED
    BY <1>1, <1>2, SubsetSteps
<1> QED
  BY <1>3

\* The sum of natural amounts is natural, and at least each of them.
LEMMA SumNat ==
    ASSUME NEW S, IsFiniteSet(S), NEW f \in [S -> Nat]
    PROVE  /\ SumFunction(f) \in Nat
           /\ \A x \in S : f[x] <= SumFunction(f)
<1> DEFINE F == Iter(f, S)
<1>1. f \in [S -> Int]
  OBVIOUS
<1>2. SumFunction(f) = F[S] /\ F[S] \in Nat
  BY SumIsIter, IterNat DEF SumFunction
<1>3. ASSUME NEW x \in S
      PROVE  f[x] <= F[S]
  <2>1. F[S] = f[x] + F[S \ {x}]
    BY <1>1, IterRemove
  <2>2. F[S \ {x}] \in Nat /\ f[x] \in Nat
    BY IterNat
  <2> HIDE DEF F
  <2> QED
    BY <2>1, <2>2
<1> QED
  BY <1>2, <1>3

\* Changing one amount changes the sum by the difference.
LEMMA SumUpdate ==
    ASSUME NEW S, IsFiniteSet(S), NEW f \in [S -> Int], NEW g \in [S -> Int],
           NEW x \in S, \A y \in S : y # x => g[y] = f[y]
    PROVE  SumFunction(g) = SumFunction(f) - f[x] + g[x]
<1> DEFINE F == Iter(f, S)
           G == Iter(g, S)
<1>1. SumFunction(f) = F[S] /\ SumFunction(g) = G[S]
  BY SumIsIter DEF SumFunction
<1>21. F[S] = f[x] + F[S \ {x}]
  BY IterRemove
<1>22. G[S] = g[x] + G[S \ {x}]
  BY IterRemove
<1>3. F[S \ {x}] = G[S \ {x}]
  BY IterAgree
<1>4. f[x] \in Int /\ g[x] \in Int /\ F[S \ {x}] \in Int
  BY IterInt
<1> HIDE DEF F, G
<1> QED
  BY <1>1, <1>21, <1>22, <1>3, <1>4

\* Amounts that are sums add up to the sum of their sums.
LEMMA SumAdd ==
    ASSUME NEW S, IsFiniteSet(S), NEW f \in [S -> Int], NEW g \in [S -> Int],
           NEW h \in [S -> Int], \A x \in S : h[x] = f[x] + g[x]
    PROVE  SumFunction(h) = SumFunction(f) + SumFunction(g)
<1> DEFINE F    == Iter(f, S)
           G    == Iter(g, S)
           H    == Iter(h, S)
           Good == {s \in SUBSET S : H[s] = F[s] + G[s]}
<1>0. \A s \in SUBSET S : F[s] \in Int /\ G[s] \in Int /\ H[s] \in Int
  BY IterInt
<1>1. {} \in Good
  BY IterParts
<1>2. ASSUME NEW s \in SUBSET S, s # {}, \A x \in s : s \ {x} \in Good
      PROVE  s \in Good
  <2>1. PICK c \in s : TRUE
    BY <1>2
  <2>21. F[s] = f[c] + F[s \ {c}]
    BY IterRemove
  <2>22. G[s] = g[c] + G[s \ {c}]
    BY IterRemove
  <2>23. H[s] = h[c] + H[s \ {c}]
    BY IterRemove
  <2>3. /\ H[s \ {c}] = F[s \ {c}] + G[s \ {c}] /\ h[c] = f[c] + g[c]
        /\ F[s \ {c}] \in Int /\ G[s \ {c}] \in Int
        /\ f[c] \in Int /\ g[c] \in Int
    BY <1>0, <1>2
  <2> HIDE DEF F, G, H
  <2>4. H[s] = F[s] + G[s]
    BY <2>21, <2>22, <2>23, <2>3
  <2> QED
    BY <2>4
<1>3. SUBSET S \subseteq Good
  <2> HIDE DEF Good
  <2> QED
    BY <1>1, <1>2, SubsetSteps
<1> QED
  BY <1>3, SumIsIter DEF SumFunction

\* The parts of a sum over disjoint sets add up.
LEMMA IterDisjoint ==
    ASSUME NEW S, IsFiniteSet(S), NEW f \in [S -> Int]
    PROVE  \A A \in SUBSET S, B \in SUBSET S : A \cap B = {} =>
             Iter(f, S)[A \cup B] = Iter(f, S)[A] + Iter(f, S)[B]
<1> TAKE A \in SUBSET S, B \in SUBSET S
<1> HAVE A \cap B = {}
<1> DEFINE I    == Iter(f, S)
           Good == {s \in SUBSET B : I[A \cup s] = I[A] + I[s]}
<1>0. IsFiniteSet(B) /\ \A s \in SUBSET S : I[s] \in Int
  BY FS_Subset, IterInt
<1>1. {} \in Good
  <2>1. I[{}] = 0 /\ A \cup {} = A /\ I[A] \in Int
    BY <1>0, IterParts
  <2> HIDE DEF I
  <2>2. I[A \cup {}] = I[A] + I[{}]
    BY <2>1
  <2> QED
    BY <2>2
<1>2. ASSUME NEW s \in SUBSET B, s # {}, \A x \in s : s \ {x} \in Good
      PROVE  s \in Good
  <2>1. PICK c \in s : TRUE
    BY <1>2
  <2>2. \A t \in SUBSET S : \A y \in t : I[t] = f[y] + I[t \ {y}]
    BY IterRemove
  <2>3. /\ s \in SUBSET S /\ A \cup s \in SUBSET S /\ c \in A \cup s
        /\ (A \cup s) \ {c} = A \cup (s \ {c})
    BY <2>1
  <2>4. I[s] = f[c] + I[s \ {c}] /\ I[A \cup s] = f[c] + I[(A \cup s) \ {c}]
    <3> HIDE DEF I
    <3> QED
      BY <2>1, <2>2, <2>3
  <2>5. I[A \cup (s \ {c})] = I[A] + I[s \ {c}]
    BY <1>2, <2>1
  <2>6. f[c] \in Int /\ I[A] \in Int /\ I[s \ {c}] \in Int
    BY <1>0, <2>3
  <2>7. I[(A \cup s) \ {c}] = I[A \cup (s \ {c})]
    BY <2>3
  <2> HIDE DEF I
  <2>8. I[A \cup s] = f[c] + (I[A] + I[s \ {c}])
    BY <2>4, <2>5, <2>7
  <2>9. I[A \cup s] = I[A] + I[s]
    BY <2>4, <2>6, <2>8
  <2> QED
    BY <2>9
<1>3. SUBSET B \subseteq Good
  <2> HIDE DEF Good
  <2> QED
    BY <1>0, <1>1, <1>2, SubsetSteps
<1> QED
  BY <1>3

\* What is dealt out of f in disjoint parts, one to each of U, is in all at
\* most the sum of f.
LEMMA SumParts ==
    ASSUME NEW U, IsFiniteSet(U), NEW D, IsFiniteSet(D), NEW f \in [D -> Nat],
           NEW part \in [U -> SUBSET D],
           \A u, v \in U : u # v => part[u] \cap part[v] = {},
           NEW g \in [U -> Nat],
           \A u \in U : g[u] = SumFunction([i \in part[u] |-> f[i]])
    PROVE  SumFunction(g) <= SumFunction(f)
<1> DEFINE F        == Iter(f, D)
           G        == Iter(g, U)
           dealt(s) == UNION {part[u] : u \in s}
           Good     == {s \in SUBSET U : G[s] = F[dealt(s)]}
<1>0. f \in [D -> Int] /\ g \in [U -> Int]
  OBVIOUS
<1>1. \A s \in SUBSET U : G[s] \in Int /\ dealt(s) \in SUBSET D
  BY <1>0, IterInt
<1>2. \A u \in U : g[u] = F[part[u]]
  <2> TAKE u \in U
  <2> DEFINE h == [i \in part[u] |-> f[i]]
  <2>1. h \in [part[u] -> Int] /\ IsFiniteSet(part[u]) /\ part[u] \subseteq D
    BY FS_Subset
  <2>2. SumFunction(h) = Iter(h, part[u])[part[u]]
    BY SumIsIter DEF SumFunction
  <2>3. Iter(h, part[u])[part[u]] = F[part[u]]
    BY <1>0, <2>1, IterAgree
  <2> QED
    BY <2>2, <2>3
<1>3. {} \in Good
  <2>1. dealt({}) = {} /\ F[{}] = 0 /\ G[{}] = 0
    BY IterParts
  <2> HIDE DEF F, G, dealt
  <2> QED
    BY <2>1
<1>4. ASSUME NEW s \in SUBSET U, s # {}, \A x \in s : s \ {x} \in Good
      PROVE  s \in Good
  <2>1. PICK c \in s : TRUE
    BY <1>4
  <2>2. G[s] = g[c] + G[s \ {c}]
    BY <1>0, IterRemove
  <2>3. G[s \ {c}] = F[dealt(s \ {c})]
    BY <1>4, <2>1
  <2>4. /\ dealt(s) = part[c] \cup dealt(s \ {c})
        /\ part[c] \cap dealt(s \ {c}) = {}
    OBVIOUS
  <2>5. F[dealt(s)] = F[part[c]] + F[dealt(s \ {c})]
    <3>1. part[c] \subseteq D /\ dealt(s \ {c}) \subseteq D
      BY <1>1
    <3>2. F[part[c] \cup dealt(s \ {c})] = F[part[c]] + F[dealt(s \ {c})]
      <4>1. \A A \in SUBSET D, B \in SUBSET D :
              A \cap B = {} => F[A \cup B] = F[A] + F[B]
        BY <1>0, IterDisjoint
      <4> HIDE DEF F, dealt
      <4> QED
        BY <2>4, <3>1, <4>1
    <3> QED
      BY <2>4, <3>2
  <2> HIDE DEF F, G, dealt
  <2>6. G[s] = F[dealt(s)]
    BY <1>2, <2>1, <2>2, <2>3, <2>5
  <2> QED
    BY <2>6
<1>5. SUBSET U \subseteq Good
  <2> HIDE DEF Good
  <2> QED
    BY <1>3, <1>4, SubsetSteps
<1>6. SumFunction(g) = F[dealt(U)]
  BY <1>5, SumIsIter DEF SumFunction
<1>7. F[D] = F[dealt(U)] + F[D \ dealt(U)]
  <2>1. dealt(U) \subseteq D /\ D \ dealt(U) \subseteq D /\ dealt(U) \cup (D \ dealt(U)) = D
        /\ dealt(U) \cap (D \ dealt(U)) = {}
    BY <1>1
  <2>2. F[dealt(U) \cup (D \ dealt(U))] = F[dealt(U)] + F[D \ dealt(U)]
    <3>1. \A A \in SUBSET D, B \in SUBSET D :
            A \cap B = {} => F[A \cup B] = F[A] + F[B]
      BY <1>0, IterDisjoint
    <3> HIDE DEF F, dealt
    <3> QED
      BY <2>1, <3>1
  <2> QED
    BY <2>1, <2>2
<1>8. F[D \ dealt(U)] >= 0 /\ F[D \ dealt(U)] \in Int /\ F[dealt(U)] \in Int
  <2>1. D \ dealt(U) \in SUBSET D /\ dealt(U) \in SUBSET D
    BY <1>1
  <2> HIDE DEF dealt
  <2> QED
    BY <1>0, <2>1, IterInt, IterNat
<1>9. SumFunction(f) = F[D]
  BY SumIsIter DEF SumFunction
<1> HIDE DEF F, dealt
<1> QED
  BY <1>6, <1>7, <1>8, <1>9

\* A bound on each amount, as a fraction, bounds their sum.
LEMMA SumScaled ==
    ASSUME NEW S, IsFiniteSet(S), NEW f \in [S -> Int], NEW p \in [S -> Int],
           NEW c \in Int, NEW d \in Int, \A x \in S : f[x] * d <= c * p[x]
    PROVE  SumFunction(f) * d <= c * SumFunction(p)
<1> DEFINE F    == Iter(f, S)
           P    == Iter(p, S)
           Good == {s \in SUBSET S : F[s] * d <= c * P[s]}
<1>0. \A s \in SUBSET S : F[s] \in Int /\ P[s] \in Int
  BY IterInt
<1>21. \A s \in SUBSET S : \A y \in s : F[s] = f[y] + F[s \ {y}]
  BY IterRemove
<1>22. \A s \in SUBSET S : \A y \in s : P[s] = p[y] + P[s \ {y}]
  BY IterRemove
<1>1. {} \in Good
  <2>1. F[{}] = 0 /\ P[{}] = 0
    BY IterParts
  <2> HIDE DEF F, P
  <2>2. F[{}] * d <= c * P[{}]
    BY <2>1
  <2> QED
    BY <2>2
<1>2. ASSUME NEW s \in SUBSET S, s # {}, \A x \in s : s \ {x} \in Good
      PROVE  s \in Good
  <2>1. PICK e \in s : TRUE
    BY <1>2
  <2>2. F[s] = f[e] + F[s \ {e}]
    BY <1>21
  <2>3. P[s] = p[e] + P[s \ {e}]
    BY <1>22
  <2>4. /\ F[s \ {e}] * d <= c * P[s \ {e}] /\ f[e] * d <= c * p[e]
        /\ F[s \ {e}] \in Int /\ P[s \ {e}] \in Int
        /\ f[e] \in Int /\ p[e] \in Int
    BY <1>0, <1>2
  <2>5. \A a, b, x, y \in Int : a * d <= c * x /\ b * d <= c * y => (a + b) * d <= c * (x + y)
    OBVIOUS
  <2> HIDE DEF F, P
  <2>6. F[s] * d <= c * P[s]
    BY <2>2, <2>3, <2>4, <2>5
  <2> QED
    BY <2>6
<1>3. SUBSET S \subseteq Good
  <2> HIDE DEF Good
  <2> QED
    BY <1>1, <1>2, SubsetSteps
<1> QED
  BY <1>3, SumIsIter DEF SumFunction

\* The sum of two amounts.
LEMMA SumPair ==
    ASSUME NEW f \in [{1, 2} -> Int]
    PROVE  SumFunction(f) = f[1] + f[2]
<1> DEFINE S == {1, 2}
           F == Iter(f, S)
<1>0. IsFiniteSet(S)
  <2>1. IsFiniteSet({1}) /\ S = {1} \cup {2}
    BY FS_Singleton
  <2> QED
    BY <2>1, FS_AddElement
<1>1. f \in [S -> Int] /\ {2} \in SUBSET S /\ S \in SUBSET S
  OBVIOUS
<1>2. S \ {1} = {2} /\ {2} \ {2} = {} /\ 1 \in S /\ f[1] \in Int /\ f[2] \in Int
  OBVIOUS
<1>3. SumFunction(f) = F[S]
  BY SumIsIter DEF SumFunction
<1> HIDE DEF S
<1>4. \A s \in SUBSET S : \A y \in s : F[s] = f[y] + F[s \ {y}]
  BY <1>0, <1>1, IterRemove
<1>5. F[{}] = 0
  BY <1>0, IterParts
<1> HIDE DEF F
<1>6. F[S] = f[1] + F[{2}] /\ F[{2}] = f[2] + F[{}]
  BY <1>1, <1>2, <1>4
<1> QED
  BY <1>2, <1>3, <1>5, <1>6
=============================================================================
