----------------------------- MODULE SumTheorems ------------------------------
(***************************************************************************)
(* Sums over finite sets: what the statistics of the components add up to. *)
(* The folds of the specifications are recursive functions; here they are  *)
(* shown to have a value, and not to depend on the order in which a fold   *)
(* picks the elements.  The inductions rest on the minimal elements of     *)
(* well-founded relations, WFMin.                                          *)
(***************************************************************************)
EXTENDS Integers, FiniteSets, FiniteSetsExt, FiniteSetTheorems, TLAPS

\* Induction on the natural numbers, for a set of them.
LEMMA NatSet ==
    ASSUME NEW S, 0 \in S, \A n \in Nat : n \in S => n+1 \in S
    PROVE  Nat \subseteq S
<1> DEFINE R == OpToRel(<, Nat)
           T == Nat \ S
<1>1. \A x, y \in Nat : x < y => <<x, y>> \in R
  BY DEF OpToRel
<1>2. IsWellFoundedOn(R, Nat)
  BY NatLessThanWellFounded
<1> SUFFICES ASSUME T # {} PROVE FALSE
  OBVIOUS
<1> HIDE DEF R, T
<1>3. T \subseteq Nat /\ T # {}
  BY DEF T
<1>4. PICK x \in T : \A y \in T : ~ (<<y, x>> \in R)
  BY <1>2, <1>3, WFMin
<1>5. x \in Nat /\ x # 0 /\ x - 1 \in Nat /\ x - 1 < x
  BY <1>4 DEF T
<1>6. x-1 \in S
  BY <1>1, <1>4, <1>5 DEF T
<1>7. (x-1)+1 \in S
  BY <1>5, <1>6
<1>8. x \in S
  BY <1>5, <1>7
<1> QED
  BY <1>4, <1>8 DEF T

\* Recursion on the natural numbers: step by step from a, as often as n says.
LEMMA NatRecursion ==
    ASSUME NEW a, NEW step
    PROVE  \E f : f[0] = a /\ \A n \in Nat : f[n+1] = step[f[n]]
<1> DEFINE Upto(g, n) == \A m \in 0 .. n : g[m] = IF m = 0 THEN a ELSE step[g[m-1]]
           C == {n \in Nat : \E g : Upto(g, n)}
<1>1. 0 \in C
  <2>1. Upto([m \in Nat |-> a], 0)
    OBVIOUS
  <2> QED
    BY <2>1
<1>2. ASSUME NEW n \in Nat, n \in C PROVE n+1 \in C
  <2>1. PICK g : Upto(g, n)
    BY <1>2
  <2> DEFINE h == [m \in Nat |-> IF m <= n THEN g[m] ELSE step[g[n]]]
  <2>2. ASSUME NEW m \in 0 .. n+1
        PROVE  h[m] = IF m = 0 THEN a ELSE step[h[m-1]]
    <3>1. CASE m = 0
      BY <2>1, <3>1
    <3>2. CASE m # 0 /\ m <= n
      <4>1. m \in 0 .. n /\ m-1 \in Nat /\ m-1 <= n
        BY <3>2
      <4>2. g[m] = step[g[m-1]]
        BY <2>1, <3>2, <4>1
      <4> QED
        BY <3>2, <4>1, <4>2
    <3>3. CASE m = n+1
      BY <3>3
    <3> QED
      BY <3>1, <3>2, <3>3
  <2>3. Upto(h, n+1)
    BY <2>2
  <2> HIDE DEF h
  <2> QED
    BY <2>3
<1>3. ASSUME NEW n \in Nat, NEW g, Upto(g, n), NEW h, Upto(h, n)
      PROVE  g[n] = h[n]
  <2> DEFINE D == {m \in Nat : m <= n => g[m] = h[m]}
  <2>1. 0 \in D
    BY <1>3
  <2>2. ASSUME NEW m \in Nat, m \in D PROVE m+1 \in D
    <3> SUFFICES ASSUME m+1 <= n PROVE g[m+1] = h[m+1]
      OBVIOUS
    <3>1. g[m] = h[m] /\ m+1 \in 0 .. n /\ (m+1)-1 = m /\ m+1 # 0
      BY <2>2
    <3>2. g[m+1] = step[g[m]] /\ h[m+1] = step[h[m]]
      BY <1>3, <3>1
    <3> QED
      BY <3>1, <3>2
  <2> HIDE DEF D
  <2>3. Nat \subseteq D
    BY <2>1, <2>2, NatSet
  <2> QED
    BY <2>3 DEF D
<1> HIDE DEF C
<1>4. Nat \subseteq C
  BY <1>1, <1>2, NatSet
<1> DEFINE G(n) == CHOOSE g : Upto(g, n)
           f == [n \in Nat |-> G(n)[n]]
<1>5. \A n \in Nat : Upto(G(n), n)
  BY <1>4 DEF C
<1> HIDE DEF G
<1>6. ASSUME NEW n \in Nat PROVE f[n] = IF n = 0 THEN a ELSE step[f[n-1]]
  <2>1. G(n)[n] = IF n = 0 THEN a ELSE step[G(n)[n-1]]
    BY <1>5
  <2>2. CASE n # 0
    <3>1. n-1 \in Nat /\ \A m \in 0 .. n-1 : m \in 0 .. n
      BY <2>2
    <3>2. Upto(G(n), n-1) /\ Upto(G(n-1), n-1)
      BY <1>5, <3>1
    <3>3. G(n)[n-1] = G(n-1)[n-1]
      BY <1>3, <3>1, <3>2
    <3> QED
      BY <2>1, <2>2, <3>1, <3>3
  <2> QED
    BY <2>1, <2>2
<1>7. f[0] = a
  BY <1>6
<1>8. ASSUME NEW n \in Nat PROVE f[n+1] = step[f[n]]
  <2>1. n+1 \in Nat /\ n+1 # 0 /\ (n+1)-1 = n
    OBVIOUS
  <2> HIDE DEF f
  <2> QED
    BY <1>6, <2>1
<1> QED
  BY <1>7, <1>8

\* Induction on the subsets of a finite set, for a set of them.
LEMMA FiniteSet ==
    ASSUME NEW S, IsFiniteSet(S), NEW F, {} \in F,
           \A T \in SUBSET S : T # {} /\ (\A x \in T : T \ {x} \in F) => T \in F
    PROVE  SUBSET S \subseteq F
<1> DEFINE C == {n \in Nat : \A T \in SUBSET S : Cardinality(T) = n => T \in F}
<1>1. \A T \in SUBSET S : IsFiniteSet(T) /\ Cardinality(T) \in Nat
  BY FS_Subset, FS_CardinalityType
<1>2. 0 \in C
  BY <1>1, FS_EmptySet
<1>3. ASSUME NEW n \in Nat, n \in C PROVE n+1 \in C
  <2> SUFFICES ASSUME NEW T \in SUBSET S, Cardinality(T) = n+1 PROVE T \in F
    OBVIOUS
  <2>1. CASE T = {}
    BY <2>1
  <2>2. CASE T # {}
    <3>1. \A x \in T : Cardinality(T \ {x}) = n /\ T \ {x} \in SUBSET S
      BY <1>1, FS_RemoveElement
    <3>2. \A x \in T : T \ {x} \in F
      BY <1>3, <3>1
    <3> QED
      BY <2>2, <3>2
  <2> QED
    BY <2>1, <2>2
<1> HIDE DEF C
<1>4. Nat \subseteq C
  BY <1>2, <1>3, NatSet
<1> QED
  BY <1>1, <1>4 DEF C

-------------------------------------------------------------------------------
(* The sums of the numbers w[x], for x in each subset of S. *)

\* The element a fold takes next.
Pick(s) == CHOOSE x \in s : TRUE

IsSum(g, w, S) ==
    g = [s \in SUBSET S |->
            IF s = {} THEN 0 ELSE w[Pick(s)] + g[s \ {Pick(s)}]]

Sum(w, S) == (CHOOSE g : IsSum(g, w, S))[S]

\* A nonempty set has an element to take.
LEMMA PickIn == ASSUME NEW s, s # {} PROVE Pick(s) \in s
  BY DEF Pick

\* The recursion has a solution.
LEMMA SumExists ==
    ASSUME NEW S, IsFiniteSet(S), NEW w
    PROVE  \E g : IsSum(g, w, S)
<1> DEFINE Next(g, s) == IF s = {} THEN 0 ELSE w[Pick(s)] + g[s \ {Pick(s)}]
           Upto(g, n) == \A s \in SUBSET S : Cardinality(s) <= n => g[s] = Next(g, s)
           C == {n \in Nat : \E g : Upto(g, n)}
<1>1. \A s \in SUBSET S : IsFiniteSet(s) /\ Cardinality(s) \in Nat
  BY FS_Subset, FS_CardinalityType
<1>2. 0 \in C
  <2> DEFINE g == [s \in SUBSET S |-> 0]
  <2>1. \A s \in SUBSET S : Cardinality(s) <= 0 => s = {}
    BY <1>1, FS_EmptySet
  <2>2. Upto(g, 0)
    BY <2>1
  <2> QED
    BY <2>2
<1>3. ASSUME NEW n \in Nat, n \in C PROVE n+1 \in C
  <2>1. PICK g : Upto(g, n)
    BY <1>3
  <2> DEFINE h == [s \in SUBSET S |-> Next(g, s)]
  <2>2. ASSUME NEW s \in SUBSET S, Cardinality(s) <= n+1, s # {}
        PROVE  h[s] = Next(h, s)
    <3> DEFINE t == s \ {Pick(s)}
    <3>1. t \in SUBSET S /\ Cardinality(t) <= n
      <4>1. Cardinality(t) = Cardinality(s) - 1
        BY <1>1, <2>2, PickIn, FS_RemoveElement
      <4> QED
        BY <1>1, <2>2, <4>1
    <3>2. g[t] = Next(g, t)
      BY <2>1, <3>1
    <3>3. h[t] = Next(g, t) /\ h[s] = Next(g, s)
      BY <3>1
    <3> QED
      BY <2>2, <3>2, <3>3
  <2>3. \A s \in SUBSET S : s = {} => h[s] = Next(h, s)
    OBVIOUS
  <2> HIDE DEF h, Next
  <2>4. Upto(h, n+1)
    BY <2>2, <2>3
  <2> QED
    BY <2>4
<1> HIDE DEF C
<1>4. Cardinality(S) \in C
  BY <1>1, <1>2, <1>3, NatSet
<1>5. PICK g : Upto(g, Cardinality(S))
  BY <1>4 DEF C
<1>6. \A s \in SUBSET S : Cardinality(s) <= Cardinality(S)
  BY FS_Subset
<1> DEFINE h == [s \in SUBSET S |-> g[s]]
<1>7. ASSUME NEW s \in SUBSET S PROVE h[s] = Next(h, s)
  <2>1. s \ {Pick(s)} \in SUBSET S
    OBVIOUS
  <2> QED
    BY <1>5, <1>6, <2>1
<1>8. h = [s \in SUBSET S |-> Next(h, s)]
  BY <1>7
<1>9. IsSum(h, w, S)
  BY <1>8 DEF IsSum
<1> QED
  BY <1>9

\* Two solutions over sets of their own agree where they sum the same numbers.
LEMMA SumUnique ==
    ASSUME NEW S, NEW g, NEW w, IsSum(g, w, S),
           NEW U, NEW h, NEW v, IsSum(h, v, U),
           NEW T, IsFiniteSet(T), T \subseteq S, T \subseteq U,
           \A x \in T : w[x] = v[x]
    PROVE  g[T] = h[T]
<1> DEFINE F == {s \in SUBSET T : g[s] = h[s]}
<1>1. \A s \in SUBSET T : /\ g[s] = IF s = {} THEN 0 ELSE w[Pick(s)] + g[s \ {Pick(s)}]
                          /\ h[s] = IF s = {} THEN 0 ELSE v[Pick(s)] + h[s \ {Pick(s)}]
  BY DEF IsSum
<1>2. {} \in F
  BY <1>1
<1>3. ASSUME NEW s \in SUBSET T, s # {}, \A x \in s : s \ {x} \in F
      PROVE  s \in F
  <2>1. Pick(s) \in s /\ Pick(s) \in T
    BY <1>3, PickIn
  <2> QED
    BY <1>1, <1>3, <2>1
<1> HIDE DEF F
<1>4. SUBSET T \subseteq F
  BY <1>2, <1>3, FiniteSet
<1> QED
  BY <1>4 DEF F

\* Sums of integers are integers, of natural numbers natural numbers.
LEMMA SumRange ==
    ASSUME NEW S, IsFiniteSet(S), NEW w, NEW g, IsSum(g, w, S),
           \A x \in S : w[x] \in Int
    PROVE  /\ \A T \in SUBSET S : g[T] \in Int
           /\ (\A x \in S : w[x] \in Nat) => \A T \in SUBSET S : g[T] \in Nat
<1>1. /\ g[{}] = 0
      /\ \A s \in SUBSET S : s # {} => g[s] = w[Pick(s)] + g[s \ {Pick(s)}]
  BY DEF IsSum
<1>2. ASSUME NEW N, N = Int \/ N = Nat, \A x \in S : w[x] \in N
      PROVE  \A T \in SUBSET S : g[T] \in N
  <2> DEFINE F == {s \in SUBSET S : g[s] \in N}
  <2>1. {} \in F
    BY <1>1, <1>2
  <2>2. ASSUME NEW s \in SUBSET S, s # {}, \A x \in s : s \ {x} \in F PROVE s \in F
    <3>1. Pick(s) \in s
      BY <2>2, PickIn
    <3>2. w[Pick(s)] \in N /\ g[s \ {Pick(s)}] \in N
      BY <1>2, <2>2, <3>1
    <3>3. \A a, b \in N : a + b \in N
      <4>1. CASE N = Int
        BY <4>1
      <4>2. CASE N = Nat
        BY <4>2
      <4> QED
        BY <1>2, <4>1, <4>2
    <3>4. g[s] = w[Pick(s)] + g[s \ {Pick(s)}]
      BY <1>1, <2>2
    <3> QED
      BY <3>2, <3>3, <3>4
  <2> HIDE DEF F
  <2>3. SUBSET S \subseteq F
    BY <2>1, <2>2, FiniteSet
  <2> QED
    BY <2>3 DEF F
<1> QED
  BY <1>2

\* Any element may be taken first.
LEMMA SumTake ==
    ASSUME NEW S, IsFiniteSet(S), NEW w, NEW g, IsSum(g, w, S),
           \A x \in S : w[x] \in Int
    PROVE  \A T \in SUBSET S : \A x \in T : g[T] = w[x] + g[T \ {x}]
<1> DEFINE F == {s \in SUBSET S : \A x \in s : g[s] = w[x] + g[s \ {x}]}
<1>1. \A s \in SUBSET S : s # {} => g[s] = w[Pick(s)] + g[s \ {Pick(s)}]
  BY DEF IsSum
<1>2. \A s \in SUBSET S : g[s] \in Int
  BY SumRange
<1>3. {} \in F
  OBVIOUS
<1>4. ASSUME NEW s \in SUBSET S, s # {}, \A x \in s : s \ {x} \in F
      PROVE  s \in F
  <2> DEFINE p == Pick(s)
  <2>1. p \in s /\ g[s] = w[p] + g[s \ {p}]
    BY <1>1, <1>4, PickIn
  <2> HIDE DEF p
  <2>2. ASSUME NEW x \in s, x # p PROVE g[s] = w[x] + g[s \ {x}]
    <3> DEFINE r == s \ {p, x}
    <3>1. r \in SUBSET S /\ (s \ {p}) \ {x} = r /\ (s \ {x}) \ {p} = r
      OBVIOUS
    <3>2. x \in s \ {p} /\ p \in s \ {x} /\ s \ {p} \in F /\ s \ {x} \in F
      BY <1>4, <2>1, <2>2
    <3>3. g[s \ {p}] = w[x] + g[r] /\ g[s \ {x}] = w[p] + g[r]
      BY <3>1, <3>2
    <3> HIDE DEF r
    <3>4. g[r] \in Int /\ w[x] \in Int /\ w[p] \in Int
      BY <1>2, <2>1, <3>1
    <3> QED
      BY <2>1, <3>3, <3>4
  <2> QED
    BY <2>1, <2>2
<1> HIDE DEF F
<1>5. SUBSET S \subseteq F
  BY <1>3, <1>4, FiniteSet
<1> QED
  BY <1>5 DEF F

\* The solution of the recursion that Sum stands for.
LEMMA SumIs ==
    ASSUME NEW S, IsFiniteSet(S), NEW w
    PROVE  IsSum(CHOOSE g : IsSum(g, w, S), w, S)
  BY SumExists

\* The type of a sum.
LEMMA SumType ==
    ASSUME NEW S, IsFiniteSet(S), NEW w, \A x \in S : w[x] \in Int
    PROVE  /\ Sum(w, S) \in Int
           /\ (\A x \in S : w[x] \in Nat) => Sum(w, S) \in Nat
  BY SumIs, SumRange DEF Sum

\* A sum depends on its numbers only.
LEMMA SumAgree ==
    ASSUME NEW S, IsFiniteSet(S), NEW w, NEW v, \A x \in S : w[x] = v[x]
    PROVE  Sum(w, S) = Sum(v, S)
  BY SumIs, SumUnique DEF Sum

\* The empty sum.
LEMMA SumEmpty == ASSUME NEW w PROVE Sum(w, {}) = 0
<1>1. IsSum(CHOOSE g : IsSum(g, w, {}), w, {})
  BY SumIs, FS_EmptySet
<1> QED
  BY <1>1 DEF Sum, IsSum

\* A number more.
LEMMA SumAdd ==
    ASSUME NEW S, IsFiniteSet(S), NEW x, x \notin S,
           NEW w, \A y \in S \cup {x} : w[y] \in Int
    PROVE  Sum(w, S \cup {x}) = w[x] + Sum(w, S)
<1> DEFINE U == S \cup {x}
           g == CHOOSE f : IsSum(f, w, U)
           h == CHOOSE f : IsSum(f, w, S)
<1>1. IsFiniteSet(U)
  BY FS_AddElement
<1>2. IsSum(g, w, U) /\ IsSum(h, w, S)
  BY <1>1, SumIs
<1>3. Sum(w, U) = g[U] /\ Sum(w, S) = h[S]
  BY DEF Sum
<1>4. U \ {x} = S /\ U \in SUBSET U /\ x \in U /\ S \subseteq U
  OBVIOUS
<1> HIDE DEF g, h, U
<1>5. g[U] = w[x] + g[S]
  <2>1. \A y \in U : w[y] \in Int
    BY DEF U
  <2> QED
    BY <1>1, <1>2, <1>4, <2>1, SumTake
<1>6. g[S] = h[S]
  BY <1>2, <1>4, SumUnique
<1> QED
  BY <1>3, <1>5, <1>6 DEF U

\* A number less.
LEMMA SumRemove ==
    ASSUME NEW S, IsFiniteSet(S), NEW x \in S, NEW w, \A y \in S : w[y] \in Int
    PROVE  Sum(w, S) = w[x] + Sum(w, S \ {x})
<1>1. IsFiniteSet(S \ {x}) /\ x \notin S \ {x} /\ (S \ {x}) \cup {x} = S
  BY FS_RemoveElement
<1> QED
  BY <1>1, SumAdd

\* One number replaced by another.
LEMMA SumReplace ==
    ASSUME NEW S, IsFiniteSet(S), NEW x \in S, NEW w, NEW v,
           \A y \in S : w[y] \in Int /\ v[y] \in Int,
           \A y \in S : y # x => w[y] = v[y]
    PROVE  Sum(v, S) = Sum(w, S) - w[x] + v[x]
<1>1. Sum(w, S) = w[x] + Sum(w, S \ {x}) /\ Sum(v, S) = v[x] + Sum(v, S \ {x})
  BY SumRemove
<1>2. IsFiniteSet(S \ {x})
  BY FS_RemoveElement
<1>3. Sum(w, S \ {x}) = Sum(v, S \ {x}) /\ Sum(w, S \ {x}) \in Int
  BY <1>2, SumAgree, SumType
<1> QED
  BY <1>1, <1>3

-------------------------------------------------------------------------------
(* Sums over sequences. *)

\* The sum over 1..n, shifted.
LEMMA SumShift ==
    ASSUME NEW n \in Nat, NEW w, NEW v,
           \A i \in 1 .. n : v[i] = w[i+1] /\ v[i] \in Int
    PROVE  Sum(v, 1 .. n) = Sum(w, 2 .. n+1)
<1> DEFINE C == {m \in Nat : m <= n => Sum(v, 1 .. m) = Sum(w, 2 .. m+1)}
<1>1. 0 \in C
  <2>1. 1 .. 0 = {} /\ 2 .. 0+1 = {}
    OBVIOUS
  <2>2. Sum(v, 1 .. 0) = Sum(w, 2 .. 0+1)
    BY <2>1, SumEmpty
  <2> QED
    BY <2>2
<1>2. ASSUME NEW m \in Nat, m \in C PROVE m+1 \in C
  <2> SUFFICES ASSUME m+1 <= n PROVE Sum(v, 1 .. m+1) = Sum(w, 2 .. (m+1)+1)
    OBVIOUS
  <2>1. 1 .. m+1 = (1 .. m) \cup {m+1} /\ 2 .. (m+1)+1 = (2 .. m+1) \cup {m+2}
    OBVIOUS
  <2>2. IsFiniteSet(1 .. m) /\ IsFiniteSet(2 .. m+1)
    BY FS_Interval
  <2>3. \A i \in (1 .. m) \cup {m+1} : v[i] \in Int
    OBVIOUS
  <2>4. \A i \in (2 .. m+1) \cup {m+2} : w[i] \in Int
    <3> SUFFICES ASSUME NEW i \in (2 .. m+1) \cup {m+2} PROVE w[i] \in Int
      OBVIOUS
    <3>1. i-1 \in 1 .. n /\ (i-1)+1 = i
      OBVIOUS
    <3> QED
      BY <3>1
  <2>5. m+1 \notin 1 .. m /\ m+2 \notin 2 .. m+1
    OBVIOUS
  <2>6. /\ Sum(v, (1 .. m) \cup {m+1}) = v[m+1] + Sum(v, 1 .. m)
        /\ Sum(w, (2 .. m+1) \cup {m+2}) = w[m+2] + Sum(w, 2 .. m+1)
    BY <2>2, <2>3, <2>4, <2>5, SumAdd
  <2>7. v[m+1] = w[m+2]
    <3>1. m+1 \in 1 .. n /\ (m+1)+1 = m+2
      OBVIOUS
    <3> QED
      BY <3>1
  <2>8. Sum(v, 1 .. m) = Sum(w, 2 .. m+1)
    BY <1>2
  <2> QED
    BY <2>1, <2>6, <2>7, <2>8
<1> HIDE DEF C
<1>3. n \in C
  BY <1>1, <1>2, NatSet
<1> QED
  BY <1>3 DEF C

-------------------------------------------------------------------------------
(* Sets of numbers, and unions. *)

\* A nonempty set of numbers between 1 and n has a largest and a smallest one.
LEMMA Extremes ==
    ASSUME NEW n \in Nat, NEW s \in SUBSET (1 .. n), s # {}
    PROVE  Max(s) \in s /\ Min(s) \in s
<1> DEFINE F == {t \in SUBSET (1 .. n) : t # {} =>
                    /\ \E x \in t : \A y \in t : x >= y
                    /\ \E x \in t : \A y \in t : x =< y}
<1>1. IsFiniteSet(1 .. n)
  BY FS_Interval
<1>2. {} \in F
  OBVIOUS
<1>3. ASSUME NEW t \in SUBSET (1 .. n), t # {}, \A x \in t : t \ {x} \in F
      PROVE  t \in F
  <2>1. PICK x \in t : TRUE
    BY <1>3
  <2>2. CASE t \ {x} = {}
    <3>1. x \in Nat /\ \A y \in t : y = x
      BY <2>1, <2>2
    <3> QED
      BY <2>1, <3>1
  <2>3. CASE t \ {x} # {}
    <3>1. PICK z \in t \ {x} : \A y \in t \ {x} : z >= y
      BY <1>3, <2>1, <2>3
    <3>2. PICK u \in t \ {x} : \A y \in t \ {x} : u =< y
      BY <1>3, <2>1, <2>3
    <3>3. x \in Nat /\ z \in Nat /\ u \in Nat
      BY <2>1, <3>1, <3>2
    <3>4. \E v \in t : \A y \in t : v >= y
      <4>1. CASE x >= z
        <5>1. \A y \in t : x >= y
          BY <3>1, <3>3, <4>1
        <5> QED
          BY <5>1
      <4>2. CASE ~ (x >= z)
        <5>1. \A y \in t : z >= y
          BY <3>1, <3>3, <4>2
        <5> QED
          BY <5>1
      <4> QED
        BY <4>1, <4>2
    <3>5. \E v \in t : \A y \in t : v =< y
      <4>1. CASE x =< u
        <5>1. \A y \in t : x =< y
          BY <3>2, <3>3, <4>1
        <5> QED
          BY <5>1
      <4>2. CASE ~ (x =< u)
        <5>1. \A y \in t : u =< y
          BY <3>2, <3>3, <4>2
        <5> QED
          BY <5>1
      <4> QED
        BY <4>1, <4>2
    <3> QED
      BY <3>4, <3>5
  <2> QED
    BY <2>2, <2>3
<1> DEFINE S == 1 .. n
<1>4. SUBSET S \subseteq F
  <2>1. /\ IsFiniteSet(S) /\ {} \in F
        /\ \A t \in SUBSET S : t # {} /\ (\A x \in t : t \ {x} \in F) => t \in F
    BY <1>1, <1>2, <1>3
  <2> HIDE DEF F, S
  <2> QED
    BY <2>1, FiniteSet
<1>5. (\E x \in s : \A y \in s : x >= y) /\ (\E x \in s : \A y \in s : x =< y)
  BY <1>4
<1> QED
  BY <1>5 DEF Max, Min

\* Finite sets that are disjoint have as many elements together as the sum of
\* their numbers.
LEMMA UnionCount ==
    ASSUME NEW S, IsFiniteSet(S), NEW B, NEW w,
           \A x \in S : /\ IsFiniteSet(B[x]) /\ w[x] \in Int
                        /\ Cardinality(B[x]) = w[x],
           \A x, y \in S : x # y => B[x] \cap B[y] = {}
    PROVE  /\ IsFiniteSet(UNION {B[x] : x \in S})
           /\ Cardinality(UNION {B[x] : x \in S}) = Sum(w, S)
<1> DEFINE U(s) == UNION {B[x] : x \in s}
           F == {s \in SUBSET S : IsFiniteSet(U(s)) /\ Cardinality(U(s)) = Sum(w, s)}
<1>1. {} \in F
  <2>1. U({}) = {}
    OBVIOUS
  <2> QED
    BY <2>1, FS_EmptySet, SumEmpty
<1>2. ASSUME NEW s \in SUBSET S, s # {}, \A x \in s : s \ {x} \in F PROVE s \in F
  <2>1. PICK x \in s : TRUE
    BY <1>2
  <2> DEFINE r == s \ {x}
  <2>2. r \in F /\ r \in SUBSET S /\ x \in S
    BY <1>2, <2>1
  <2>3. U(s) = U(r) \cup B[x]
    BY <2>1
  <2>4. U(r) \cap B[x] = {}
    BY <2>2
  <2>5. IsFiniteSet(U(r)) /\ Cardinality(U(r)) = Sum(w, r)
    BY <2>2
  <2>6. IsFiniteSet(s) /\ \A y \in s : w[y] \in Int
    BY <1>2, FS_Subset
  <2>7. Sum(w, s) = w[x] + Sum(w, r)
    BY <2>1, <2>6, SumRemove
  <2>8. Sum(w, r) \in Int
    BY <2>6, FS_RemoveElement, SumType
  <2> HIDE DEF r, U
  <2>9. /\ IsFiniteSet(U(r) \cup B[x])
        /\ Cardinality(U(r) \cup B[x])
             = Cardinality(U(r)) + Cardinality(B[x]) - Cardinality(U(r) \cap B[x])
    BY <2>2, <2>5, FS_Union
  <2>10. Cardinality(U(r) \cap B[x]) = 0
    BY <2>4, FS_EmptySet
  <2>11. Cardinality(U(s)) = Sum(w, s)
    BY <2>2, <2>3, <2>5, <2>7, <2>8, <2>9, <2>10
  <2> QED
    BY <2>3, <2>9, <2>11
<1> HIDE DEF F
<1>3. SUBSET S \subseteq F
  BY <1>1, <1>2, FiniteSet
<1>4. S \in F
  BY <1>3
<1> QED
  BY <1>4 DEF F
===============================================================================
