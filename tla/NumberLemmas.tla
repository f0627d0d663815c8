---------------------------- MODULE NumberLemmas ----------------------------
(* Facts about numbers and finite sets that several proofs need. The least   *)
(* element of a set of numbers stands for induction: a property of every     *)
(* number is proved by looking at the least one that lacks it. Of finite     *)
(* sets it is a smallest one.                                                *)
EXTENDS Integers, FiniteSetTheorems, TLAPS

NatLess == {p \in Nat \X Nat : p[1] < p[2]}

(* Every set of natural numbers that is not empty has a least element.       *)
LEMMA LeastElement ==
    ASSUME NEW S \in SUBSET Nat, S # {}
    PROVE  \E m \in S : \A n \in S : m <= n
<1>1. IsWellFoundedOn(NatLess, Nat)
  <2>1. OpToRel(<, Nat) = NatLess
    BY DEF OpToRel, NatLess
  <2> QED BY <2>1, NatLessThanWellFounded
<1>2. PICK m \in S : \A n \in S : <<n, m>> \notin NatLess
  BY <1>1, WFMin
<1>3. ASSUME NEW n \in S PROVE m <= n
  <2>1. m \in Nat /\ n \in Nat /\ <<n, m>> \notin NatLess
    BY <1>2
  <2> QED BY <2>1 DEF NatLess
<1> QED BY <1>3

(* One that is bounded has a greatest.                                       *)
LEMMA GreatestElement ==
    ASSUME NEW bound \in Nat, NEW S \in SUBSET (0..bound), S # {}
    PROVE  \E m \in S : \A n \in S : n <= m
<1> DEFINE T == {bound - n : n \in S}
<1>1. T \in SUBSET Nat /\ T # {}
  <2>1. \A n \in S : bound - n \in Nat
    OBVIOUS
  <2>2. T \subseteq Nat
    BY <2>1
  <2>3. PICK n \in S : TRUE
    OBVIOUS
  <2>4. bound - n \in T
    BY <2>3
  <2> QED BY <2>2, <2>4
<1>2. PICK least \in T : \A n \in T : least <= n
  BY <1>1, LeastElement
<1>3. PICK m \in S : least = bound - m
  BY <1>2
<1>4. ASSUME NEW n \in S PROVE n <= m
  <2>1. bound - n \in T
    OBVIOUS
  <2>2. bound - m <= bound - n
    BY <1>2, <1>3, <2>1
  <2> QED BY <2>2
<1> QED BY <1>4

(* Division with a rest.                                                     *)
LEMMA DivisionWithRest ==
    ASSUME NEW a \in Nat, NEW d \in Nat \ {0}
    PROVE  /\ a \div d \in Nat
           /\ a % d \in 0..(d - 1)
           /\ a = (d * (a \div d)) + (a % d)
<1>1. a \div d \in Nat
  OBVIOUS
<1>2. a % d \in 0..(d - 1)
  OBVIOUS
<1>3. a = (d * (a \div d)) + (a % d)
  OBVIOUS
<1> QED BY <1>1, <1>2, <1>3

(* A larger dividend has no smaller quotient.                                *)
LEMMA DivisionMonotone ==
    ASSUME NEW a \in Nat, NEW b \in Nat, NEW d \in Nat \ {0}, a <= b
    PROVE  a \div d <= b \div d
  OBVIOUS

(* Quotient and rest are the only ones.                                      *)
LEMMA DivisionUnique ==
    ASSUME NEW q \in Nat, NEW d \in Nat \ {0}, NEW r \in 0..(d - 1)
    PROVE  ((d * q) + r) \div d = q /\ ((d * q) + r) % d = r
<1> DEFINE a == (d * q) + r
<1>1. a \in Nat /\ d * q \in Nat
  OBVIOUS
<1>2. PICK p \in Nat, s \in 0..(d - 1) :
         p = a \div d /\ s = a % d /\ a = (d * p) + s
  BY <1>1, DivisionWithRest
<1>3. p = q
  <2>1. CASE p >= q + 1
    <3>1. d * p >= d * (q + 1)
      BY <2>1
    <3> QED BY <1>2, <3>1
  <2>2. CASE q >= p + 1
    <3>1. d * q >= d * (p + 1)
      BY <2>2
    <3> QED BY <1>2, <3>1
  <2> QED BY <2>1, <2>2
<1> QED BY <1>2, <1>3

(* Sets that gain one element at most, and sets that lose one.               *)
LEMMA GainsOne ==
    ASSUME NEW S, IsFiniteSet(S), NEW T, NEW x, T \subseteq S \cup {x}
    PROVE  /\ IsFiniteSet(T) /\ Cardinality(T) \in Nat
           /\ Cardinality(S) \in Nat
           /\ Cardinality(T) <= Cardinality(S) + 1
<1>1. /\ IsFiniteSet(S \cup {x}) /\ Cardinality(S) \in Nat
      /\ Cardinality(S \cup {x}) <= Cardinality(S) + 1
  <2>1. /\ IsFiniteSet(S \cup {x})
        /\ Cardinality(S \cup {x}) = IF x \in S THEN Cardinality(S)
                                              ELSE Cardinality(S) + 1
    BY FS_AddElement
  <2>2. Cardinality(S) \in Nat
    BY FS_CardinalityType
  <2> QED BY <2>1, <2>2
<1>2. /\ IsFiniteSet(T) /\ Cardinality(T) \in Nat
      /\ Cardinality(T) <= Cardinality(S \cup {x})
  BY <1>1, FS_Subset, FS_CardinalityType
<1>3. Cardinality(S \cup {x}) \in Nat
  BY <1>1, FS_CardinalityType
<1> QED BY <1>1, <1>2, <1>3

LEMMA LosesOne ==
    ASSUME NEW S, IsFiniteSet(S), NEW T, NEW x \in S, T \subseteq S \ {x}
    PROVE  /\ IsFiniteSet(T) /\ Cardinality(T) \in Nat
           /\ Cardinality(S) \in Nat
           /\ Cardinality(T) <= Cardinality(S) - 1
<1>1. /\ IsFiniteSet(S \ {x}) /\ Cardinality(S) \in Nat
      /\ Cardinality(S \ {x}) = Cardinality(S) - 1
  BY FS_RemoveElement, FS_CardinalityType
<1>2. /\ IsFiniteSet(T) /\ Cardinality(T) \in Nat
      /\ Cardinality(T) <= Cardinality(S \ {x})
  BY <1>1, FS_Subset, FS_CardinalityType
<1> QED BY <1>1, <1>2

(* Of a family of sets some one has no set in it that is smaller by one      *)
(* element.                                                                  *)
LEMMA SmallestSet ==
    ASSUME NEW S, IsFiniteSet(S), NEW F \in SUBSET (SUBSET S), F # {}
    PROVE  \E T \in F : \A x \in T : T \ {x} \notin F
<1> DEFINE Sizes == {Cardinality(T) : T \in F}
<1>1. \A T \in SUBSET S : IsFiniteSet(T) /\ Cardinality(T) \in Nat
  BY FS_Subset, FS_CardinalityType
<1>2. Sizes \in SUBSET Nat /\ Sizes # {}
  BY <1>1
<1>3. PICK m \in Sizes : \A n \in Sizes : m <= n
  BY <1>2, LeastElement
<1>4. PICK T \in F : m = Cardinality(T)
  BY <1>3
<1>5. ASSUME NEW x \in T, T \ {x} \in F PROVE FALSE
  <2>1. /\ Cardinality(T \ {x}) = Cardinality(T) - 1
        /\ Cardinality(T) \in Nat
    BY <1>1, <1>4, FS_RemoveElement
  <2>2. Cardinality(T) <= Cardinality(T \ {x})
    BY <1>3, <1>4, <1>5
  <2> QED BY <2>1, <2>2
<1> QED BY <1>4, <1>5

-----------------------------------------------------------------------------
(* Sums: what MapThenSumSet computes for the values g of the elements of S.  *)
Pick(s) == CHOOSE x \in s : TRUE

IsSum(it, g, S) ==
    it = [s \in SUBSET S |-> IF s = {} THEN 0
                                       ELSE g[Pick(s)] + it[s \ {Pick(s)}]]

Sum(g, S) == (CHOOSE it : IsSum(it, g, S))[S]

(* The element that comes next is one of the set.                            *)
LEMMA PickIs ==
    ASSUME NEW s, s # {}
    PROVE  Pick(s) \in s
  BY DEF Pick

(* The recursion has a solution: one for sets of up to n elements gives one  *)
(* for sets of up to n + 1.                                                  *)
LEMMA SumExists ==
    ASSUME NEW S, IsFiniteSet(S), NEW g
    PROVE  \E it : IsSum(it, g, S)
<1> DEFINE Level(n) == {s \in SUBSET S : Cardinality(s) <= n}
           Body(it, s) == IF s = {} THEN 0
                                    ELSE g[Pick(s)] + it[s \ {Pick(s)}]
           Solves(it, n) == it = [s \in Level(n) |-> Body(it, s)]
           Bad == {n \in Nat : ~\E it : Solves(it, n)}
<1>1. \A s \in SUBSET S :
         /\ IsFiniteSet(s) /\ Cardinality(s) \in Nat
         /\ Cardinality(s) <= Cardinality(S)
  BY FS_Subset, FS_CardinalityType
<1>2. \A s \in SUBSET S : s # {} =>
         /\ s \ {Pick(s)} \in SUBSET S
         /\ Cardinality(s \ {Pick(s)}) = Cardinality(s) - 1
  BY <1>1, PickIs, FS_RemoveElement
<1>3. 0 \notin Bad
  <2>1. \A s \in Level(0) : s = {}
    BY <1>1, FS_EmptySet
  <2> DEFINE it0 == [s \in Level(0) |-> 0]
  <2>2. Solves(it0, 0)
    BY <2>1
  <2> QED BY <2>2
<1>4. ASSUME NEW n \in Nat, n \notin Bad PROVE n + 1 \notin Bad
  <2>1. PICK it : Solves(it, n)
    BY <1>4
  <2> DEFINE up == [s \in Level(n + 1) |-> Body(it, s)]
  <2>2. \A s \in Level(n) : s \in Level(n + 1) /\ up[s] = it[s]
    <3>1. \A s \in Level(n) : s \in Level(n + 1)
      BY <1>1
    <3>2. \A s \in Level(n) : it[s] = Body(it, s)
      BY <2>1
    <3> QED BY <3>1, <3>2
  <2>3. ASSUME NEW s \in Level(n + 1) PROVE Body(it, s) = Body(up, s)
    <3>1. CASE s = {}
      BY <3>1
    <3>2. CASE s # {}
      <4>1. s \ {Pick(s)} \in Level(n)
        BY <1>1, <1>2, <3>2
      <4>2. up[s \ {Pick(s)}] = it[s \ {Pick(s)}]
        BY <2>2, <4>1
      <4> HIDE DEF up
      <4> QED BY <3>2, <4>2
    <3> QED BY <3>1, <3>2
  <2>4. up = [s \in Level(n + 1) |-> Body(up, s)]
    <3> HIDE DEF Body
    <3> QED BY <2>3
  <2>5. Solves(up, n + 1)
    BY <2>4
  <2> HIDE DEF up
  <2> QED BY <2>5
<1>5. Bad = {}
  <2> SUFFICES ASSUME Bad # {} PROVE FALSE
    OBVIOUS
  <2>1. PICK m \in Bad : \A n \in Bad : m <= n
    BY LeastElement
  <2>2. m \in Nat /\ m # 0
    BY <1>3
  <2>3. m - 1 \in Nat /\ m - 1 \notin Bad
    <3> HIDE DEF Bad
    <3> QED BY <2>1, <2>2
  <2>4. (m - 1) + 1 \notin Bad
    BY <1>4, <2>3
  <2>5. (m - 1) + 1 = m
    BY <2>2
  <2> QED BY <2>1, <2>4, <2>5
<1>6. Cardinality(S) \in Nat
  BY FS_CardinalityType
<1>7. PICK it : Solves(it, Cardinality(S))
  BY <1>5, <1>6
<1>8. Level(Cardinality(S)) = SUBSET S
  BY <1>1
<1>9. IsSum(it, g, S)
  BY <1>7, <1>8 DEF IsSum
<1> QED BY <1>9

(* A solution, read as rules: nothing adds up to 0, any other set to its     *)
(* next element's value and the rest; and all sums are natural numbers.      *)
Solved(it, g, S) ==
    /\ it[{}] = 0
    /\ \A s \in SUBSET S : s # {} =>
          /\ Pick(s) \in s /\ Pick(s) \in S
          /\ s \ {Pick(s)} \in SUBSET S
          /\ it[s] = g[Pick(s)] + it[s \ {Pick(s)}]
    /\ \A s \in SUBSET S : it[s] \in Nat

(* What solves the recursion keeps these rules.                              *)
LEMMA SumSolved ==
    ASSUME NEW S, IsFiniteSet(S), NEW g, \A l \in S : g[l] \in Nat,
           NEW it, IsSum(it, g, S)
    PROVE  Solved(it, g, S)
<1>1. it[{}] = 0
  BY DEF IsSum
<1>2. ASSUME NEW s \in SUBSET S, s # {}
      PROVE  /\ Pick(s) \in s /\ Pick(s) \in S
             /\ s \ {Pick(s)} \in SUBSET S
             /\ it[s] = g[Pick(s)] + it[s \ {Pick(s)}]
  <2>1. Pick(s) \in s
    BY <1>2, PickIs
  <2>2. it[s] = g[Pick(s)] + it[s \ {Pick(s)}]
    BY <1>2 DEF IsSum
  <2> QED BY <2>1, <2>2
<1>3. \A s \in SUBSET S : it[s] \in Nat
  <2> DEFINE Bad == {s \in SUBSET S : it[s] \notin Nat}
  <2> SUFFICES ASSUME Bad # {} PROVE FALSE
    OBVIOUS
  <2>1. PICK s \in Bad : \A x \in s : s \ {x} \notin Bad
    BY SmallestSet
  <2>2. s \in SUBSET S /\ it[s] \notin Nat
    BY <2>1
  <2>3. CASE s = {}
    BY <1>1, <2>2, <2>3
  <2>4. CASE s # {}
    <3>1. it[s \ {Pick(s)}] \in Nat
      BY <1>2, <2>1, <2>4
    <3> QED BY <1>2, <2>2, <2>4, <3>1
  <2> QED BY <2>3, <2>4
<1> QED BY <1>1, <1>2, <1>3 DEF Solved

(* Two sums over the same set go through it in the same order, so that they  *)
(* are compared element by element. The smallest set that breaks the rule    *)
(* has a next element, and the rest keeps the rule.                          *)
LEMMA SumsGrow ==
    ASSUME NEW S, IsFiniteSet(S),
           NEW g, \A l \in S : g[l] \in Nat, NEW h, \A l \in S : h[l] \in Nat,
           \A k \in S : g[k] <= h[k],
           NEW i, IsSum(i, g, S), NEW j, IsSum(j, h, S)
    PROVE  i[S] <= j[S]
<1> DEFINE Bad == {s \in SUBSET S : ~(i[s] <= j[s])}
<1> SUFFICES ASSUME Bad # {} PROVE FALSE
  OBVIOUS
<1>0. Solved(i, g, S) /\ Solved(j, h, S)
  BY SumSolved
<1>1. PICK s \in Bad : \A x \in s : s \ {x} \notin Bad
  BY SmallestSet
<1>2. s # {}
  <2>1. i[{}] = 0 /\ j[{}] = 0
    BY <1>0 DEF Solved
  <2>2. ~(i[s] <= j[s])
    BY <1>1
  <2> QED BY <2>1, <2>2
<1> DEFINE x == Pick(s)
           rest == s \ {x}
<1>3. /\ x \in s /\ x \in S /\ rest \in SUBSET S
      /\ i[s] = g[x] + i[rest] /\ i[rest] \in Nat
  BY <1>0, <1>1, <1>2 DEF Solved
<1>4. j[s] = h[x] + j[rest] /\ j[rest] \in Nat
  BY <1>0, <1>1, <1>2 DEF Solved
<1>5. i[rest] <= j[rest]
  BY <1>1, <1>3
<1>6. g[x] \in Nat /\ h[x] \in Nat /\ g[x] <= h[x]
  BY <1>3
<1> HIDE DEF x, rest
<1>7. i[s] <= j[s]
  BY <1>3, <1>4, <1>5, <1>6
<1> QED BY <1>1, <1>7

(* Where one value is larger by v, the sum is.                               *)
LEMMA SumsDiffer ==
    ASSUME NEW S, IsFiniteSet(S),
           NEW g, \A l \in S : g[l] \in Nat, NEW h, \A l \in S : h[l] \in Nat,
           NEW k \in S, NEW v \in Nat,
           h[k] = g[k] + v, \A l \in S : l # k => h[l] = g[l],
           NEW i, IsSum(i, g, S), NEW j, IsSum(j, h, S)
    PROVE  j[S] = i[S] + v
<1> DEFINE More(s) == IF k \in s THEN v ELSE 0
           Bad == {s \in SUBSET S : j[s] # i[s] + More(s)}
<1>1. Solved(i, g, S) /\ Solved(j, h, S)
  BY SumSolved
<1>2. Bad = {}
  <2> SUFFICES ASSUME Bad # {} PROVE FALSE
    OBVIOUS
  <2>1. PICK s \in Bad : \A x \in s : s \ {x} \notin Bad
    BY SmallestSet
  <2>2. s # {}
    <3>1. i[{}] = 0 /\ j[{}] = 0
      BY <1>1 DEF Solved
    <3>2. j[s] # i[s] + More(s)
      BY <2>1
    <3> QED BY <3>1, <3>2
  <2> DEFINE x == Pick(s)
             rest == s \ {x}
  <2>3. /\ x \in s /\ x \in S /\ rest \in SUBSET S
        /\ i[s] = g[x] + i[rest] /\ i[rest] \in Nat
    BY <1>1, <2>1, <2>2 DEF Solved
  <2>4. j[s] = h[x] + j[rest] /\ j[rest] \in Nat
    BY <1>1, <2>1, <2>2 DEF Solved
  <2>5. j[rest] = i[rest] + More(rest)
    BY <2>1, <2>3
  <2>6. x \notin rest /\ (k # x => (k \in rest <=> k \in s))
    OBVIOUS
  <2>7. g[x] \in Nat
    BY <2>3
  <2> HIDE DEF x, rest
  <2>8. j[s] = i[s] + More(s)
    <3>1. CASE k = x
      BY <2>3, <2>4, <2>5, <2>6, <2>7, <3>1
    <3>2. CASE k # x
      BY <2>3, <2>4, <2>5, <2>6, <2>7, <3>2
    <3> QED BY <3>1, <3>2
  <2> QED BY <2>1, <2>8
<1> QED BY <1>2

(* The same of Sum itself.                                                   *)
LEMMA SumIs ==
    ASSUME NEW S, IsFiniteSet(S), NEW g
    PROVE  \E it : IsSum(it, g, S) /\ Sum(g, S) = it[S]
<1>1. \E it : IsSum(it, g, S)
  BY SumExists
<1> QED BY <1>1 DEF Sum

(* A sum of natural numbers is one.                                          *)
LEMMA SumType ==
    ASSUME NEW S, IsFiniteSet(S), NEW g, \A l \in S : g[l] \in Nat
    PROVE  Sum(g, S) \in Nat
<1>1. PICK i : IsSum(i, g, S) /\ Sum(g, S) = i[S]
  BY SumIs
<1>2. Solved(i, g, S)
  BY <1>1, SumSolved
<1> QED BY <1>1, <1>2 DEF Solved

(* Larger values have a larger sum.                                          *)
LEMMA SumGrows ==
    ASSUME NEW S, IsFiniteSet(S),
           NEW g, \A l \in S : g[l] \in Nat, NEW h, \A l \in S : h[l] \in Nat,
           \A k \in S : g[k] <= h[k]
    PROVE  Sum(g, S) <= Sum(h, S)
<1>1. PICK i : IsSum(i, g, S) /\ Sum(g, S) = i[S]
  BY SumIs
<1>2. PICK j : IsSum(j, h, S) /\ Sum(h, S) = j[S]
  BY SumIs
<1> QED BY <1>1, <1>2, SumsGrow

(* One value that gains v makes the sum gain v.                              *)
LEMMA SumGains ==
    ASSUME NEW S, IsFiniteSet(S),
           NEW g, \A l \in S : g[l] \in Nat, NEW h, \A l \in S : h[l] \in Nat,
           NEW k \in S, NEW v \in Nat,
           h[k] = g[k] + v, \A l \in S : l # k => h[l] = g[l]
    PROVE  Sum(h, S) = Sum(g, S) + v
<1>1. PICK i : IsSum(i, g, S) /\ Sum(g, S) = i[S]
  BY SumIs
<1>2. PICK j : IsSum(j, h, S) /\ Sum(h, S) = j[S]
  BY SumIs
<1> QED BY <1>1, <1>2, SumsDiffer

(* Counters that are all 0 add up to 0.                                      *)
LEMMA SumOfZeros ==
    ASSUME NEW S, IsFiniteSet(S)
    PROVE  Sum([k \in S |-> 0], S) = 0
<1> DEFINE zeros == [k \in S |-> 0]
<1>1. PICK i : IsSum(i, zeros, S) /\ Sum(zeros, S) = i[S]
  BY SumIs
<1>2. \A l \in S : zeros[l] \in Nat
  OBVIOUS
<1>0. Solved(i, zeros, S)
  BY <1>1, <1>2, SumSolved
<1> DEFINE Bad == {s \in SUBSET S : i[s] # 0}
<1>3. Bad = {}
  <2> SUFFICES ASSUME Bad # {} PROVE FALSE
    OBVIOUS
  <2>1. PICK s \in Bad : \A x \in s : s \ {x} \notin Bad
    BY SmallestSet
  <2>2. s # {}
    <3>1. i[{}] = 0 /\ i[s] # 0
      BY <1>0, <2>1 DEF Solved
    <3> QED BY <3>1
  <2>3. /\ Pick(s) \in s /\ Pick(s) \in S
        /\ i[s] = zeros[Pick(s)] + i[s \ {Pick(s)}]
    BY <1>0, <2>1, <2>2 DEF Solved
  <2>4. i[s \ {Pick(s)}] = 0
    BY <2>1, <2>3
  <2> QED BY <2>1, <2>3, <2>4
<1> QED BY <1>1, <1>3

(* Values that are sums of two have the sum of their sums.                   *)
LEMMA SumAdds ==
    ASSUME NEW S, IsFiniteSet(S),
           NEW g, \A l \in S : g[l] \in Nat, NEW h, \A l \in S : h[l] \in Nat,
           NEW f, \A l \in S : f[l] = g[l] + h[l]
    PROVE  Sum(f, S) = Sum(g, S) + Sum(h, S)
<1>1. \A l \in S : f[l] \in Nat
  OBVIOUS
<1>2. PICK i : IsSum(i, g, S) /\ Sum(g, S) = i[S]
  BY SumIs
<1>3. PICK j : IsSum(j, h, S) /\ Sum(h, S) = j[S]
  BY SumIs
<1>4. PICK n : IsSum(n, f, S) /\ Sum(f, S) = n[S]
  BY SumIs
<1>5. Solved(i, g, S) /\ Solved(j, h, S) /\ Solved(n, f, S)
  BY <1>1, <1>2, <1>3, <1>4, SumSolved
<1> DEFINE Bad == {s \in SUBSET S : n[s] # i[s] + j[s]}
<1>6. Bad = {}
  <2> SUFFICES ASSUME Bad # {} PROVE FALSE
    OBVIOUS
  <2>1. PICK s \in Bad : \A x \in s : s \ {x} \notin Bad
    BY SmallestSet
  <2>2. s # {}
    <3>1. i[{}] = 0 /\ j[{}] = 0 /\ n[{}] = 0 /\ n[s] # i[s] + j[s]
      BY <1>5, <2>1 DEF Solved
    <3> QED BY <3>1
  <2> DEFINE x == Pick(s)
             rest == s \ {x}
  <2>3. /\ x \in s /\ x \in S /\ rest \in SUBSET S
        /\ i[s] = g[x] + i[rest] /\ i[rest] \in Nat
    BY <1>5, <2>1, <2>2 DEF Solved
  <2>4. j[s] = h[x] + j[rest] /\ j[rest] \in Nat
    BY <1>5, <2>1, <2>2 DEF Solved
  <2>5. n[s] = f[x] + n[rest]
    BY <1>5, <2>1, <2>2 DEF Solved
  <2>6. n[rest] = i[rest] + j[rest]
    BY <2>1, <2>3
  <2>7. g[x] \in Nat /\ h[x] \in Nat /\ f[x] = g[x] + h[x]
    BY <2>3
  <2> HIDE DEF x, rest
  <2>8. n[s] = i[s] + j[s]
    BY <2>3, <2>4, <2>5, <2>6, <2>7
  <2> QED BY <2>1, <2>8
<1> QED BY <1>2, <1>3, <1>4, <1>6

(* A sum is no less than two of its values together.                         *)
LEMMA SumCoversTwo ==
    ASSUME NEW S, IsFiniteSet(S), NEW g, \A l \in S : g[l] \in Nat,
           NEW k \in S, NEW m \in S, k # m
    PROVE  g[k] + g[m] <= Sum(g, S)
<1> DEFINE zeros == [l \in S |-> 0]
           one == [l \in S |-> IF l = k THEN g[k] ELSE 0]
           two == [l \in S |-> IF l = m THEN g[m] ELSE one[l]]
<1>1. /\ \A l \in S : zeros[l] \in Nat /\ one[l] \in Nat /\ two[l] \in Nat
      /\ \A l \in S : two[l] <= g[l]
      /\ g[k] \in Nat /\ g[m] \in Nat
      /\ one[k] = zeros[k] + g[k] /\ \A l \in S : l # k => one[l] = zeros[l]
      /\ two[m] = one[m] + g[m] /\ \A l \in S : l # m => two[l] = one[l]
  OBVIOUS
<1>2. Sum(zeros, S) = 0
  BY SumOfZeros
<1> HIDE DEF zeros, one, two
<1>3. Sum(one, S) = Sum(zeros, S) + g[k]
  BY <1>1, SumGains
<1>4. Sum(two, S) = Sum(one, S) + g[m]
  BY <1>1, SumGains
<1>5. Sum(two, S) <= Sum(g, S)
  BY <1>1, SumGrows
<1>6. Sum(g, S) \in Nat
  BY SumType
<1> QED BY <1>1, <1>2, <1>3, <1>4, <1>5, <1>6
=============================================================================
