------------------------------- MODULE SumTheorems -----------------------------
(***************************************************************************)
(* Sums over finite sets, which the library defines by a recursive function*)
(* that takes one chosen element after another: that there is such a       *)
(* function, and that the order of the elements does not matter; how many  *)
(* subsets of two and of three elements a finite set has; and that it has  *)
(* a first element in an order.  Induction is by a least counterexample.   *)
(***************************************************************************)
EXTENDS Integers, FiniteSets, FiniteSetsExt, Functions, FiniteSetTheorems, WellFoundedInduction, TLAPS

(* A set of naturals has a least element. *)
LEMMA LeastOf ==
  ASSUME NEW P \in SUBSET Nat, P # {}
  PROVE  \E n \in P : \A m \in P : n <= m
<1>1. IsWellFoundedOn(OpToRel(<, Nat), Nat)
  BY NatLessThanWellFounded
<1>2. PICK n \in P : \A m \in P : ~ (<<m, n>> \in OpToRel(<, Nat))
  BY <1>1, WFMin
<1>3. \A m \in P : ~ (m < n)
  BY <1>2 DEF OpToRel
<1> QED BY <1>3

(* Of the counterexamples among the subsets of a finite set, one has none   *)
(* inside it.                                                              *)
LEMMA SmallestOf ==
  ASSUME NEW S, IsFiniteSet(S), NEW Bad, Bad \subseteq SUBSET S, Bad # {}
  PROVE  \E s \in Bad : \A t \in SUBSET S : t \subseteq s /\ t # s => t \notin Bad
<1>1. IsWellFoundedOn(StrictSubsetOrdering(S), SUBSET S)
  BY FS_FiniteSubsetsOfFinite, FS_StrictSubsetOrderingWellFounded
<1>2. PICK s \in Bad : \A t \in Bad : ~ (<<t, s>> \in StrictSubsetOrdering(S))
  BY <1>1, WFMin
<1>3. \A t \in SUBSET S : t \subseteq s /\ t # s => t \notin Bad
  BY <1>2 DEF StrictSubsetOrdering
<1> QED BY <1>3

-----------------------------------------------------------------------------
(* The element that is taken first, and the recursion of FoldFunctionOnSet. *)
Taken(s) == CHOOSE x \in s : TRUE

Recurrence(f, S, g) ==
  g = [ s \in SUBSET S |-> IF s = {} THEN 0 ELSE f[Taken(s)] + g[s \ {Taken(s)}] ]

(* The sum of the library is that function. *)
LEMMA SumIsRecurrence ==
  ASSUME NEW f, NEW S
  PROVE  SumFunctionOnSet(f, S) = (CHOOSE g : Recurrence(f, S, g))[S]
BY DEF SumFunctionOnSet, FoldFunctionOnSet, MapThenFoldSet, Recurrence, Taken

LEMMA TakenIn ==
  ASSUME NEW s, s # {}
  PROVE  Taken(s) \in s
BY DEF Taken

(* The recursion on the sets of at most n elements. *)
UpTo(f, S, n, g) ==
  g = [ s \in SUBSET S |-> IF s = {} \/ Cardinality(s) > n THEN 0 ELSE f[Taken(s)] + g[s \ {Taken(s)}] ]

LEMMA UpToExists ==
  ASSUME NEW f, NEW S, IsFiniteSet(S)
  PROVE  \A n \in Nat : \E g : UpTo(f, S, n, g)
<1> DEFINE Bad == { n \in Nat : ~ \E g : UpTo(f, S, n, g) }
<1> SUFFICES ASSUME Bad # {} PROVE FALSE
  OBVIOUS
<1>0. \A s \in SUBSET S : IsFiniteSet(s) /\ Cardinality(s) \in Nat
  BY FS_Subset, FS_CardinalityType
<1>1. PICK n \in Bad : \A m \in Bad : n <= m
  BY LeastOf
<1>2. n # 0
  <2> DEFINE g == [ s \in SUBSET S |-> 0 ]
  <2>1. \A s \in SUBSET S : s = {} \/ Cardinality(s) > 0
    BY <1>0, FS_EmptySet
  <2>2. UpTo(f, S, 0, g)
    BY <2>1 DEF UpTo
  <2> QED BY <2>2
<1>3. n \in Nat /\ n - 1 \in Nat /\ n - 1 \notin Bad
  BY <1>1, <1>2
<1>4. PICK g : UpTo(f, S, n - 1, g)
  BY <1>3
<1> DEFINE h == [ s \in SUBSET S |-> IF s = {} \/ Cardinality(s) > n THEN 0 ELSE f[Taken(s)] + g[s \ {Taken(s)}] ]
<1>5. ASSUME NEW s \in SUBSET S, s # {}, ~ Cardinality(s) > n
      PROVE  h[s \ {Taken(s)}] = g[s \ {Taken(s)}]
  <2> DEFINE t == s \ {Taken(s)}
  <2>1. t \in SUBSET S /\ Cardinality(t) = Cardinality(s) - 1
    BY <1>0, <1>5, TakenIn, FS_RemoveElement
  <2>2. Cardinality(t) <= n - 1 /\ Cardinality(t) \in Nat /\ Cardinality(t) <= n
    BY <1>0, <1>3, <1>5, <2>1
  <2>3. g[t] = IF t = {} THEN 0 ELSE f[Taken(t)] + g[t \ {Taken(t)}]
    <3>1. \A r \in SUBSET S : Cardinality(r) <= n - 1 =>
            g[r] = IF r = {} THEN 0 ELSE f[Taken(r)] + g[r \ {Taken(r)}]
      <4> DEFINE m == n - 1
      <4>1. \A r \in SUBSET S : Cardinality(r) <= m => ~ (Cardinality(r) > m)
        BY <1>0, <1>3
      <4>2. UpTo(f, S, m, g)
        BY <1>4
      <4> HIDE DEF m
      <4>3. \A r \in SUBSET S : ~ (Cardinality(r) > m) =>
              g[r] = IF r = {} THEN 0 ELSE f[Taken(r)] + g[r \ {Taken(r)}]
        BY <4>2, Zenon DEF UpTo
      <4> QED BY <4>1, <4>3 DEF m
    <3> HIDE DEF t
    <3> QED BY <3>1, <2>1, <2>2
  <2>4. h[t] = IF t = {} THEN 0 ELSE f[Taken(t)] + g[t \ {Taken(t)}]
    BY <1>3, <2>1, <2>2
  <2> QED BY <2>3, <2>4
<1>6. h = [ s \in SUBSET S |-> IF s = {} \/ Cardinality(s) > n THEN 0 ELSE f[Taken(s)] + h[s \ {Taken(s)}] ]
  BY <1>5
<1>7. UpTo(f, S, n, h)
  BY <1>6 DEF UpTo
<1> QED BY <1>7, <1>1

(* There is a function that satisfies the recursion... *)
LEMMA RecurrenceExists ==
  ASSUME NEW f, NEW S, IsFiniteSet(S)
  PROVE  \E g : Recurrence(f, S, g)
<1>1. Cardinality(S) \in Nat
  BY FS_CardinalityType
<1>2. PICK g : UpTo(f, S, Cardinality(S), g)
  BY <1>1, UpToExists
<1>3. \A s \in SUBSET S : ~ (Cardinality(s) > Cardinality(S))
  BY <1>1, FS_Subset, FS_CardinalityType
<1>4. \A s \in SUBSET S : (s = {} \/ Cardinality(s) > Cardinality(S)) = (s = {})
  BY <1>3
<1>5. [ s \in SUBSET S |-> IF s = {} \/ Cardinality(s) > Cardinality(S) THEN 0 ELSE f[Taken(s)] + g[s \ {Taken(s)}] ]
      = [ s \in SUBSET S |-> IF s = {} THEN 0 ELSE f[Taken(s)] + g[s \ {Taken(s)}] ]
  BY <1>4
<1> QED BY <1>2, <1>5 DEF UpTo, Recurrence

(* ... and those of two sets agree on what both are defined for. *)
LEMMA RecurrenceUnique ==
  ASSUME NEW f, NEW S, NEW T \in SUBSET S, IsFiniteSet(S),
         NEW g, Recurrence(f, S, g), NEW h, Recurrence(f, T, h)
  PROVE  g[T] = h[T]
<1> DEFINE Bad == { s \in SUBSET T : g[s] # h[s] }
<1>1. IsFiniteSet(T)
  BY FS_Subset
<1> SUFFICES ASSUME Bad # {} PROVE FALSE
  OBVIOUS
<1>3. PICK s \in Bad : \A t \in SUBSET T : t \subseteq s /\ t # s => t \notin Bad
  <2>1. Bad \subseteq SUBSET T
    OBVIOUS
  <2> HIDE DEF Bad
  <2> QED BY <1>1, <2>1, SmallestOf
<1>4. \A t \in SUBSET T : t \subseteq s /\ t # s => g[t] = h[t]
  BY <1>3
<1>5. g[s] = IF s = {} THEN 0 ELSE f[Taken(s)] + g[s \ {Taken(s)}]
  BY DEF Recurrence
<1>6. h[s] = IF s = {} THEN 0 ELSE f[Taken(s)] + h[s \ {Taken(s)}]
  BY DEF Recurrence
<1>7. CASE s = {}
  BY <1>5, <1>6, <1>7
<1>8. CASE s # {}
  <2>1. s \ {Taken(s)} # s /\ s \ {Taken(s)} \in SUBSET T
    BY <1>8, TakenIn
  <2> QED BY <1>4, <1>5, <1>6, <1>8, <2>1
<1> QED BY <1>7, <1>8

(* The sum over a set is that of its first element and of the rest. *)
LEMMA SumUnfolds ==
  ASSUME NEW f, NEW S, IsFiniteSet(S)
  PROVE  SumFunctionOnSet(f, S) =
           IF S = {} THEN 0 ELSE f[Taken(S)] + SumFunctionOnSet(f, S \ {Taken(S)})
<1> DEFINE g == CHOOSE g : Recurrence(f, S, g)
           T == S \ {Taken(S)}
           h == CHOOSE h : Recurrence(f, T, h)
<1>1. IsFiniteSet(T)
  BY FS_Subset
<1>2. Recurrence(f, S, g) /\ Recurrence(f, T, h)
  BY <1>1, RecurrenceExists
<1>3. SumFunctionOnSet(f, S) = g[S] /\ SumFunctionOnSet(f, T) = h[T]
  BY SumIsRecurrence
<1> HIDE DEF g, h
<1>4. g[T] = h[T]
  BY <1>2, RecurrenceUnique
<1>5. g[S] = IF S = {} THEN 0 ELSE f[Taken(S)] + g[T]
  BY <1>2 DEF Recurrence
<1> QED BY <1>3, <1>4, <1>5

(* A sum of naturals is one. *)
LEMMA SumInNat ==
  ASSUME NEW f, NEW S, IsFiniteSet(S), \A x \in S : f[x] \in Nat
  PROVE  SumFunctionOnSet(f, S) \in Nat
<1> DEFINE Bad == { s \in SUBSET S : SumFunctionOnSet(f, s) \notin Nat }
<1> SUFFICES ASSUME Bad # {} PROVE FALSE
  OBVIOUS
<1>1. PICK s \in Bad : \A t \in SUBSET S : t \subseteq s /\ t # s => t \notin Bad
  <2>1. Bad \subseteq SUBSET S
    OBVIOUS
  <2> HIDE DEF Bad
  <2> QED BY <2>1, SmallestOf
<1>3. \A t \in SUBSET S : t \subseteq s /\ t # s => SumFunctionOnSet(f, t) \in Nat
  BY <1>1
<1>4. SumFunctionOnSet(f, s) = IF s = {} THEN 0 ELSE f[Taken(s)] + SumFunctionOnSet(f, s \ {Taken(s)})
  BY FS_Subset, SumUnfolds
<1>5. s # {} => Taken(s) \in s /\ s \ {Taken(s)} # s /\ s \ {Taken(s)} \in SUBSET S
  BY TakenIn
<1> QED BY <1>3, <1>4, <1>5

(* ... and of any element and the rest. *)
LEMMA SumWithout ==
  ASSUME NEW f, NEW S, IsFiniteSet(S), \A x \in S : f[x] \in Nat, NEW a \in S
  PROVE  SumFunctionOnSet(f, S) = f[a] + SumFunctionOnSet(f, S \ {a})
<1> DEFINE Sum(s) == SumFunctionOnSet(f, s)
           Bad == { s \in SUBSET S : \E b \in s : Sum(s) # f[b] + Sum(s \ {b}) }
<1> SUFFICES ASSUME Bad # {} PROVE FALSE
  OBVIOUS
<1>1. PICK s \in Bad : \A t \in SUBSET S : t \subseteq s /\ t # s => t \notin Bad
  <2>1. Bad \subseteq SUBSET S
    OBVIOUS
  <2> HIDE DEF Bad
  <2> QED BY <2>1, SmallestOf
<1>3. PICK b \in s : Sum(s) # f[b] + Sum(s \ {b})
  OBVIOUS
<1>4. ASSUME NEW t \in SUBSET S, t \subseteq s, t # s, NEW c \in t
      PROVE  Sum(t) = f[c] + Sum(t \ {c})
  BY <1>1, <1>4
<1> DEFINE d == Taken(s)
<1>5. d \in s
  BY <1>3, TakenIn
<1>6. \A t \in SUBSET S : IsFiniteSet(t) /\ Sum(t) \in Nat
  BY FS_Subset, SumInNat
<1>7. Sum(s) = f[d] + Sum(s \ {d})
  BY <1>5, <1>6, SumUnfolds
<1> HIDE DEF Sum, d
<1>8. b # d
  BY <1>3, <1>7
<1>9. Sum(s \ {d}) = f[b] + Sum((s \ {d}) \ {b})
  BY <1>4, <1>5, <1>8
<1>10. Sum(s \ {b}) = f[d] + Sum((s \ {b}) \ {d})
  BY <1>4, <1>5, <1>8
<1>11. Sum((s \ {d}) \ {b}) = Sum((s \ {b}) \ {d})
  <2>1. (s \ {d}) \ {b} = (s \ {b}) \ {d}
    OBVIOUS
  <2> QED BY <2>1
<1>12. f[b] \in Nat /\ f[d] \in Nat /\ Sum((s \ {b}) \ {d}) \in Nat
  BY <1>5, <1>6
<1>13. Sum(s) = f[d] + (f[b] + Sum((s \ {b}) \ {d})) /\ f[b] + Sum(s \ {b}) = f[b] + (f[d] + Sum((s \ {b}) \ {d}))
  BY <1>7, <1>9, <1>10, <1>11
<1>14. Sum(s) = f[b] + Sum(s \ {b})
  <2>1. \A x, y, z \in Nat : x + (y + z) = y + (x + z)
    OBVIOUS
  <2> QED BY <2>1, <1>12, <1>13
<1> QED BY <1>3, <1>14

(* Only the summed elements count. *)
LEMMA SumOfSame ==
  ASSUME NEW f, NEW g, NEW S, IsFiniteSet(S), \A x \in S : f[x] = g[x]
  PROVE  SumFunctionOnSet(f, S) = SumFunctionOnSet(g, S)
<1> DEFINE Bad == { s \in SUBSET S : SumFunctionOnSet(f, s) # SumFunctionOnSet(g, s) }
<1> SUFFICES ASSUME Bad # {} PROVE FALSE
  OBVIOUS
<1>1. PICK s \in Bad : \A t \in SUBSET S : t \subseteq s /\ t # s => t \notin Bad
  <2>1. Bad \subseteq SUBSET S
    OBVIOUS
  <2> HIDE DEF Bad
  <2> QED BY <2>1, SmallestOf
<1>3. \A t \in SUBSET S : t \subseteq s /\ t # s => SumFunctionOnSet(f, t) = SumFunctionOnSet(g, t)
  BY <1>1
<1>4. IsFiniteSet(s)
  BY FS_Subset
<1>5. s # {} => Taken(s) \in s /\ s \ {Taken(s)} # s /\ s \ {Taken(s)} \in SUBSET S
  BY TakenIn
<1>6. SumFunctionOnSet(f, s) = IF s = {} THEN 0 ELSE f[Taken(s)] + SumFunctionOnSet(f, s \ {Taken(s)})
  BY <1>4, SumUnfolds
<1>7. SumFunctionOnSet(g, s) = IF s = {} THEN 0 ELSE g[Taken(s)] + SumFunctionOnSet(g, s \ {Taken(s)})
  BY <1>4, SumUnfolds
<1> QED BY <1>3, <1>5, <1>6, <1>7

(* One more element, and one changed element. *)
LEMMA SumWithOne ==
  ASSUME NEW f, NEW S, IsFiniteSet(S), NEW a, a \notin S, \A x \in S \cup {a} : f[x] \in Nat
  PROVE  SumFunctionOnSet(f, S \cup {a}) = f[a] + SumFunctionOnSet(f, S)
<1>1. IsFiniteSet(S \cup {a}) /\ (S \cup {a}) \ {a} = S
  BY FS_AddElement
<1> QED BY <1>1, SumWithout

LEMMA SumWithChange ==
  ASSUME NEW f, NEW g, NEW S, IsFiniteSet(S), \A x \in S : f[x] \in Nat /\ g[x] \in Nat,
         NEW a \in S, \A x \in S \ {a} : f[x] = g[x]
  PROVE  SumFunctionOnSet(g, S) + f[a] = SumFunctionOnSet(f, S) + g[a]
<1>1. IsFiniteSet(S \ {a})
  BY FS_Subset
<1>2. SumFunctionOnSet(f, S) = f[a] + SumFunctionOnSet(f, S \ {a})
  BY SumWithout
<1>3. SumFunctionOnSet(g, S) = g[a] + SumFunctionOnSet(g, S \ {a})
  BY SumWithout
<1>4. SumFunctionOnSet(f, S \ {a}) = SumFunctionOnSet(g, S \ {a})
  BY <1>1, SumOfSame
<1>5. SumFunctionOnSet(f, S \ {a}) \in Nat
  BY <1>1, SumInNat
<1> QED BY <1>2, <1>3, <1>4, <1>5

(* Sums: of two parts, and under a bound. *)
LEMMA SumOfParts ==
  ASSUME NEW f, NEW S, NEW T, IsFiniteSet(S), IsFiniteSet(T), S \cap T = {}, \A x \in S \cup T : f[x] \in Nat
  PROVE  SumFunctionOnSet(f, S \cup T) = SumFunctionOnSet(f, S) + SumFunctionOnSet(f, T)
<1> DEFINE Sum(s) == SumFunctionOnSet(f, s)
           Bad == { s \in SUBSET T : Sum(S \cup s) # Sum(S) + Sum(s) }
<1> SUFFICES ASSUME Bad # {} PROVE FALSE
  OBVIOUS
<1>1. PICK s \in Bad : \A t \in SUBSET T : t \subseteq s /\ t # s => t \notin Bad
  <2>1. Bad \subseteq SUBSET T
    OBVIOUS
  <2> HIDE DEF Bad
  <2> QED BY <2>1, SmallestOf
<1>2. \A t \in SUBSET T : IsFiniteSet(t) /\ IsFiniteSet(S \cup t) /\ Sum(t) \in Nat /\ Sum(S \cup t) \in Nat
  <2> TAKE t \in SUBSET T
  <2>1. IsFiniteSet(t) /\ IsFiniteSet(S \cup t)
    BY FS_Subset, FS_Union
  <2> QED BY <2>1, SumInNat
<1>3. Sum(S) \in Nat
  BY SumInNat
<1>4. s # {}
  <2>1. Sum({}) = 0
    BY FS_EmptySet, SumUnfolds
  <2>2. S \cup {} = S
    OBVIOUS
  <2>3. Sum(S \cup {}) = Sum(S) + Sum({})
    BY <1>3, <2>1, <2>2
  <2> QED BY <2>3
<1>5. PICK a \in s : TRUE
  BY <1>4
<1> DEFINE r == s \ {a}
<1>6. r \in SUBSET T /\ r # s /\ r \subseteq s /\ a \notin S \cup r /\ S \cup s = (S \cup r) \cup {a} /\ s = r \cup {a}
  BY <1>5
<1> HIDE DEF r
<1>7. Sum(S \cup r) = Sum(S) + Sum(r)
  BY <1>1, <1>6
<1>8. Sum((S \cup r) \cup {a}) = f[a] + Sum(S \cup r)
  BY <1>2, <1>6, SumWithOne
<1>9. Sum(r \cup {a}) = f[a] + Sum(r)
  BY <1>2, <1>6, SumWithOne
<1>10. Sum(S \cup s) = f[a] + (Sum(S) + Sum(r)) /\ Sum(s) = f[a] + Sum(r) /\ f[a] \in Nat /\ Sum(r) \in Nat
  BY <1>2, <1>6, <1>7, <1>8, <1>9
<1> HIDE DEF Sum
<1>11. \A x, y, z \in Nat : x + (y + z) = y + (x + z)
  OBVIOUS
<1>12. Sum(S \cup s) = Sum(S) + Sum(s)
  BY <1>3, <1>10, <1>11
<1> QED BY <1>12

(* A sum of integers is one, and of positive numbers positive. *)
LEMMA SumInInt ==
  ASSUME NEW f, NEW S, IsFiniteSet(S), \A x \in S : f[x] \in Int
  PROVE  SumFunctionOnSet(f, S) \in Int
<1> DEFINE Bad == { s \in SUBSET S : SumFunctionOnSet(f, s) \notin Int }
<1> SUFFICES ASSUME Bad # {} PROVE FALSE
  OBVIOUS
<1>1. PICK s \in Bad : \A t \in SUBSET S : t \subseteq s /\ t # s => t \notin Bad
  <2>1. Bad \subseteq SUBSET S
    OBVIOUS
  <2> HIDE DEF Bad
  <2> QED BY <2>1, SmallestOf
<1>2. \A t \in SUBSET S : t \subseteq s /\ t # s => SumFunctionOnSet(f, t) \in Int
  BY <1>1
<1>3. SumFunctionOnSet(f, s) = IF s = {} THEN 0 ELSE f[Taken(s)] + SumFunctionOnSet(f, s \ {Taken(s)})
  BY FS_Subset, SumUnfolds
<1>4. s # {} => Taken(s) \in s /\ s \ {Taken(s)} # s /\ s \ {Taken(s)} \in SUBSET S
  BY TakenIn
<1> QED BY <1>2, <1>3, <1>4

LEMMA SumPositive ==
  ASSUME NEW f, NEW S, IsFiniteSet(S), S # {}, \A x \in S : f[x] \in Nat \ {0}
  PROVE  SumFunctionOnSet(f, S) \in Nat \ {0}
<1>1. PICK a \in S : TRUE
  OBVIOUS
<1>2. SumFunctionOnSet(f, S) = f[a] + SumFunctionOnSet(f, S \ {a})
  BY SumWithout
<1>3. IsFiniteSet(S \ {a})
  BY FS_Subset
<1>4. SumFunctionOnSet(f, S \ {a}) \in Nat
  BY <1>3, SumInNat
<1> QED BY <1>2, <1>4

(* What holds of the shares, element by element, holds of the sums. *)
LEMMA SumOfShares ==
  ASSUME NEW f, NEW g, NEW S, IsFiniteSet(S), NEW a \in Int, NEW c \in Int,
         \A x \in S : f[x] \in Int /\ g[x] \in Int /\ a * f[x] <= c * g[x]
  PROVE  a * SumFunctionOnSet(f, S) <= c * SumFunctionOnSet(g, S)
<1> DEFINE F(s) == SumFunctionOnSet(f, s)
           G(s) == SumFunctionOnSet(g, s)
           Bad == { s \in SUBSET S : ~ (a * F(s) <= c * G(s)) }
<1> SUFFICES ASSUME Bad # {} PROVE FALSE
  OBVIOUS
<1>1. PICK s \in Bad : \A t \in SUBSET S : t \subseteq s /\ t # s => t \notin Bad
  <2>1. Bad \subseteq SUBSET S
    OBVIOUS
  <2> HIDE DEF Bad
  <2> QED BY <2>1, SmallestOf
<1>2. \A t \in SUBSET S : F(t) \in Int /\ G(t) \in Int
  BY FS_Subset, SumInInt
<1>3. /\ F(s) = IF s = {} THEN 0 ELSE f[Taken(s)] + F(s \ {Taken(s)})
      /\ G(s) = IF s = {} THEN 0 ELSE g[Taken(s)] + G(s \ {Taken(s)})
  BY FS_Subset, SumUnfolds
<1>4. CASE s = {}
  <2>1. F(s) = 0 /\ G(s) = 0
    BY <1>3, <1>4
  <2> HIDE DEF F, G
  <2>2. a * F(s) <= c * G(s)
    BY <2>1
  <2> QED BY <2>2
<1>5. CASE s # {}
  <2> DEFINE x == Taken(s)
             r == s \ {x}
  <2>1. x \in S /\ r \in SUBSET S /\ r \subseteq s /\ r # s
    BY <1>5, TakenIn
  <2>2. a * F(r) <= c * G(r) /\ F(r) \in Int /\ G(r) \in Int
    BY <1>1, <1>2, <2>1
  <2>3. F(s) = f[x] + F(r) /\ G(s) = g[x] + G(r)
    BY <1>3, <1>5
  <2>4. f[x] \in Int /\ g[x] \in Int /\ a * f[x] <= c * g[x]
    BY <2>1
  <2> HIDE DEF F, G, x, r
  <2>5. \A p, q \in Int : a * (p + q) = a * p + a * q /\ c * (p + q) = c * p + c * q
                          /\ a * p \in Int /\ c * p \in Int
    OBVIOUS
  <2>6. a * F(s) = a * f[x] + a * F(r) /\ c * G(s) = c * g[x] + c * G(r)
    BY <2>2, <2>3, <2>4, <2>5
  <2>7. a * f[x] \in Int /\ a * F(r) \in Int /\ c * g[x] \in Int /\ c * G(r) \in Int
    BY <2>2, <2>4, <2>5
  <2>8. a * F(s) <= c * G(s)
    BY <2>2, <2>4, <2>6, <2>7
  <2> QED BY <2>8
<1> QED BY <1>4, <1>5

(* A finite set with an order in which of two different elements one comes *)
(* first has an element before all others.                                 *)
LEMMA FirstOfAll ==
  ASSUME NEW S, IsFiniteSet(S), S # {}, NEW R,
         \A m, n \in S : m # n => <<m, n>> \in R \/ <<n, m>> \in R,
         \A m, n, o \in S : m # n /\ n # o /\ m # o /\ <<m, n>> \in R /\ <<n, o>> \in R => <<m, o>> \in R
  PROVE  \E m \in S : \A n \in S \ {m} : <<m, n>> \in R
<1> DEFINE Heads(T) == { m \in T : \A n \in T \ {m} : <<m, n>> \in R }
           Bad == { T \in SUBSET S : T # {} /\ Heads(T) = {} }
<1> SUFFICES ASSUME Bad # {} PROVE FALSE
  <2>1. S \notin Bad => Heads(S) # {}
    OBVIOUS
  <2> QED BY <2>1
<1>1. PICK T \in Bad : \A t \in SUBSET S : t \subseteq T /\ t # T => t \notin Bad
  <2>1. Bad \subseteq SUBSET S
    OBVIOUS
  <2> HIDE DEF Bad
  <2> QED BY <2>1, SmallestOf
<1>2. PICK x \in T : TRUE
  OBVIOUS
<1> DEFINE U == T \ {x}
<1>3. CASE U = {}
  <2>1. x \in Heads(T)
    BY <1>3
  <2> QED BY <2>1
<1>4. CASE U # {}
  <2>1. Heads(U) # {}
    <3>1. U \in SUBSET S /\ U \subseteq T /\ U # T
      OBVIOUS
    <3>2. U \notin Bad
      <4> HIDE DEF Bad, U
      <4> QED BY <1>1, <3>1
    <3> HIDE DEF U, Heads
    <3> QED BY <1>4, <3>1, <3>2
  <2>2. PICK y \in U : \A n \in U \ {y} : <<y, n>> \in R
    BY <2>1
  <2>3. CASE <<y, x>> \in R
    <3>1. y \in Heads(T)
      BY <2>2, <2>3
    <3> QED BY <3>1
  <2>4. CASE <<x, y>> \in R
    <3>1. \A n \in T \ {x} : <<x, n>> \in R
      BY <2>2, <2>4
    <3> QED BY <3>1
  <2> QED BY <2>2, <2>3, <2>4
<1> QED BY <1>3, <1>4

(* A sum of elements that have a bound. *)
LEMMA SumBounded ==
  ASSUME NEW f, NEW S, IsFiniteSet(S), NEW b \in Nat, \A x \in S : f[x] \in 0 .. b
  PROVE  SumFunctionOnSet(f, S) <= Cardinality(S) * b
<1> DEFINE Sum(s) == SumFunctionOnSet(f, s)
           Bad == { s \in SUBSET S : ~ (Sum(s) <= Cardinality(s) * b) }
<1> SUFFICES ASSUME Bad # {} PROVE FALSE
  OBVIOUS
<1>1. PICK s \in Bad : \A t \in SUBSET S : t \subseteq s /\ t # s => t \notin Bad
  <2>1. Bad \subseteq SUBSET S
    OBVIOUS
  <2> HIDE DEF Bad
  <2> QED BY <2>1, SmallestOf
<1>2. \A t \in SUBSET S : IsFiniteSet(t) /\ Sum(t) \in Nat /\ Cardinality(t) \in Nat
  BY FS_Subset, SumInNat, FS_CardinalityType
<1>3. s # {}
  <2>1. Sum({}) = 0 /\ Cardinality({}) = 0
    BY FS_EmptySet, SumUnfolds
  <2> QED BY <2>1
<1>4. PICK a \in s : TRUE
  BY <1>3
<1> DEFINE r == s \ {a}
<1>5. r \in SUBSET S /\ r # s /\ r \subseteq s /\ s = r \cup {a} /\ a \notin r
  BY <1>4
<1>6. Cardinality(s) = Cardinality(r) + 1
  BY <1>2, <1>4, <1>5, FS_AddElement
<1>7. Sum(s) = f[a] + Sum(r)
  BY <1>2, <1>4, SumWithout
<1>8. Sum(r) <= Cardinality(r) * b
  BY <1>1, <1>5
<1>9. f[a] \in Nat /\ f[a] <= b /\ Sum(r) \in Nat /\ Cardinality(r) \in Nat
  BY <1>2, <1>4, <1>5
<1> HIDE DEF Sum, r
<1>10. (Cardinality(r) + 1) * b = Cardinality(r) * b + b /\ Cardinality(r) * b \in Nat
  BY <1>9
<1>11. Sum(s) <= Cardinality(s) * b
  BY <1>6, <1>7, <1>8, <1>9, <1>10
<1> QED BY <1>11

-----------------------------------------------------------------------------
(* How many sets of two and of three there are. *)
LEMMA SubsetsFinite ==
  ASSUME NEW X, IsFiniteSet(X), NEW k
  PROVE  IsFiniteSet(kSubset(k, X)) /\ Cardinality(kSubset(k, X)) \in Nat
<1>1. IsFiniteSet(SUBSET X)
  BY FS_SUBSET
<1>2. kSubset(k, X) \in SUBSET (SUBSET X)
  BY DEF kSubset
<1> QED BY <1>1, <1>2, FS_Subset, FS_CardinalityType

(* The subsets with a new element and those without it. *)
LEMMA Pascal ==
  ASSUME NEW X, IsFiniteSet(X), NEW a, a \notin X, NEW k \in Nat
  PROVE  Cardinality(kSubset(k + 1, X \cup {a})) = Cardinality(kSubset(k + 1, X)) + Cardinality(kSubset(k, X))
<1> DEFINE Y == X \cup {a}
           A == kSubset(k + 1, X)
           B == kSubset(k, X)
           C == { s \cup {a} : s \in B }
           g == [s \in B |-> s \cup {a}]
<1>1. \A s \in SUBSET X : IsFiniteSet(s) /\ a \notin s /\ Cardinality(s) \in Nat /\ Cardinality(s \cup {a}) = Cardinality(s) + 1
  BY FS_Subset, FS_AddElement, FS_CardinalityType
<1>2. \A s \in B : s \in SUBSET X /\ Cardinality(s) = k
  BY DEF kSubset
<1>3. C \subseteq kSubset(k + 1, Y)
  BY <1>1, <1>2 DEF kSubset
<1>4. A \subseteq kSubset(k + 1, Y)
  BY DEF kSubset
<1>5. ASSUME NEW s \in kSubset(k + 1, Y) PROVE s \in A \cup C
  <2>1. s \in SUBSET Y /\ Cardinality(s) = k + 1
    BY DEF kSubset
  <2>2. CASE a \notin s
    BY <2>1, <2>2 DEF kSubset
  <2>3. CASE a \in s
    <3> DEFINE r == s \ {a}
    <3>1. r \in SUBSET X /\ s = r \cup {a}
      BY <2>1, <2>3
    <3>2. Cardinality(r) + 1 = k + 1 /\ Cardinality(r) \in Nat
      BY <1>1, <2>1, <3>1
    <3> HIDE DEF r
    <3>3. r \in B
      BY <3>1, <3>2 DEF kSubset
    <3> QED BY <3>1, <3>3
  <2> QED BY <2>2, <2>3
<1>6. kSubset(k + 1, Y) = A \cup C
  BY <1>3, <1>4, <1>5
<1>7. A \cap C = {}
  BY <1>1 DEF kSubset
<1>8. IsFiniteSet(A) /\ IsFiniteSet(B) /\ Cardinality(A) \in Nat /\ Cardinality(B) \in Nat
  BY SubsetsFinite
<1>9. ExistsBijection(B, C)
  <2>1. g \in [B -> C] /\ \A t \in C : \E s \in B : g[s] = t
    OBVIOUS
  <2>2. \A s, t \in B : g[s] = g[t] => s = t
    <3> SUFFICES ASSUME NEW s \in B, NEW t \in B, s \cup {a} = t \cup {a} PROVE s = t
      OBVIOUS
    <3>1. a \notin s /\ a \notin t
      BY <1>1, <1>2
    <3> QED BY <3>1
  <2> HIDE DEF g, B, C
  <2>3. g \in Injection(B, C)
    BY <2>1, <2>2 DEF Injection, IsInjective
  <2>4. g \in Surjection(B, C)
    BY <2>1 DEF Surjection
  <2>5. g \in Bijection(B, C)
    BY <2>3, <2>4 DEF Bijection
  <2> QED BY <2>5 DEF ExistsBijection
<1>10. IsFiniteSet(C) /\ Cardinality(C) = Cardinality(B)
  BY <1>8, <1>9, FS_Bijection
<1>11. Cardinality(A \cup C) = Cardinality(A) + Cardinality(C)
  <2> HIDE DEF A, C
  <2>1. Cardinality(A \cup C) = Cardinality(A) + Cardinality(C) - Cardinality(A \cap C)
    BY <1>8, <1>10, FS_Union
  <2> QED BY <1>7, <1>8, <1>10, <2>1, FS_EmptySet
<1> QED BY <1>6, <1>10, <1>11

LEMMA NoneOfNone ==
  ASSUME NEW k \in Nat, k # 0
  PROVE  Cardinality(kSubset(k, {})) = 0
<1>1. \A s \in SUBSET {} : Cardinality(s) = 0
  BY FS_EmptySet
<1>2. kSubset(k, {}) = {}
  BY <1>1 DEF kSubset
<1> QED BY <1>2, FS_EmptySet

LEMMA OneOfEach ==
  ASSUME NEW X, IsFiniteSet(X)
  PROVE  Cardinality(kSubset(0, X)) = 1
<1>1. \A s \in SUBSET X : Cardinality(s) = 0 <=> s = {}
  BY FS_Subset, FS_EmptySet
<1>2. kSubset(0, X) = {{}}
  BY <1>1 DEF kSubset
<1> QED BY <1>2, FS_Singleton

LEMMA Threes ==
  ASSUME NEW X, IsFiniteSet(X)
  PROVE  LET n == Cardinality(X)
         IN  /\ Cardinality(kSubset(1, X)) = n
             /\ 2 * Cardinality(kSubset(2, X)) = n * (n - 1)
             /\ 6 * Cardinality(kSubset(3, X)) = n * (n - 1) * (n - 2)
<1> DEFINE N(k, s) == Cardinality(kSubset(k, s))
           Right(s) == /\ N(1, s) = Cardinality(s)
                       /\ 2 * N(2, s) = Cardinality(s) * (Cardinality(s) - 1)
                       /\ 6 * N(3, s) = Cardinality(s) * (Cardinality(s) - 1) * (Cardinality(s) - 2)
           Bad == { s \in SUBSET X : ~ Right(s) }
<1> SUFFICES ASSUME Bad # {} PROVE FALSE
  OBVIOUS
<1>1. PICK s \in Bad : \A t \in SUBSET X : t \subseteq s /\ t # s => t \notin Bad
  <2>1. Bad \subseteq SUBSET X
    OBVIOUS
  <2> HIDE DEF Bad
  <2> QED BY <2>1, SmallestOf
<1>2. s # {}
  <2>1. N(1, {}) = 0 /\ N(2, {}) = 0 /\ N(3, {}) = 0 /\ Cardinality({}) = 0
    BY NoneOfNone, FS_EmptySet
  <2> HIDE DEF N
  <2>2. Right({})
    BY <2>1
  <2> QED BY <2>2
<1>3. PICK a \in s : TRUE
  BY <1>2
<1> DEFINE r == s \ {a}
           n == Cardinality(r)
<1>4. r \in SUBSET X /\ r # s /\ r \subseteq s /\ s = r \cup {a} /\ a \notin r
  BY <1>3
<1>5. Right(r)
  BY <1>1, <1>4
<1>6. IsFiniteSet(r) /\ n \in Nat /\ Cardinality(s) = n + 1
  BY <1>4, FS_Subset, FS_CardinalityType, FS_AddElement
<1>7. N(0, r) = 1 /\ N(1, r) \in Nat /\ N(2, r) \in Nat /\ N(3, r) \in Nat
  BY <1>6, OneOfEach, SubsetsFinite
<1>8. N(1, s) = N(1, r) + N(0, r) /\ N(2, s) = N(2, r) + N(1, r) /\ N(3, s) = N(3, r) + N(2, r)
  <2> HIDE DEF r
  <2>1. \A k \in Nat : N(k + 1, r \cup {a}) = N(k + 1, r) + N(k, r)
    BY <1>4, <1>6, Pascal
  <2> HIDE DEF N
  <2>2. N(0 + 1, r \cup {a}) = N(0 + 1, r) + N(0, r) /\ N(1 + 1, r \cup {a}) = N(1 + 1, r) + N(1, r)
        /\ N(2 + 1, r \cup {a}) = N(2 + 1, r) + N(2, r)
    BY <2>1
  <2> QED BY <1>4, <2>2
<1> HIDE DEF N
<1>9. N(1, r) = n /\ 2 * N(2, r) = n * (n - 1) /\ 6 * N(3, r) = n * (n - 1) * (n - 2)
  BY <1>5
<1> HIDE DEF n, r
<1>10. N(1, s) = n + 1 /\ 2 * N(2, s) = n * (n - 1) + 2 * n /\ 6 * N(3, s) = n * (n - 1) * (n - 2) + 3 * (n * (n - 1))
  <2> DEFINE p == n * (n - 1)
             q == n * (n - 1) * (n - 2)
  <2>1. p \in Int /\ q \in Int
    BY <1>6
  <2>2. N(1, r) = n /\ 2 * N(2, r) = p /\ 6 * N(3, r) = q
    BY <1>9
  <2> HIDE DEF p, q
  <2>3. N(1, s) = n + 1 /\ 2 * N(2, s) = p + 2 * n /\ 6 * N(3, s) = q + 3 * p
    <3>1. \A x, y, z \in Nat : x = n /\ 2 * y = p /\ 6 * z = q =>
            x + 1 = n + 1 /\ 2 * (y + x) = p + 2 * n /\ 6 * (z + y) = q + 3 * p
      BY <1>6, <2>1
    <3> QED BY <3>1, <1>7, <1>8, <2>2
  <2> QED BY <2>3 DEF p, q
<1>11. n * (n - 1) + 2 * n = (n + 1) * n
  BY <1>6
<1>12. n * (n - 1) * (n - 2) + 3 * (n * (n - 1)) = (n + 1) * n * (n - 1)
  BY <1>6
<1>13. n = Cardinality(s) - 1 /\ n - 1 = Cardinality(s) - 2 /\ n + 1 = Cardinality(s)
  BY <1>6
<1>14. Right(s)
  BY <1>10, <1>11, <1>12, <1>13
<1> QED BY <1>14
=============================================================================
