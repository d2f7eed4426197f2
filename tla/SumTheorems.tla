---------------------------- MODULE SumTheorems ----------------------------
(***************************************************************************)
(* What the proofs need of the natural numbers and of the community fold   *)
(* SumFunctionOnSet, with which the ledger adds record counts and the      *)
(* publisher bytes: induction over the naturals and over the subsets of a  *)
(* finite set, stated with SETS (an element of T instead of a predicate P),*)
(* and that a sum does not depend on the order in which the fold picks the *)
(* elements, so that elements and disjoint sets can be added and removed.  *)
(***************************************************************************)
EXTENDS Integers, FiniteSetsExt, WellFoundedInduction, FiniteSetTheorems, TLAPS

(* A nonempty set of naturals has a least element. *)
LEMMA LeastNatural ==
  ASSUME NEW T, T \subseteq Nat, T # {}
  PROVE  \E n \in T : \A m \in T : n <= m
<1> DEFINE R == {p \in Nat \X Nat : p[1] < p[2]}
<1>1. OpToRel(<, Nat) = R
  BY Zenon DEF OpToRel
<1>2. IsWellFoundedOn(R, Nat)
  BY <1>1, NatLessThanWellFounded, Zenon
<1>3. \E n \in T : \A m \in T : ~(<<m, n>> \in R)
  BY <1>2, WFMin, Zenon
<1>4. PICK n \in T : \A m \in T : ~(<<m, n>> \in R)
  BY <1>3
<1>5. ASSUME NEW m \in T PROVE n <= m
  <2>1. ~(<<m, n>> \in R)
    BY <1>4
  <2>2. m \in Nat /\ n \in Nat
    BY <1>4
  <2>3. ~(m < n)
    BY <2>1, <2>2
  <2>4. QED
    BY <2>2, <2>3
<1>6. QED
  BY <1>5

(* Induction: a set with 0 and the successor of each of its naturals has    *)
(* them all.                                                                *)
LEMMA NaturalSet ==
  ASSUME NEW T, 0 \in T, \A n \in Nat : n \in T => n + 1 \in T
  PROVE  Nat \subseteq T
<1>1. SUFFICES ASSUME ~(Nat \subseteq T) PROVE FALSE
  OBVIOUS
<1>2. PICK n \in Nat \ T : \A m \in Nat \ T : n <= m
  BY <1>1, LeastNatural
<1>3. n # 0 /\ n - 1 \in Nat /\ n - 1 \in T
  BY <1>2
<1>4. QED
  BY <1>2, <1>3

(* Induction: a family with the empty set and one element more of each of   *)
(* its members has every subset of a finite set.                            *)
LEMMA FiniteSubsets ==
  ASSUME NEW S, IsFiniteSet(S), NEW T, {} \in T,
         \A s \in SUBSET S : s \in T => \A x \in S \ s : s \cup {x} \in T
  PROVE  SUBSET S \subseteq T
<1> DEFINE N == {n \in Nat : \A s \in SUBSET S : Cardinality(s) = n => s \in T}
<1>1. 0 \in N
  BY FS_Subset, FS_EmptySet
<1>2. ASSUME NEW n \in Nat, n \in N PROVE n + 1 \in N
  <2>1. ASSUME NEW s \in SUBSET S, Cardinality(s) = n + 1 PROVE s \in T
    <3>1. IsFiniteSet(s)
      BY FS_Subset
    <3>2. s # {}
      BY <2>1, <3>1, FS_EmptySet
    <3>3. PICK x \in s : TRUE
      BY <3>2
    <3>4. Cardinality(s \ {x}) = Cardinality(s) - 1
      BY <3>1, FS_RemoveElement
    <3>. Cardinality(s \ {x}) = n /\ s \ {x} \in SUBSET S
      BY <2>1, <3>4
    <3>5. s \ {x} \in T
      BY <1>2
    <3>6. s = (s \ {x}) \cup {x} /\ x \in S \ (s \ {x})
      OBVIOUS
    <3>7. QED
      BY <3>5, <3>6
  <2>2. QED
    BY <2>1
<1>3. Nat \subseteq N
  <2> HIDE DEF N
  <2> QED BY <1>1, <1>2, NaturalSet
<1>4. ASSUME NEW s \in SUBSET S PROVE s \in T
  BY <1>3, FS_Subset, FS_CardinalityType
<1>5. QED
  BY <1>4

(* The element the fold takes next, and the table of partial sums it builds.*)
Pick(s) == CHOOSE x \in s : TRUE

IsSum(iter, f, S) ==
  iter = [s \in SUBSET S |->
            IF s = {} THEN 0 ELSE f[Pick(s)] + iter[s \ {Pick(s)}]]

(* SumFunctionOnSet is the entry of that table for the whole set. *)
LEMMA SumDef ==
  ASSUME NEW f, NEW S
  PROVE  SumFunctionOnSet(f, S) = (CHOOSE iter : IsSum(iter, f, S))[S]
  BY DEF SumFunctionOnSet, FoldFunctionOnSet, MapThenFoldSet, IsSum, Pick

(* The recursion of the fold defines a table: one for the sets of at most n *)
(* elements is extended to those of n + 1.                                  *)
LEMMA SumExists ==
  ASSUME NEW f, NEW S, IsFiniteSet(S)
  PROVE  IsSum(CHOOSE iter : IsSum(iter, f, S), f, S)
<1> DEFINE Small(n) == {s \in SUBSET S : Cardinality(s) <= n}
           Partial(g, n) ==
             g = [s \in Small(n) |->
                    IF s = {} THEN 0 ELSE f[Pick(s)] + g[s \ {Pick(s)}]]
           N == {n \in Nat : \E g : Partial(g, n)}
<1>1. 0 \in N
  <2> DEFINE g == [s \in Small(0) |-> 0]
  <2>1. ASSUME NEW s \in Small(0) PROVE s = {}
    <3>1. IsFiniteSet(s) /\ Cardinality(s) <= 0
      BY FS_Subset
    <3>2. QED
      BY <3>1, FS_EmptySet, FS_CardinalityType
  <2>2. Partial(g, 0)
    BY <2>1
  <2>3. QED
    BY <2>2
<1>2. ASSUME NEW n \in Nat, n \in N PROVE n + 1 \in N
  <2>1. PICK g : Partial(g, n)
    BY <1>2
  <2> DEFINE h == [s \in Small(n + 1) |->
                     IF s = {} THEN 0 ELSE f[Pick(s)] + g[s \ {Pick(s)}]]
  <2>2. ASSUME NEW s \in Small(n + 1), s # {}
        PROVE  s \ {Pick(s)} \in Small(n)
    <3>1. Pick(s) \in s
      BY <2>2 DEF Pick
    <3>2. IsFiniteSet(s) /\ Cardinality(s) <= n + 1
      BY FS_Subset
    <3>3. Cardinality(s \ {Pick(s)}) = Cardinality(s) - 1 /\ Cardinality(s) \in Nat
      BY <3>1, <3>2, FS_RemoveElement, FS_CardinalityType
    <3>4. QED
      BY <3>2, <3>3
  <2>3. ASSUME NEW s \in Small(n) PROVE s \in Small(n + 1) /\ h[s] = g[s]
    <3>1. s \in Small(n + 1)
      BY FS_Subset, FS_CardinalityType
    <3>2. g[s] = IF s = {} THEN 0 ELSE f[Pick(s)] + g[s \ {Pick(s)}]
      <4> HIDE DEF Small
      <4> QED BY <2>1, Zenon
    <3>3. QED
      <4> HIDE DEF Small
      <4> QED BY <3>1, <3>2
  <2>4. Partial(h, n + 1)
    <3> HIDE DEF Small
    <3>1. ASSUME NEW s \in Small(n + 1)
          PROVE  h[s] = IF s = {} THEN 0 ELSE f[Pick(s)] + h[s \ {Pick(s)}]
      BY <2>2, <2>3
    <3> HIDE DEF h
    <3>2. h = [s \in Small(n + 1) |-> h[s]]
      BY Zenon DEF h
    <3>3. QED
      BY <3>1, <3>2, Zenon
  <2>5. QED
    <3> HIDE DEF Partial, h
    <3> QED BY <2>4
<1>3. Nat \subseteq N
  <2> HIDE DEF N
  <2> QED BY <1>1, <1>2, NaturalSet
<1>4. Cardinality(S) \in Nat
  BY FS_CardinalityType
<1>5. Small(Cardinality(S)) = SUBSET S
  BY FS_Subset, FS_CardinalityType
<1>6. PICK g : Partial(g, Cardinality(S))
  BY <1>3, <1>4
<1>7. IsSum(g, f, S)
  <2> HIDE DEF Small
  <2> QED BY <1>5, <1>6, Zenon DEF IsSum
<1>8. QED
  BY <1>7, Zenon

SumTable(f, S) == CHOOSE iter : IsSum(iter, f, S)

(* The recursion equation of the table. *)
LEMMA SumTableStep ==
  ASSUME NEW f, NEW S, IsFiniteSet(S), NEW s \in SUBSET S
  PROVE  SumTable(f, S)[s] =
           IF s = {} THEN 0
           ELSE f[Pick(s)] + SumTable(f, S)[s \ {Pick(s)}]
<1> DEFINE T == SumTable(f, S)
<1>1. IsSum(T, f, S)
  BY SumExists DEF SumTable
<1>2. T = [t \in SUBSET S |->
             IF t = {} THEN 0 ELSE f[Pick(t)] + T[t \ {Pick(t)}]]
  BY <1>1, Zenon DEF IsSum
<1> HIDE DEF T
<1>3. T[s] = IF s = {} THEN 0 ELSE f[Pick(s)] + T[s \ {Pick(s)}]
  BY <1>2, Zenon
<1>4. QED
  BY <1>3, Zenon DEF T

(* Tables over different sets and agreeing functions agree. *)
(* The tables of two functions that agree on R agree on R, also when one of *)
(* them was built for a larger set.                                         *)
LEMMA SumTablesAgree ==
  ASSUME NEW f, NEW S, IsFiniteSet(S), NEW g, NEW R \in SUBSET S,
         \A x \in R : f[x] = g[x]
  PROVE  SumTable(f, S)[R] = SumTable(g, R)[R]
<1> DEFINE N == {n \in Nat : \A s \in SUBSET R : Cardinality(s) = n =>
                   SumTable(f, S)[s] = SumTable(g, R)[s]}
<1>0. IsFiniteSet(R)
  BY FS_Subset
<1>1. 0 \in N
  <2>1. ASSUME NEW s \in SUBSET R, Cardinality(s) = 0
        PROVE  SumTable(f, S)[s] = SumTable(g, R)[s]
    <3>1. s = {}
      BY <1>0, <2>1, FS_Subset, FS_EmptySet
    <3>2. SumTable(f, S)[{}] = 0 /\ SumTable(g, R)[{}] = 0
      BY <1>0, SumTableStep
    <3>3. QED
      BY <3>1, <3>2
  <2>2. QED
    BY <2>1
<1>2. ASSUME NEW n \in Nat, n \in N PROVE n + 1 \in N
  <2>1. ASSUME NEW s \in SUBSET R, Cardinality(s) = n + 1
        PROVE  SumTable(f, S)[s] = SumTable(g, R)[s]
    <3> DEFINE x == Pick(s)
    <3>1. IsFiniteSet(s)
      BY <1>0, FS_Subset
    <3>2. s # {}
      BY <2>1, <3>1, FS_EmptySet
    <3>3. x \in s
      BY <3>2 DEF Pick
    <3>4. Cardinality(s \ {x}) = n
      <4>1. Cardinality(s \ {x}) = Cardinality(s) - 1
        BY <3>1, <3>3, FS_RemoveElement
      <4>2. QED
        BY <2>1, <4>1
    <3>5. s \ {x} \in SUBSET R /\ s \in SUBSET S
      OBVIOUS
    <3>6. SumTable(f, S)[s \ {x}] = SumTable(g, R)[s \ {x}]
      <4> HIDE DEF x
      <4> QED BY <1>2, <3>4, <3>5
    <3>7. f[x] = g[x]
      BY <3>3
    <3>8. SumTable(f, S)[s] = f[x] + SumTable(f, S)[s \ {x}]
      BY <3>2, <3>5, SumTableStep
    <3>9. SumTable(g, R)[s] = g[x] + SumTable(g, R)[s \ {x}]
      <4> HIDE DEF x
      <4>1. IsFiniteSet(R) /\ s \in SUBSET R
        BY <1>0
      <4>2. SumTable(g, R)[s] = IF s = {} THEN 0
                                ELSE g[Pick(s)] + SumTable(g, R)[s \ {Pick(s)}]
        BY <4>1, SumTableStep
      <4>3. QED
        BY <3>2, <4>2 DEF x
    <3>10. QED
      BY <3>6, <3>7, <3>8, <3>9
  <2>2. QED
    BY <2>1
<1>3. Nat \subseteq N
  <2> HIDE DEF N
  <2> QED BY <1>1, <1>2, NaturalSet
<1>4. QED
  BY <1>0, <1>3, FS_CardinalityType

(* One table serves the sums over all subsets. *)
LEMMA SumIsTable ==
  ASSUME NEW f, NEW S, IsFiniteSet(S), NEW R \in SUBSET S
  PROVE  SumFunctionOnSet(f, R) = SumTable(f, S)[R]
<1>1. SumFunctionOnSet(f, R) = SumTable(f, R)[R]
  BY SumDef DEF SumTable
<1>2. QED
  BY <1>1, SumTablesAgree

(* The sum over no element is 0. *)
THEOREM SumEmpty == ASSUME NEW f PROVE SumFunctionOnSet(f, {}) = 0
<1>1. IsFiniteSet({})
  BY FS_EmptySet
<1>2. QED
  BY <1>1, SumIsTable, SumTableStep

(* Sums of functions that agree on the set are equal. *)
THEOREM SumAgrees ==
  ASSUME NEW f, NEW g, NEW S, IsFiniteSet(S), \A x \in S : f[x] = g[x]
  PROVE  SumFunctionOnSet(f, S) = SumFunctionOnSet(g, S)
<1>1. SumFunctionOnSet(f, S) = SumTable(f, S)[S]
  BY SumIsTable
<1>2. SumFunctionOnSet(g, S) = SumTable(g, S)[S]
  BY SumIsTable
<1>3. QED
  BY <1>1, <1>2, SumTablesAgree

(* The fold takes off its chosen element first. *)
LEMMA SumPick ==
  ASSUME NEW f, NEW S, IsFiniteSet(S), S # {}
  PROVE  /\ Pick(S) \in S
         /\ SumFunctionOnSet(f, S) = f[Pick(S)] + SumFunctionOnSet(f, S \ {Pick(S)})
<1>1. Pick(S) \in S
  BY DEF Pick
<1>2. SumTable(f, S)[S] = f[Pick(S)] + SumTable(f, S)[S \ {Pick(S)}]
  BY SumTableStep
<1>3. QED
  BY <1>1, <1>2, SumIsTable

(* A sum of naturals is a natural. *)
THEOREM SumType ==
  ASSUME NEW S, IsFiniteSet(S), NEW f, \A x \in S : f[x] \in Nat
  PROVE  SumFunctionOnSet(f, S) \in Nat
<1> DEFINE N == {n \in Nat : \A s \in SUBSET S : Cardinality(s) = n =>
                   SumFunctionOnSet(f, s) \in Nat}
<1>1. 0 \in N
  BY FS_Subset, FS_EmptySet, SumEmpty
<1>2. ASSUME NEW n \in Nat, n \in N PROVE n + 1 \in N
  <2>1. ASSUME NEW s \in SUBSET S, Cardinality(s) = n + 1
        PROVE  SumFunctionOnSet(f, s) \in Nat
    <3> DEFINE x == Pick(s)
    <3>1. IsFiniteSet(s)
      BY FS_Subset
    <3>2. s # {}
      BY <2>1, <3>1, FS_EmptySet
    <3>3. x \in s /\ SumFunctionOnSet(f, s) = f[x] + SumFunctionOnSet(f, s \ {x})
      BY <3>1, <3>2, SumPick
    <3>4. Cardinality(s \ {x}) = Cardinality(s) - 1
      BY <3>1, <3>3, FS_RemoveElement
    <3> HIDE DEF x
    <3>5. SumFunctionOnSet(f, s \ {x}) \in Nat
      BY <1>2, <2>1, <3>4
    <3>6. QED
      BY <3>3, <3>5
  <2>2. QED
    BY <2>1
<1>3. Nat \subseteq N
  <2> HIDE DEF N
  <2> QED BY <1>1, <1>2, NaturalSet
<1>4. QED
  BY <1>3, FS_CardinalityType

(* Any element can be taken off: the order of the fold does not matter. *)
THEOREM SumRemove ==
  ASSUME NEW S, IsFiniteSet(S), NEW f, \A x \in S : f[x] \in Nat, NEW y \in S
  PROVE  SumFunctionOnSet(f, S) = f[y] + SumFunctionOnSet(f, S \ {y})
<1> DEFINE N == {n \in Nat : \A s \in SUBSET S : Cardinality(s) = n =>
                   \A x \in s : SumFunctionOnSet(f, s) =
                                  f[x] + SumFunctionOnSet(f, s \ {x})}
<1>1. 0 \in N
  BY FS_Subset, FS_EmptySet
<1>2. ASSUME NEW n \in Nat, n \in N PROVE n + 1 \in N
  <2>1. ASSUME NEW s \in SUBSET S, Cardinality(s) = n + 1, NEW x \in s
        PROVE  SumFunctionOnSet(f, s) = f[x] + SumFunctionOnSet(f, s \ {x})
    <3> DEFINE p == Pick(s)
    <3>1. IsFiniteSet(s)
      BY FS_Subset
    <3>2. p \in s /\ SumFunctionOnSet(f, s) = f[p] + SumFunctionOnSet(f, s \ {p})
      BY <3>1, SumPick
    <3> HIDE DEF p
    <3>3. CASE x = p
      BY <3>2, <3>3
    <3>4. CASE x # p
      <4>1. /\ Cardinality(s \ {p}) = n /\ s \ {p} \in SUBSET S
            /\ Cardinality(s \ {x}) = n /\ s \ {x} \in SUBSET S
        <5>1. /\ Cardinality(s \ {p}) = Cardinality(s) - 1
              /\ Cardinality(s \ {x}) = Cardinality(s) - 1
          BY <3>1, <3>2, FS_RemoveElement
        <5>2. QED
          BY <2>1, <5>1
      <4>2. SumFunctionOnSet(f, s \ {p})
              = f[x] + SumFunctionOnSet(f, (s \ {p}) \ {x})
        BY <1>2, <3>4, <4>1
      <4>3. SumFunctionOnSet(f, s \ {x})
              = f[p] + SumFunctionOnSet(f, (s \ {x}) \ {p})
        BY <1>2, <3>2, <3>4, <4>1
      <4>4. (s \ {p}) \ {x} = (s \ {x}) \ {p}
        OBVIOUS
      <4>5. SumFunctionOnSet(f, (s \ {x}) \ {p}) \in Nat
        <5>1. IsFiniteSet((s \ {x}) \ {p})
          BY <3>1, FS_RemoveElement
        <5>2. QED
          BY <5>1, SumType
      <4>6. f[x] \in Nat /\ f[p] \in Nat
        BY <3>2
      <4>7. QED
        BY <3>2, <4>2, <4>3, <4>4, <4>5, <4>6
    <3>5. QED
      BY <3>3, <3>4
  <2>2. QED
    BY <2>1
<1>3. Nat \subseteq N
  <2> HIDE DEF N
  <2> QED BY <1>1, <1>2, NaturalSet
<1>4. QED
  BY <1>3, FS_CardinalityType

(* A new element adds its value. *)
THEOREM SumAdd ==
  ASSUME NEW S, IsFiniteSet(S), NEW x, x \notin S,
         NEW f, \A y \in S \cup {x} : f[y] \in Nat
  PROVE  SumFunctionOnSet(f, S \cup {x}) = f[x] + SumFunctionOnSet(f, S)
<1>1. IsFiniteSet(S \cup {x})
  BY FS_AddElement
<1>2. (S \cup {x}) \ {x} = S
  OBVIOUS
<1>3. SumFunctionOnSet(f, S \cup {x}) =
        f[x] + SumFunctionOnSet(f, (S \cup {x}) \ {x})
  BY <1>1, SumRemove
<1>4. QED
  BY <1>2, <1>3

(* The sum over two disjoint sets. *)
THEOREM SumUnion ==
  ASSUME NEW S, IsFiniteSet(S), NEW R, IsFiniteSet(R), S \cap R = {},
         NEW f, \A y \in S \cup R : f[y] \in Nat
  PROVE  SumFunctionOnSet(f, S \cup R) =
           SumFunctionOnSet(f, S) + SumFunctionOnSet(f, R)
<1> DEFINE T == {t \in SUBSET R : SumFunctionOnSet(f, S \cup t) =
                   SumFunctionOnSet(f, S) + SumFunctionOnSet(f, t)}
<1>1. {} \in T
  <2>1. S \cup {} = S /\ SumFunctionOnSet(f, S) \in Nat
    BY SumType
  <2>2. QED
    BY <2>1, SumEmpty
<1>2. ASSUME NEW t \in SUBSET R, t \in T, NEW x \in R \ t PROVE t \cup {x} \in T
  <2>1. IsFiniteSet(t) /\ IsFiniteSet(S \cup t)
    BY FS_Subset, FS_Union
  <2>2. SumFunctionOnSet(f, t \cup {x}) = f[x] + SumFunctionOnSet(f, t)
    BY <2>1, SumAdd
  <2>3. SumFunctionOnSet(f, (S \cup t) \cup {x}) = f[x] + SumFunctionOnSet(f, S \cup t)
    BY <2>1, SumAdd
  <2>4. /\ SumFunctionOnSet(f, S) \in Nat /\ SumFunctionOnSet(f, t) \in Nat
        /\ f[x] \in Nat
    BY <2>1, SumType
  <2>5. S \cup (t \cup {x}) = (S \cup t) \cup {x}
    OBVIOUS
  <2>6. SumFunctionOnSet(f, S \cup (t \cup {x}))
          = SumFunctionOnSet(f, S) + SumFunctionOnSet(f, t \cup {x})
    <3>1. SumFunctionOnSet(f, S \cup t)
            = SumFunctionOnSet(f, S) + SumFunctionOnSet(f, t)
      BY <1>2
    <3>2. QED
      BY <2>2, <2>3, <2>4, <2>5, <3>1
  <2>7. QED
    BY <2>6
<1>3. SUBSET R \subseteq T
  <2> HIDE DEF T
  <2> QED BY <1>1, <1>2, FiniteSubsets
<1>4. QED
  BY <1>3

(* A part sums to no more than the whole. *)
THEOREM SumSubset ==
  ASSUME NEW S, IsFiniteSet(S), NEW R \in SUBSET S,
         NEW f, \A y \in S : f[y] \in Nat
  PROVE  SumFunctionOnSet(f, R) <= SumFunctionOnSet(f, S)
<1>1. IsFiniteSet(R) /\ IsFiniteSet(S \ R)
  BY FS_Subset
<1>2. SumFunctionOnSet(f, S) = SumFunctionOnSet(f, R) + SumFunctionOnSet(f, S \ R)
  <2>1. S = R \cup (S \ R) /\ R \cap (S \ R) = {}
    OBVIOUS
  <2>2. QED
    BY <1>1, <2>1, SumUnion
<1>3. SumFunctionOnSet(f, R) \in Nat /\ SumFunctionOnSet(f, S \ R) \in Nat
  BY <1>1, SumType
<1>4. QED
  BY <1>2, <1>3

(* The sizes of disjoint sets add up to the size of their union. *)
THEOREM SumOfParts ==
  ASSUME NEW S, IsFiniteSet(S),
         NEW P \in SUBSET SUBSET S,
         \A a, b \in P : a # b => a \cap b = {},
         NEW f, \A a \in P : f[a] = Cardinality(a)
  PROVE  SumFunctionOnSet(f, P) = Cardinality(UNION P)
<1>0. IsFiniteSet(P)
  BY FS_SUBSET, FS_Subset
<1> DEFINE T == {t \in SUBSET P : SumFunctionOnSet(f, t) = Cardinality(UNION t)}
<1>1. {} \in T
  <2>1. UNION {} = {} /\ SumFunctionOnSet(f, {}) = 0 /\ Cardinality({}) = 0
    BY SumEmpty, FS_EmptySet
  <2>2. QED
    BY <2>1
<1>2. ASSUME NEW t \in SUBSET P, t \in T, NEW x \in P \ t PROVE t \cup {x} \in T
  <2>1. IsFiniteSet(t) /\ IsFiniteSet(UNION t) /\ IsFiniteSet(x)
    <3>1. UNION t \in SUBSET S /\ x \in SUBSET S
      OBVIOUS
    <3>2. QED
      BY <1>0, <3>1, FS_Subset
  <2>2. \A y \in P : f[y] \in Nat
    <3>1. ASSUME NEW y \in P PROVE IsFiniteSet(y)
      BY FS_Subset
    <3>2. QED
      BY <3>1, FS_CardinalityType
  <2>3. SumFunctionOnSet(f, t \cup {x}) = f[x] + SumFunctionOnSet(f, t)
    BY <2>1, <2>2, SumAdd
  <2>4. UNION (t \cup {x}) = x \cup UNION t /\ x \cap UNION t = {}
    BY <1>2
  <2>5. Cardinality(x \cup UNION t) =
          Cardinality(x) + Cardinality(UNION t) - Cardinality(x \cap UNION t)
    BY <2>1, FS_Union
  <2>6. Cardinality(x) \in Nat /\ Cardinality(UNION t) \in Nat /\ Cardinality({}) = 0
    BY <2>1, FS_CardinalityType, FS_EmptySet
  <2>7. SumFunctionOnSet(f, t) = Cardinality(UNION t) /\ f[x] = Cardinality(x)
    BY <1>2
  <2>8. SumFunctionOnSet(f, t \cup {x}) = Cardinality(UNION (t \cup {x}))
    <3>1. Cardinality(x \cap UNION t) = 0
      BY <2>4, <2>6
    <3>2. Cardinality(x \cup UNION t) = Cardinality(x) + Cardinality(UNION t)
      BY <2>5, <2>6, <3>1
    <3>3. Cardinality(UNION (t \cup {x})) = Cardinality(x) + Cardinality(UNION t)
      BY <2>4, <3>2
    <3>4. QED
      BY <2>3, <2>7, <3>3
  <2>9. QED
    BY <2>8
<1>3. SUBSET P \subseteq T
  <2> HIDE DEF T
  <2> QED BY <1>0, <1>1, <1>2, FiniteSubsets
<1>4. QED
  BY <1>3
=============================================================================
