-------------------------- MODULE FileChunksProofs --------------------------
(***************************************************************************)
(* What is proved of FileChunks for every file, configuration and limit.   *)
(* A plan is a list of cuts f[0] < ... < f[k] of the file (Cuts, CutInto): *)
(* TextPlan, WholePlan, JsonPlan and MultiLinePlan find them, and Partition*)
(* says that cuts divide a file.  What was sent is what the passes read and*)
(* own (PlanMade, History), so the properties of the events follow from    *)
(* what one pass reads.  That is a part of the file: StartsOfFile,         *)
(* StartsOfPart and TerminatedLine compare its lines with those of the     *)
(* file, HeadIsTail what is read from inside a line, ChunkEndsAtBreak and  *)
(* WholeRecords say why no multi-line record is cut, and AlignedElements   *)
(* why a read that begins inside a string finds the elements of an array.  *)
(***************************************************************************)
EXTENDS FileChunks, SumTheorems

-----------------------------------------------------------------------------
(* Division and least elements.                                             *)
LEMMA Quotient ==
  ASSUME NEW m \in Nat, NEW n \in Nat \ {0}
  PROVE  /\ m \div n \in Nat
         /\ n * (m \div n) <= m /\ m < n * (m \div n) + n
  OBVIOUS

LEMMA QuotientIs ==
  ASSUME NEW m \in Nat, NEW n \in Nat \ {0}, NEW q \in Nat,
         n * q <= m, m < n * q + n
  PROVE  m \div n = q
  OBVIOUS

LEMMA ProductMonotone ==
  ASSUME NEW a \in Nat, NEW b \in Nat, NEW n \in Nat, a <= b
  PROVE  n * a <= n * b /\ n * a \in Nat /\ n * b \in Nat
  OBVIOUS

LEMMA QuotientMonotone ==
  ASSUME NEW a \in Nat, NEW b \in Nat, NEW n \in Nat \ {0}, a <= b
  PROVE  a \div n <= b \div n
  OBVIOUS

LEMMA Least ==
  ASSUME NEW S, S \subseteq Nat, S # {}
  PROVE  Min(S) \in S /\ \A x \in S : Min(S) <= x
<1>1. \E n \in S : \A m \in S : n <= m
  BY LeastNatural
<1> QED BY <1>1 DEF Min

LEMMA LeastOfTwo ==
  ASSUME NEW a \in Int, NEW b \in Int
  PROVE  /\ Min({a, b}) = IF a <= b THEN a ELSE b
         /\ Max({a, b}) = IF a >= b THEN a ELSE b
<1>1. Min({a, b}) = IF a <= b THEN a ELSE b
  <2> DEFINE m == IF a <= b THEN a ELSE b
  <2>1. m \in {a, b} /\ \A x \in {a, b} : m <= x
    OBVIOUS
  <2>2. \A y \in {a, b} : (\A x \in {a, b} : y <= x) => y = m
    OBVIOUS
  <2> QED BY <2>1, <2>2 DEF Min
<1>2. Max({a, b}) = IF a >= b THEN a ELSE b
  <2> DEFINE m == IF a >= b THEN a ELSE b
  <2>1. m \in {a, b} /\ \A x \in {a, b} : m >= x
    OBVIOUS
  <2>2. \A y \in {a, b} : (\A x \in {a, b} : y >= x) => y = m
    OBVIOUS
  <2> QED BY <2>1, <2>2 DEF Max
<1> QED BY <1>1, <1>2

(* A file cut at the points f[0] <= ... <= f[k]. *)
LEMMA Partition ==
  ASSUME NEW k \in Nat, NEW f \in [0..k -> Nat],
         f[0] = 0, \A c, d \in 0..k : c <= d => f[c] <= f[d],
         NEW i \in 0..(f[k] - 1)
  PROVE  \E c \in 0..(k - 1) :
           /\ i \in f[c]..(f[c + 1] - 1)
           /\ \A d \in 0..(k - 1) : d # c => i \notin f[d]..(f[d + 1] - 1)
<1> DEFINE T == {c \in 0..k : i < f[c]}
<1>1. T \subseteq Nat /\ k \in T
  OBVIOUS
<1>2. PICK t \in T : \A s \in T : t <= s
  <2> HIDE DEF T
  <2> QED BY <1>1, LeastNatural
<1>3. t # 0 /\ t \in 0..k /\ i < f[t]
  BY <1>2
<1>4. t - 1 \in 0..(k - 1) /\ t - 1 \in 0..k /\ t - 1 \notin T /\ (t - 1) + 1 = t
  BY <1>2, <1>3
<1>5. f[t - 1] <= i
  BY <1>4
<1>6. ASSUME NEW d \in 0..(k - 1), d # t - 1 PROVE i \notin f[d]..(f[d + 1] - 1)
  <2>1. d \in 0..k /\ d + 1 \in 0..k
    OBVIOUS
  <2>2. CASE d + 1 <= t - 1
    <3>1. f[d + 1] <= f[t - 1]
      BY <1>4, <2>1, <2>2
    <3> QED BY <1>4, <1>5, <2>1, <3>1
  <2>3. CASE t <= d
    <3>1. f[t] <= f[d]
      BY <1>3, <2>1, <2>3
    <3> QED BY <1>3, <2>1, <3>1
  <2>4. t \in Int
    BY <1>3
  <2> QED BY <1>6, <2>2, <2>3, <2>4
<1>7. i \in f[t - 1]..(f[(t - 1) + 1] - 1)
  BY <1>3, <1>4, <1>5
<1> QED BY <1>4, <1>6, <1>7

-----------------------------------------------------------------------------
(* Planning. *)
LEMMA InputTypes ==
  ASSUME input \in Inputs
  PROVE  /\ input.dataType \in DataTypes
         /\ size \in Nat /\ DOMAIN file = 0..(size - 1)
         /\ limit \in Nat /\ (input.dataType # "text" => limit > 0)
         /\ input.maxChunk \in Nat \ {0} /\ input.target \in Nat
         /\ input.perChunk \in Nat \ {0}
         /\ MinimumTarget \in Nat \ {0} /\ AutomaticChunkCount \in Nat \ {0}
         /\ OverlapRecords \in Nat \ {0} /\ DefaultLineLimit \in Nat \ {0}
<1>1. IsInput(input)
  BY ChunkingConstants
<1>2. IsFiniteSet(DOMAIN file) /\ DOMAIN file = 0..(size - 1)
  BY <1>1 DEF IsInput, file, size
<1>3. size \in Nat
  BY <1>2, FS_CardinalityType DEF size
<1> QED BY <1>1, <1>2, <1>3, ChunkingConstants DEF IsInput, limit

LEMMA Ceiling ==
  ASSUME NEW m \in Nat \ {0}, NEW n \in Nat \ {0}
  PROVE  /\ CeilDiv(m, n) \in Nat \ {0}
         /\ n * CeilDiv(m, n) >= m /\ n * (CeilDiv(m, n) - 1) < m
<1>1. m + n - 1 \in Nat
  OBVIOUS
<1>2. PICK q : q = (m + n - 1) \div n
  OBVIOUS
<1>3. q \in Nat /\ n * q <= m + n - 1 /\ m + n - 1 < n * q + n
  BY <1>1, <1>2, Quotient
<1>4. q # 0
  BY <1>3
<1>5. n * (q - 1) = n * q - n
  BY <1>3
<1>6. n * q \in Nat
  BY <1>3
<1> QED BY <1>2, <1>3, <1>4, <1>5, <1>6 DEF CeilDiv

LEMMA TextCount ==
  ASSUME input \in Inputs, size > 0
  PROVE  /\ TextChunkCount \in Nat \ {0} /\ TextChunkCount <= size
         /\ size <= Max({size \div MinimumTarget, 1}) * input.maxChunk
              => size <= TextChunkCount * input.maxChunk
<1>1. /\ size \in Nat \ {0} /\ MinimumTarget \in Nat \ {0}
      /\ input.maxChunk \in Nat \ {0} /\ input.target \in Nat
      /\ AutomaticChunkCount \in Nat \ {0}
  BY InputTypes
<1>2. CASE size < MinimumTarget
  <2>1. size \div MinimumTarget = 0
    BY <1>1, <1>2, QuotientIs
  <2>2. Max({size \div MinimumTarget, 1}) = 1
    BY <2>1, LeastOfTwo
  <2> QED BY <1>1, <1>2, <2>2 DEF TextChunkCount
<1>3. CASE size >= MinimumTarget
  <2>1. PICK q : q = size \div MinimumTarget
    OBVIOUS
  <2>2. q \in Nat /\ MinimumTarget * q <= size /\ size < MinimumTarget * q + MinimumTarget
    BY <1>1, <2>1, Quotient
  <2>3. q # 0 /\ q <= size
    BY <1>1, <1>3, <2>2
  <2>4. DesiredChunks \in Nat \ {0}
    BY <1>1, Ceiling DEF DesiredChunks
  <2>5. PICK n : n = CeilDiv(size, input.maxChunk)
    OBVIOUS
  <2>6. n \in Nat \ {0} /\ input.maxChunk * n >= size
    BY <1>1, <2>5, Ceiling
  <2>7. PICK m : m = Max({DesiredChunks, n})
    OBVIOUS
  <2>8. m \in Nat \ {0} /\ n <= m
    <3>1. DesiredChunks \in Int /\ n \in Int
      BY <2>4, <2>6
    <3>2. m = IF DesiredChunks >= n THEN DesiredChunks ELSE n
      BY <2>7, <3>1, LeastOfTwo
    <3> QED BY <2>4, <2>6, <3>2
  <2>9. TextChunkCount = Min({m, q})
    BY <1>1, <1>3, <2>1, <2>5, <2>7 DEF TextChunkCount
  <2>10. TextChunkCount = IF m <= q THEN m ELSE q
    BY <2>2, <2>8, <2>9, LeastOfTwo
  <2>11. CASE m <= q
    <3>1. input.maxChunk * n <= input.maxChunk * m
      BY <1>1, <2>6, <2>8, ProductMonotone
    <3>2. /\ input.maxChunk * n \in Nat /\ input.maxChunk * m \in Nat
          /\ input.maxChunk * m = m * input.maxChunk
      BY <1>1, <2>6, <2>8
    <3>3. m * input.maxChunk >= size
      BY <1>1, <2>6, <3>1, <3>2
    <3> QED BY <1>1, <2>2, <2>3, <2>8, <2>10, <2>11, <3>3
  <2>12. CASE ~(m <= q)
    <3>1. Max({q, 1}) = q
      BY <2>2, <2>3, LeastOfTwo
    <3> QED BY <1>1, <2>1, <2>2, <2>3, <2>10, <2>12, <3>1
  <2> QED BY <2>11, <2>12
<1> QED BY <1>1, <1>2, <1>3

(* The cuts of a text file.  Every chunk has a byte, and when the limit has *)
(* room none is larger than it.                                             *)
TextCut(k, f) ==
  /\ k = TextChunkCount /\ f = [c \in 0..k |-> (size * c) \div k]
  /\ k \in Nat \ {0} /\ f \in [0..k -> Nat] /\ f[0] = 0 /\ f[k] = size
  /\ \A c, d \in 0..k : c <= d => f[c] <= f[d]
  /\ \A c \in 0..(k - 1) : f[c] < f[c + 1]
  /\ size <= Max({size \div MinimumTarget, 1}) * input.maxChunk
       => \A c \in 0..(k - 1) : f[c + 1] - f[c] <= input.maxChunk

LEMMA TextCuts ==
  ASSUME input \in Inputs, size > 0
  PROVE  \E k, f : TextCut(k, f)
<1>k. PICK k : k = TextChunkCount
  OBVIOUS
<1>f. PICK f : f = [c \in 0..k |-> (size * c) \div k]
  OBVIOUS
<1>1. /\ size \in Nat \ {0} /\ MinimumTarget \in Nat \ {0}
      /\ input.maxChunk \in Nat \ {0}
  BY InputTypes
<1>2. /\ k \in Nat \ {0} /\ k <= size
      /\ size <= Max({size \div MinimumTarget, 1}) * input.maxChunk
           => size <= k * input.maxChunk
  BY <1>k, TextCount
<1> DEFINE s == size
           m == input.maxChunk
<1> HIDE DEF s, m
<1>3. /\ s \in Nat \ {0} /\ m \in Nat \ {0}
      /\ f = [c \in 0..k |-> (s * c) \div k] /\ k <= s
  BY <1>f, <1>1, <1>2 DEF s, m
<1>4. \A c \in 0..k : /\ f[c] = (s * c) \div k /\ c \in Nat /\ s * c \in Nat
                      /\ f[c] \in Nat
                      /\ k * f[c] <= s * c /\ s * c < k * f[c] + k
  <2>1. ASSUME NEW c \in 0..k
        PROVE  /\ f[c] = (s * c) \div k /\ c \in Nat /\ s * c \in Nat
               /\ f[c] \in Nat
               /\ k * f[c] <= s * c /\ s * c < k * f[c] + k
    <3>1. f[c] = (s * c) \div k /\ c \in Nat /\ s * c \in Nat
      BY <1>2, <1>3
    <3> QED BY <1>2, <3>1, Quotient
  <2> QED BY <2>1
<1>5. f \in [0..k -> Nat]
  BY <1>3, <1>4
<1>6. f[0] = 0
  <2>1. 0 \in 0..k /\ s * 0 = 0
    BY <1>2, <1>3
  <2> QED BY <1>2, <1>4, <2>1, QuotientIs
<1>7. f[k] = s
  <2>1. k \in 0..k /\ s * k = k * s
    BY <1>2, <1>3
  <2> QED BY <1>2, <1>3, <1>4, <2>1, QuotientIs
<1>8. ASSUME NEW c \in 0..k, NEW d \in 0..k, c <= d PROVE f[c] <= f[d]
  <2>1. s * c <= s * d
    BY <1>3, <1>4, <1>8, ProductMonotone
  <2> QED BY <1>2, <1>4, <2>1, QuotientMonotone
<1>9. ASSUME NEW c \in 0..(k - 1)
      PROVE  /\ c \in 0..k /\ c + 1 \in 0..k
             /\ f[c] \in Nat /\ f[c + 1] \in Nat
             /\ k * (f[c + 1] - f[c]) < s + k /\ k * (f[c + 1] - f[c]) > s - k
  <2>1. c \in 0..k /\ c + 1 \in 0..k /\ c \in Nat
    BY <1>2
  <2>2. PICK a, b : a = f[c] /\ b = f[c + 1] /\ a \in Nat /\ b \in Nat
    BY <1>4, <2>1
  <2>3. /\ k * a <= s * c /\ s * c < k * a + k
        /\ k * b <= s * (c + 1) /\ s * (c + 1) < k * b + k
    BY <1>4, <2>1, <2>2
  <2>4. s * (c + 1) = s * c + s
    BY <1>3, <2>1
  <2>5. k * (b - a) = k * b - k * a
    BY <1>2, <2>2
  <2>6. PICK u, v, w : u = k * a /\ v = k * b /\ w = s * c
    OBVIOUS
  <2>7. u \in Int /\ v \in Int /\ w \in Int
    BY <1>2, <1>3, <2>1, <2>2, <2>6
  <2>8. u <= w /\ w < u + k /\ v <= w + s /\ w + s < v + k
    BY <2>3, <2>4, <2>6
  <2>9. v - u < s + k /\ v - u > s - k
    BY <1>2, <1>3, <2>7, <2>8
  <2>10. k * (f[c + 1] - f[c]) = v - u
    BY <2>2, <2>5, <2>6
  <2> QED BY <2>1, <2>2, <2>9, <2>10
<1>10. ASSUME NEW c \in 0..(k - 1) PROVE f[c] < f[c + 1]
  <2>1. PICK x : x = f[c + 1] - f[c]
    OBVIOUS
  <2>2. x \in Int /\ k * x > s - k
    BY <1>9, <2>1
  <2>3. x > 0
    BY <1>2, <1>3, <2>2
  <2> QED BY <1>9, <2>1, <2>2, <2>3
<1>11. ASSUME s <= k * m, NEW c \in 0..(k - 1)
       PROVE  f[c + 1] - f[c] <= m
  <2>1. PICK x : x = f[c + 1] - f[c]
    OBVIOUS
  <2>2. x \in Int /\ k * x < s + k
    BY <1>9, <2>1
  <2> SUFFICES ASSUME x >= m + 1 PROVE FALSE
    BY <1>3, <2>1, <2>2
  <2>3. x \in Nat
    BY <1>3, <2>2
  <2>4. k * (m + 1) <= k * x /\ k * x \in Nat
    BY <1>2, <1>3, <2>3, ProductMonotone
  <2>5. k * (m + 1) = k * m + k /\ k * m \in Nat
    BY <1>2, <1>3
  <2> QED BY <1>2, <1>3, <1>11, <2>2, <2>4, <2>5
<1>12. TextCut(k, f)
  <2>1. \A c, d \in 0..k : c <= d => f[c] <= f[d]
    BY <1>8
  <2>2. \A c \in 0..(k - 1) : f[c] < f[c + 1]
    BY <1>10
  <2>3. s <= k * m => \A c \in 0..(k - 1) : f[c + 1] - f[c] <= m
    BY <1>11
  <2> QED BY <1>k, <1>f, <1>2, <1>5, <1>6, <1>7, <2>1, <2>2, <2>3 DEF TextCut, s, m
<1> QED BY <1>12

(* The cuts of the other formats, and their last bytes.                     *)
FixedCut(k, f) ==
  /\ NominalSize \in Nat \ {0}
  /\ k \in Nat \ {0} /\ Cardinality(NominalStarts) = k
  /\ NominalStarts = { c * NominalSize : c \in 0..(k - 1) }
  /\ f \in [0..k -> Nat] /\ f[0] = 0 /\ f[k] = size
  /\ \A c, d \in 0..k : c <= d => f[c] <= f[d]
  /\ \A c \in 0..(k - 1) :
       /\ c * NominalSize = f[c] /\ OwnedEnd(c * NominalSize) = f[c + 1] - 1
       /\ f[c] < f[c + 1] /\ f[c + 1] - f[c] <= NominalSize
       /\ f[c + 1] <= size

LEMMA FixedCuts ==
  ASSUME input \in Inputs, size > 0, input.dataType # "text"
  PROVE  \E k, f : FixedCut(k, f)
<1>k. PICK k : k = CeilDiv(size, NominalSize)
  OBVIOUS
<1>f. PICK f : f = [c \in 0..k |-> IF c < k THEN c * NominalSize ELSE size]
  OBVIOUS
<1>1. size \in Nat \ {0} /\ limit \in Nat \ {0} /\ input.perChunk \in Nat \ {0}
  BY InputTypes
<1> DEFINE s == size
           n == NominalSize
<1>2. n \in Nat \ {0} /\ s \in Nat \ {0}
  <2>1. \A x, y \in Nat \ {0} : x * y \in Nat \ {0}
    OBVIOUS
  <2> QED BY <1>1, <2>1 DEF NominalSize
<1> HIDE DEF s, n
<1>3. k \in Nat \ {0} /\ n * k >= s /\ n * (k - 1) < s
  BY <1>k, <1>2, Ceiling DEF s, n
<1>4. NominalStarts = { c * n : c \in 0..(k - 1) }
  BY <1>k DEF NominalStarts, n
<1>5. Cardinality(NominalStarts) = k
  <2> DEFINE g == [c \in 0..(k - 1) |-> c * n]
  <2>1. \A a, b \in 0..(k - 1) : a * n = b * n => a = b
    <3>1. ASSUME NEW a \in 0..(k - 1), NEW b \in 0..(k - 1), a < b PROVE a * n # b * n
      <4>1. n * (a + 1) <= n * b
        BY <1>2, <1>3, <3>1, ProductMonotone
      <4>2. n * (a + 1) = a * n + n /\ n * b = b * n /\ a * n \in Int
        BY <1>2, <3>1
      <4> QED BY <1>2, <4>1, <4>2
    <3> QED BY <3>1
  <2>2. g \in [0..(k - 1) -> NominalStarts] /\ DOMAIN g = 0..(k - 1)
        /\ \A a, b \in 0..(k - 1) : g[a] = g[b] => a = b
    BY <1>4, <2>1
  <2>3. \A x \in NominalStarts : \E a \in 0..(k - 1) : g[a] = x
    BY <1>4
  <2> HIDE DEF g
  <2>4. g \in Injection(0..(k - 1), NominalStarts) /\ g \in Surjection(0..(k - 1), NominalStarts)
    BY <2>2, <2>3 DEF Injection, IsInjective, Surjection
  <2>5. IsFiniteSet(0..(k - 1)) /\ Cardinality(0..(k - 1)) = k
    <3>1. 0 \in Int /\ k - 1 \in Int
      BY <1>3
    <3>2. /\ IsFiniteSet(0..(k - 1))
          /\ Cardinality(0..(k - 1)) = IF 0 > k - 1 THEN 0 ELSE (k - 1) - 0 + 1
      BY <3>1, FS_Interval, Zenon
    <3> QED BY <1>3, <3>2
  <2>6. Cardinality(NominalStarts) = Cardinality(0..(k - 1))
    BY <2>4, <2>5, FS_Surjection
  <2> QED BY <2>5, <2>6
<1>6. f = [c \in 0..k |-> IF c < k THEN c * n ELSE s]
  BY <1>f DEF s, n
<1>7. /\ \A c \in 0..(k - 1) : f[c] = c * n /\ f[c] \in Nat /\ c + 1 \in 0..k
      /\ f[k] = s /\ f[0] = 0 /\ f \in [0..k -> Nat]
  <2>1. \A c \in 0..k : c * n \in Nat
    BY <1>2, <1>3
  <2>2. 0 * n = 0
    BY <1>2
  <2> QED BY <1>2, <1>3, <1>6, <2>1, <2>2
<1>8. ASSUME NEW c \in 0..(k - 1)
      PROVE  /\ f[c] < f[c + 1] /\ f[c + 1] - f[c] <= n
             /\ f[c + 1] <= s /\ OwnedEnd(c * n) = f[c + 1] - 1
  <2>1. n * c <= n * (k - 1) /\ n * c = c * n /\ c * n \in Nat
    BY <1>2, <1>3, ProductMonotone
  <2>2. PICK p, q : p = c * n /\ q = n * (k - 1)
    OBVIOUS
  <2>3. p \in Nat /\ q \in Int /\ p <= q /\ q < s
    BY <1>2, <1>3, <2>1, <2>2
  <2>4. OwnedEnd(c * n) = (IF p + n <= s THEN p + n ELSE s) - 1
    <3>1. p + n \in Int /\ s \in Int
      BY <1>2, <2>3
    <3>2. Min({p + n, s}) = IF p + n <= s THEN p + n ELSE s
      BY <3>1, LeastOfTwo
    <3> QED BY <2>2, <3>2 DEF OwnedEnd, s, n
  <2>5. CASE c + 1 < k
    <3>1. n * (c + 1) <= n * (k - 1)
      BY <1>2, <1>3, <2>5, ProductMonotone
    <3>2. n * (c + 1) = p + n /\ (c + 1) * n = p + n
      BY <1>2, <2>2
    <3>3. f[c + 1] = p + n /\ f[c] = p /\ p + n <= s
      <4>1. c + 1 \in 0..(k - 1)
        BY <1>3, <2>5
      <4>2. f[c + 1] = (c + 1) * n /\ f[c] = c * n
        BY <1>7, <4>1
      <4>3. p + n <= q
        BY <2>2, <3>1, <3>2
      <4> QED BY <1>2, <2>2, <2>3, <3>2, <4>2, <4>3
    <3> QED BY <1>2, <2>3, <2>4, <3>3
  <2>6. CASE c + 1 = k
    <3>1. n * k = p + n
      BY <1>2, <1>3, <2>2, <2>6
    <3>2. f[c + 1] = s /\ f[c] = p
      BY <1>7, <2>2, <2>6
    <3> QED BY <1>2, <1>3, <2>3, <2>4, <3>1, <3>2
  <2> QED BY <1>3, <2>5, <2>6
<1>9. ASSUME NEW c \in 0..k, NEW d \in 0..k, c <= d PROVE f[c] <= f[d]
  <2>1. CASE d < k
    <3>1. n * c <= n * d
      BY <1>2, <1>9, ProductMonotone
    <3>2. c \in 0..(k - 1) /\ d \in 0..(k - 1)
      BY <1>3, <1>9, <2>1
    <3>3. f[c] = c * n /\ f[d] = d * n
      BY <1>7, <3>2
    <3>4. n * c = c * n /\ n * d = d * n
      BY <1>2, <3>2
    <3> QED BY <3>1, <3>3, <3>4
  <2>2. CASE d = k /\ c < k
    <3>0. c \in 0..(k - 1)
      BY <1>3, <2>2
    <3>1. f[c] < f[c + 1] /\ f[c + 1] <= s /\ c \in 0..(k - 1)
      BY <1>8, <3>0
    <3>2. f[c] \in Nat /\ f[c + 1] \in Nat
      BY <1>7, <3>1
    <3> QED BY <1>2, <1>7, <2>2, <3>1, <3>2
  <2>3. CASE c = k /\ d = k
    BY <1>2, <1>7, <2>3
  <2> QED BY <1>3, <1>9, <2>1, <2>2, <2>3
<1>10. FixedCut(k, f)
  <2>1. \A c, d \in 0..k : c <= d => f[c] <= f[d]
    BY <1>9
  <2>2. \A c \in 0..(k - 1) : /\ c * n = f[c] /\ OwnedEnd(c * n) = f[c + 1] - 1
                              /\ f[c] < f[c + 1] /\ f[c + 1] - f[c] <= n
                              /\ f[c + 1] <= s
    BY <1>7, <1>8
  <2> QED BY <1>2, <1>3, <1>4, <1>5, <1>7, <2>1, <2>2 DEF FixedCut, s, n
<1> QED BY <1>10

(* Lines lie within what is read. *)
LEMMA LinesWithin ==
  ASSUME NEW d, NEW a \in Nat, NEW b \in Int, NEW l \in Lines(d, a, b)
  PROVE  /\ l.off \in LineStarts(d, a, b) /\ l.off \in a..b
         /\ l = LineAt(d, a, b, l.off)
         /\ l.len \in Nat /\ l.off + l.len <= b + 1
         /\ \/ l.off + l.len = b + 1
            \/ l.off + l.len \in LineEnds(d, a, b)
         /\ \A t \in LineEnds(d, a, b) : t >= l.off => l.off + l.len <= t
<1>1. PICK s \in LineStarts(d, a, b) : l = LineAt(d, a, b, s)
  BY DEF Lines
<1> DEFINE E == { t \in LineEnds(d, a, b) : t >= s } \cup {b + 1}
<1>2. s \in a..b
  BY <1>1 DEF LineStarts
<1>3. E \subseteq Nat /\ E # {} /\ \A t \in E : t >= s /\ t <= b + 1
  BY <1>2 DEF LineEnds
<1>4. l.off = s /\ l.len = Min(E) - s
  BY <1>1 DEF LineAt
<1>5. Min(E) \in E /\ \A t \in E : Min(E) <= t
  <2> HIDE DEF E
  <2> QED BY <1>3, Least
<1>6. PICK m : m = Min(E)
  OBVIOUS
<1>7. m \in Nat /\ m >= s /\ m <= b + 1 /\ (m = b + 1 \/ m \in LineEnds(d, a, b))
      /\ \A t \in LineEnds(d, a, b) : t >= s => m <= t
  BY <1>3, <1>5, <1>6
<1>8. s + l.len = m /\ l.len \in Nat
  BY <1>2, <1>4, <1>6, <1>7
<1> QED BY <1>1, <1>2, <1>4, <1>7, <1>8

(* A plan: the nominal ranges are those between the cuts f[0] < ... < f[k], *)
(* and a chunk reaches no further than the file.                            *)
Cuts(k, f) ==
  /\ k \in Nat \ {0} /\ f \in [0..k -> Nat] /\ f[0] = 0 /\ f[k] = size
  /\ \A c, d \in 0..k : c <= d => f[c] <= f[d]
  /\ \A c \in 0..(k - 1) : f[c] < f[c + 1]

CutInto(js, k, f) ==
  /\ DOMAIN js = 0..(k - 1)
  /\ \A c \in 0..(k - 1) :
       /\ js[c] \in [start : Nat, end : Nat, padding : Nat]
       /\ js[c].start = f[c] /\ js[c].end - js[c].padding = f[c + 1] - 1
       /\ js[c].end <= size - 1
       /\ js[c].padding <= limit
       /\ input.dataType # "multi-line" => js[c].padding = 0
       /\ RoomForChunks => f[c + 1] - f[c] + js[c].padding <= input.maxChunk

LEMMA JobFields ==
  ASSUME NEW a, NEW b, NEW p
  PROVE  /\ Job(a, b, p).start = a /\ Job(a, b, p).end = b /\ Job(a, b, p).padding = p
         /\ a \in Nat /\ b \in Nat /\ p \in Nat
              => Job(a, b, p) \in [start : Nat, end : Nat, padding : Nat]
BY DEF Job

LEMMA TextPlan ==
  ASSUME input \in Inputs, ~PlanIsRefused, input.dataType = "text", limit # 0
  PROVE  \E k, f : Cuts(k, f) /\ CutInto(TextJobs, k, f)
<1>1. size \in Nat \ {0} /\ input.maxChunk \in Nat \ {0} /\ MinimumTarget \in Nat \ {0}
  BY InputTypes DEF PlanIsRefused
<1>2. PICK k, f : TextCut(k, f)
  <2>1. size > 0
    BY <1>1
  <2> QED BY <2>1, TextCuts
<1>3. k = TextChunkCount /\ f = [c \in 0..k |-> (size * c) \div k]
  BY <1>2 DEF TextCut
<1>4. /\ Cuts(k, f)
      /\ size <= Max({size \div MinimumTarget, 1}) * input.maxChunk
              => \A c \in 0..(k - 1) : f[c + 1] - f[c] <= input.maxChunk
  BY <1>2 DEF TextCut, Cuts
<1>5. ASSUME NEW c \in 0..(k - 1)
      PROVE  /\ TextJobs[c] = Job(f[c], f[c + 1] - 1, 0)
             /\ f[c] \in Nat /\ f[c + 1] - 1 \in Nat /\ f[c + 1] <= size
             /\ f[c + 1] \in Nat
  <2>1. c \in 0..k /\ c + 1 \in 0..k /\ k \in 0..k /\ c + 1 <= k
    BY <1>4 DEF Cuts
  <2>2. f[c] \in Nat /\ f[c + 1] \in Nat /\ f[c] < f[c + 1] /\ f[c + 1] <= f[k] /\ f[k] = size
    BY <1>4, <2>1 DEF Cuts
  <2>3. TextJobs[c] = Job(f[c], f[c + 1] - 1, 0)
    BY <1>3, <2>1 DEF TextJobs
  <2> QED BY <2>2, <2>3
<1>6. DOMAIN TextJobs = 0..(k - 1)
  BY <1>3 DEF TextJobs
<1>7. CutInto(TextJobs, k, f)
  <2>1. ASSUME NEW c \in 0..(k - 1)
        PROVE  /\ TextJobs[c] \in [start : Nat, end : Nat, padding : Nat]
               /\ TextJobs[c].start = f[c] /\ TextJobs[c].end = f[c + 1] - 1
               /\ TextJobs[c].padding = 0
    BY <1>5, JobFields
  <2>2. RoomForChunks => \A c \in 0..(k - 1) : f[c + 1] - f[c] + 0 <= input.maxChunk
    BY <1>4, <1>5 DEF RoomForChunks
  <2>3. \A c \in 0..(k - 1) : (f[c + 1] - 1) - 0 = f[c + 1] - 1 /\ f[c + 1] - 1 <= size - 1
    BY <1>1, <1>5
  <2>4. 0 <= limit
    BY InputTypes
  <2> QED BY <1>6, <2>1, <2>2, <2>3, <2>4 DEF CutInto
<1> QED BY <1>4, <1>7

LEMMA WholePlan ==
  ASSUME input \in Inputs, ~PlanIsRefused, WholeFile
  PROVE  \E k, f : Cuts(k, f) /\ CutInto([c \in {0} |-> Job(0, size - 1, 0)], k, f)
<1>1. size \in Nat \ {0} /\ input.maxChunk \in Nat \ {0} /\ size <= input.maxChunk
  BY InputTypes DEF PlanIsRefused
<1>2. PICK f : f = [c \in 0..1 |-> IF c = 0 THEN 0 ELSE size]
  OBVIOUS
<1>3. f \in [0..1 -> Nat] /\ f[0] = 0 /\ f[1] = size
  BY <1>1, <1>2
<1>4. \A c \in 0..1 : c = 0 \/ c = 1
  OBVIOUS
<1>5. Cuts(1, f)
  <2>1. \A c, d \in 0..1 : c <= d => f[c] <= f[d]
    BY <1>1, <1>3, <1>4
  <2>2. \A c \in 0..(1 - 1) : f[c] < f[c + 1]
    BY <1>1, <1>3
  <2> QED BY <1>3, <2>1, <2>2 DEF Cuts
<1> DEFINE js == [c \in {0} |-> Job(0, size - 1, 0)]
<1>6. CutInto(js, 1, f)
  <2>1. DOMAIN js = 0..(1 - 1) /\ js[0] = Job(0, size - 1, 0) /\ size - 1 \in Nat
    BY <1>1
  <2> HIDE DEF js
  <2>2. /\ js[0] \in [start : Nat, end : Nat, padding : Nat]
        /\ js[0].start = 0 /\ js[0].end = size - 1 /\ js[0].padding = 0
    BY <2>1, JobFields
  <2>3. \A c \in 0..(1 - 1) : c = 0
    OBVIOUS
  <2>4. limit \in Nat
    BY InputTypes
  <2> QED BY <1>1, <1>3, <2>1, <2>2, <2>3, <2>4 DEF CutInto
<1> QED BY <1>5, <1>6

LEMMA JsonPlan ==
  ASSUME input \in Inputs, ~PlanIsRefused, input.dataType = "json"
  PROVE  \E k, f : Cuts(k, f) /\ CutInto(JsonJobs, k, f)
<1>1. size \in Nat \ {0} /\ input.maxChunk \in Nat \ {0} /\ NominalSize <= input.maxChunk
      /\ NominalSize \in Nat
  <2>1. size \in Nat \ {0} /\ input.maxChunk \in Nat /\ limit \in Nat /\ input.perChunk \in Nat
    BY InputTypes DEF PlanIsRefused
  <2>2. \A x, y \in Nat : x * y \in Nat
    OBVIOUS
  <2>3. NominalSize \in Nat
    BY <2>1, <2>2 DEF NominalSize
  <2> QED BY <2>1, <2>3, InputTypes DEF PlanIsRefused
<1>2. PICK k, f : FixedCut(k, f)
  <2>1. size > 0 /\ input.dataType # "text"
    BY <1>1
  <2> QED BY <2>1, FixedCuts
<1>4. /\ Cuts(k, f) /\ Cardinality(NominalStarts) = k
      /\ \A c \in 0..(k - 1) :
              /\ c * NominalSize = f[c] /\ OwnedEnd(c * NominalSize) = f[c + 1] - 1
              /\ f[c] < f[c + 1] /\ f[c + 1] - f[c] <= NominalSize
              /\ f[c + 1] <= size
  BY <1>2 DEF FixedCut, Cuts
<1>5. ASSUME NEW c \in 0..(k - 1)
      PROVE  /\ JsonJobs[c] = Job(f[c], f[c + 1] - 1, 0)
             /\ f[c] \in Nat /\ f[c + 1] - 1 \in Nat /\ f[c + 1] <= size
             /\ f[c + 1] \in Nat
  <2>1. c \in 0..k /\ c + 1 \in 0..k
    BY <1>4 DEF Cuts
  <2>2. f[c] \in Nat /\ f[c + 1] \in Nat /\ f[c] < f[c + 1]
    BY <1>4, <2>1 DEF Cuts
  <2>3. JsonJobs[c] = Job(f[c], f[c + 1] - 1, 0)
    BY <1>4 DEF JsonJobs
  <2> QED BY <1>4, <2>2, <2>3
<1>6. DOMAIN JsonJobs = 0..(k - 1)
  BY <1>4 DEF JsonJobs
<1>7. CutInto(JsonJobs, k, f)
  <2>1. ASSUME NEW c \in 0..(k - 1)
        PROVE  /\ JsonJobs[c] \in [start : Nat, end : Nat, padding : Nat]
               /\ JsonJobs[c].start = f[c] /\ JsonJobs[c].end = f[c + 1] - 1
               /\ JsonJobs[c].padding = 0
    BY <1>5, JobFields
  <2>2. \A c \in 0..(k - 1) : f[c + 1] - f[c] + 0 <= input.maxChunk
    BY <1>1, <1>4, <1>5
  <2>3. \A c \in 0..(k - 1) : (f[c + 1] - 1) - 0 = f[c + 1] - 1 /\ f[c + 1] - 1 <= size - 1
    BY <1>1, <1>5
  <2>4. 0 <= limit
    BY InputTypes
  <2> QED BY <1>6, <2>1, <2>2, <2>3, <2>4 DEF CutInto
<1> QED BY <1>4, <1>7

(* Where the look at a boundary ends, and what it adds to a chunk.          *)
LEMMA PaddingWithin ==
  ASSUME input \in Inputs, NEW s, NEW e \in Nat, OwnedEnd(s) = e, e <= size - 1
  PROVE  /\ Padding(s) \in Nat /\ e + Padding(s) <= size - 1 /\ Padding(s) <= limit
         /\ LookEnd(s) \in Nat /\ LookEnd(s) <= size - 1 /\ e <= LookEnd(s)
         /\ e + Padding(s) <= LookEnd(s)
         /\ e # size - 1 =>
              LET next == e + Padding(s) + 1 IN
              /\ next \in BreaksAhead(s) \/ (BreaksAhead(s) = {} /\ next = LookEnd(s) + 1)
              /\ \A x \in BreaksAhead(s) : next <= x
<1>1. size \in Nat /\ limit \in Nat
  BY InputTypes
<1>2. LookEnd(s) = IF e + limit <= size - 1 THEN e + limit ELSE size - 1
  BY <1>1, LeastOfTwo DEF LookEnd
<1>3. /\ LookEnd(s) \in Nat /\ LookEnd(s) <= size - 1 /\ e <= LookEnd(s)
      /\ LookEnd(s) <= e + limit
  BY <1>1, <1>2
<1>4. CASE e = size - 1
  BY <1>1, <1>3, <1>4 DEF Padding
<1>5. CASE e # size - 1
  <2> DEFINE B == BreaksAhead(s)
             n == LookEnd(s) + 1
  <2>1. \A x \in B : x \in (e + 1)..LookEnd(s)
    <3>1. e + 1 \in Nat /\ LookEnd(s) \in Int
      BY <1>3
    <3>2. \A l \in Lines(file, e + 1, LookEnd(s)) : l.off \in (e + 1)..LookEnd(s)
      BY <3>1, LinesWithin
    <3> QED BY <3>2 DEF BreaksAhead
  <2>2. Padding(s) = Min(B \cup {n}) - (e + 1)
    BY <1>5 DEF Padding
  <2> HIDE DEF B, n
  <2>3. n \in Nat /\ n = LookEnd(s) + 1
    BY <1>3 DEF n
  <2>4. B \cup {n} \subseteq Nat
    BY <1>3, <2>1, <2>3
  <2>5. PICK m : m = Min(B \cup {n})
    OBVIOUS
  <2>6. m \in B \cup {n} /\ \A x \in B \cup {n} : m <= x
    BY <2>4, <2>5, Least
  <2>7. m \in Nat /\ m >= e + 1 /\ m <= LookEnd(s) + 1
    BY <1>3, <2>1, <2>3, <2>4, <2>6
  <2>8. Padding(s) = m - (e + 1) /\ e + Padding(s) + 1 = m /\ Padding(s) \in Nat
    BY <2>2, <2>5, <2>7
  <2>9. m \in B \/ (B = {} /\ m = LookEnd(s) + 1)
    <3>1. CASE m \notin B
      <4>1. m = n
        BY <2>6, <3>1
      <4>2. B = {}
        BY <1>3, <2>1, <2>3, <2>6, <4>1
      <4> QED BY <2>3, <4>1, <4>2
    <3> QED BY <3>1
  <2>10. \A x \in B : m <= x
    BY <2>6
  <2> QED BY <1>1, <1>3, <1>5, <2>7, <2>8, <2>9, <2>10 DEF B
<1> QED BY <1>4, <1>5

LEMMA MultiLinePlan ==
  ASSUME input \in Inputs, ~PlanIsRefused, input.dataType = "multi-line"
  PROVE  \E k, f : /\ Cuts(k, f) /\ CutInto(MultiLineJobs, k, f)
                   /\ \A c \in 0..(k - 1) :
                        /\ f[c] \in NominalStarts /\ OwnedEnd(f[c]) = f[c + 1] - 1
                        /\ MultiLineJobs[c].padding = Padding(f[c])
<1>1. size \in Nat \ {0} /\ input.maxChunk \in Nat \ {0} /\ NominalSize <= input.maxChunk
      /\ NominalSize \in Nat
  <2>1. size \in Nat \ {0} /\ input.maxChunk \in Nat /\ limit \in Nat /\ input.perChunk \in Nat
    BY InputTypes DEF PlanIsRefused
  <2>2. \A x, y \in Nat : x * y \in Nat
    OBVIOUS
  <2>3. NominalSize \in Nat
    BY <2>1, <2>2 DEF NominalSize
  <2> QED BY <2>1, <2>3, InputTypes DEF PlanIsRefused
<1>2. PICK k, f : FixedCut(k, f)
  <2>1. size > 0 /\ input.dataType # "text"
    BY <1>1
  <2> QED BY <2>1, FixedCuts
<1>4. /\ Cuts(k, f) /\ Cardinality(NominalStarts) = k
      /\ NominalStarts = { c * NominalSize : c \in 0..(k - 1) }
      /\ \A c \in 0..(k - 1) :
              /\ c * NominalSize = f[c] /\ OwnedEnd(c * NominalSize) = f[c + 1] - 1
              /\ f[c] < f[c + 1] /\ f[c + 1] - f[c] <= NominalSize
              /\ f[c + 1] <= size
  BY <1>2 DEF FixedCut, Cuts
<1>5. ASSUME NEW c \in 0..(k - 1)
      PROVE  /\ MultiLineJobs[c] = Job(f[c], f[c + 1] - 1 + Padding(f[c]), Padding(f[c]))
             /\ f[c] \in Nat /\ f[c + 1] - 1 \in Nat /\ f[c + 1] <= size
             /\ f[c + 1] \in Nat /\ f[c] \in NominalStarts /\ OwnedEnd(f[c]) = f[c + 1] - 1
             /\ Padding(f[c]) \in Nat /\ f[c + 1] - 1 + Padding(f[c]) <= size - 1
             /\ Padding(f[c]) <= limit
  <2>1. c \in 0..k /\ c + 1 \in 0..k
    BY <1>4 DEF Cuts
  <2>2. f[c] \in Nat /\ f[c + 1] \in Nat /\ f[c] < f[c + 1] /\ f[c + 1] <= size
    BY <1>4, <2>1 DEF Cuts
  <2>3. f[c + 1] - 1 \in Nat /\ f[c + 1] - 1 <= size - 1
    BY <1>1, <2>2
  <2>4. OwnedEnd(f[c]) = f[c + 1] - 1 /\ f[c] \in NominalStarts
    BY <1>4
  <2>5. /\ Padding(f[c]) \in Nat /\ f[c + 1] - 1 + Padding(f[c]) <= size - 1
        /\ Padding(f[c]) <= limit
    BY <2>3, <2>4, PaddingWithin
  <2>6. MultiLineJobs[c] = Job(f[c], f[c + 1] - 1 + Padding(f[c]), Padding(f[c]))
    BY <1>4, <2>4 DEF MultiLineJobs
  <2> QED BY <2>2, <2>3, <2>4, <2>5, <2>6
<1>6. DOMAIN MultiLineJobs = 0..(k - 1)
  BY <1>4 DEF MultiLineJobs
<1>7. ASSUME NEW c \in 0..(k - 1)
      PROVE  /\ MultiLineJobs[c] \in [start : Nat, end : Nat, padding : Nat]
             /\ MultiLineJobs[c].start = f[c] /\ MultiLineJobs[c].end <= size - 1
             /\ MultiLineJobs[c].padding = Padding(f[c])
             /\ MultiLineJobs[c].end - MultiLineJobs[c].padding = f[c + 1] - 1
  <2>1. PICK a, e, p : a = f[c] /\ e = f[c + 1] - 1 /\ p = Padding(f[c])
    OBVIOUS
  <2>2. a \in Nat /\ e \in Nat /\ p \in Nat /\ e + p \in Nat /\ e + p <= size - 1
        /\ (e + p) - p = e /\ MultiLineJobs[c] = Job(a, e + p, p)
    BY <1>5, <2>1
  <2>3. PICK j : j = MultiLineJobs[c]
    OBVIOUS
  <2>4. j \in [start : Nat, end : Nat, padding : Nat]
        /\ j.start = a /\ j.end = e + p /\ j.padding = p
    BY <2>2, <2>3, JobFields
  <2> QED BY <2>1, <2>2, <2>3, <2>4
<1>8. CutInto(MultiLineJobs, k, f)
  <2>1. ASSUME RoomForChunks, NEW c \in 0..(k - 1)
        PROVE  f[c + 1] - f[c] + Padding(f[c]) <= input.maxChunk
    <3>1. NominalSize + limit <= input.maxChunk /\ limit \in Nat
      BY <2>1, InputTypes DEF RoomForChunks
    <3> QED BY <1>1, <1>4, <1>5, <3>1
  <2> QED BY <1>5, <1>6, <1>7, <2>1 DEF CutInto
<1> QED BY <1>4, <1>5, <1>7, <1>8

LEMMA PlanCut ==
  ASSUME input \in Inputs, ~PlanIsRefused
  PROVE  \E k, f : Cuts(k, f) /\ CutInto(PlannedJobs, k, f)
<1>1. CASE WholeFile
  BY <1>1, WholePlan DEF PlannedJobs
<1>2. CASE ~WholeFile /\ input.dataType = "text"
  <2>1. PlannedJobs = TextJobs /\ limit # 0
    BY <1>2 DEF PlannedJobs, WholeFile
  <2> QED BY <1>2, <2>1, TextPlan
<1>3. CASE input.dataType = "json"
  BY <1>3, JsonPlan DEF PlannedJobs, WholeFile
<1>4. CASE input.dataType = "multi-line"
  <2>1. PlannedJobs = MultiLineJobs
    BY <1>4 DEF PlannedJobs, WholeFile
  <2> QED BY <1>4, <2>1, MultiLinePlan
<1>5. input.dataType \in {"text", "json", "multi-line"}
  BY InputTypes DEF DataTypes
<1> QED BY <1>1, <1>2, <1>3, <1>4, <1>5

(* What was planned is the plan of the file, and what was sent and completed*)
(* is what the passes read and own.                                         *)
Sending(c, r) ==
  [chunk |-> c, off |-> ByteOffset(jobs[c], ReadChunk(jobs[c]).base, r), record |-> r]

PlanMade ==
  /\ input \in Inputs /\ status \in {"received", "planned", "refused"}
  /\ status = "planned" => ~PlanIsRefused /\ jobs = PlannedJobs
  /\ status # "planned" => jobs = <<>>
  /\ pass \in [Chunks -> PassStates]

History ==
  /\ \A e \in events :
       /\ e.chunk \in Chunks
       /\ \E r \in Owned(e.chunk, ReadChunk(jobs[e.chunk])) : e = Sending(e.chunk, r)
  /\ \A c \in Chunks :
       pass[c] = "completed" =>
         /\ ReadChunk(jobs[c]).ok
         /\ \A r \in Owned(c, ReadChunk(jobs[c])) : Sending(c, r) \in events

LEMMA HistoryInit == Init => PlanMade /\ History
<1> SUFFICES ASSUME Init PROVE PlanMade /\ History
  OBVIOUS
<1>1. Chunks = {} /\ pass \in [Chunks -> PassStates]
  BY DEF Init, Chunks
<1> QED BY <1>1 DEF Init, PlanMade, History

LEMMA PlanKeeps ==
  ASSUME PlanMade, History, RefusePlan \/ Plan PROVE PlanMade' /\ History'
<1>1. Chunks = {}
  BY DEF RefusePlan, Plan, PlanMade, Chunks
<1>2. events = {} /\ events' = {} /\ input' = input
  BY <1>1 DEF History, RefusePlan, Plan
<1>3. CASE RefusePlan
  BY <1>1, <1>2, <1>3 DEF RefusePlan, PlanMade, History, Chunks
<1>4. CASE Plan
  <2>1. PlannedJobs' = PlannedJobs /\ (PlanIsRefused' <=> PlanIsRefused)
    BY <1>2 DEF PlannedJobs, PlanIsRefused, WholeFile, TextJobs, TextChunkCount,
       DesiredChunks, JsonJobs, MultiLineJobs, Padding, BreaksAhead, LookEnd, OwnedEnd,
       NominalSize, NominalStarts, NextBreakFound, limit, size, file
  <2>2. pass' = [c \in Chunks' |-> "todo"]
    BY <1>4 DEF Plan, Chunks
  <2>3. \A c \in Chunks' : pass'[c] # "completed"
    BY <2>2
  <2> QED BY <1>2, <1>4, <2>1, <2>2, <2>3 DEF Plan, PlanMade, History, PassStates
<1> QED BY <1>3, <1>4

LEMMA SameReading ==
  ASSUME UNCHANGED <<input, jobs>>
  PROVE  /\ \A j : ReadChunk(j)' = ReadChunk(j)
         /\ \A c, r : Sending(c, r)' = Sending(c, r)
         /\ \A c, x : Owned(c, x)' = Owned(c, x)
         /\ PlannedJobs' = PlannedJobs /\ (PlanIsRefused' <=> PlanIsRefused)
         /\ Chunks' = Chunks
<1>0. input' = input /\ jobs' = jobs
  OBVIOUS
<1>1. file' = file /\ size' = size /\ limit' = limit /\ (WholeFile' <=> WholeFile)
  BY <1>0 DEF file, size, limit, WholeFile
<1>2. PlannedJobs' = PlannedJobs /\ (PlanIsRefused' <=> PlanIsRefused)
  BY <1>0 DEF PlannedJobs, PlanIsRefused, WholeFile, TextJobs, TextChunkCount,
     DesiredChunks, JsonJobs, MultiLineJobs, Padding, BreaksAhead, LookEnd, OwnedEnd,
     NominalSize, NominalStarts, NextBreakFound, limit, size, file
<1>3. \A j : /\ ReadStart(j)' = ReadStart(j) /\ ReadEnd(j)' = ReadEnd(j)
  BY <1>0, <1>1 DEF ReadStart, ReadEnd, Overlap
<1>4. \A j : View(j)' = View(j) /\ ViewEnd(j)' = ViewEnd(j)
  BY <1>1, <1>3 DEF View, ViewEnd, NeedsTerminator
<1>5. \A j : ReadText(j)' = ReadText(j)
  <2>1. \A a, b : HasTerminator(a, b)' <=> HasTerminator(a, b)
    BY <1>1 DEF HasTerminator
  <2>2. \A j : BoundariesFound(j)' <=> BoundariesFound(j)
    BY <1>1, <1>3, <2>1 DEF BoundariesFound
  <2>3. \A j : Nothing(j)' = Nothing(j)
    BY <1>3 DEF Nothing, Reading
  <2> QED BY <1>1, <1>3, <1>4, <2>2, <2>3 DEF ReadText
<1>6. \A j : ReadMultiLine(j)' = ReadMultiLine(j)
  BY <1>1 DEF ReadMultiLine
<1>7. \A j : ReadJSONArray(j)' = ReadJSONArray(j)
  <2> TAKE j
  <2>1. PICK f, s, e, m : f = file /\ s = ReadStart(j) /\ e = ReadEnd(j) /\ m = limit
    OBVIOUS
  <2>2. file' = f /\ ReadStart(j)' = s /\ ReadEnd(j)' = e /\ limit' = m
    BY <1>1, <1>3, <2>1
  <2>3. PICK x : x = (LET base     == AlignedStart(f, s, e)
                          elements == { ElementAt(f, i, e) : i \in FindJSONObjectStarts(f, base, e) }
                          tooLong  == { y \in elements : y.off \in j.start..j.end /\ y.len > m }
                          before   == { y \in elements : \A t \in tooLong : y.off < t.off }
                      IN Reading(tooLong = {}, base, { {y} : y \in before }))
    OBVIOUS
  <2>4. ReadJSONArray(j) = x
    BY <2>1, <2>3 DEF ReadJSONArray
  <2>5. ReadJSONArray(j)' = x
    BY <2>2, <2>3 DEF ReadJSONArray
  <2> QED BY <2>4, <2>5
<1>8. \A j : ReadChunk(j)' = ReadChunk(j)
  BY <1>0, <1>1, <1>3, <1>5, <1>6, <1>7 DEF ReadChunk, Accepted, Nothing
<1>9. \A c, r : Sending(c, r)' = Sending(c, r)
  BY <1>0, <1>1, <1>3, <1>8 DEF Sending, ByteOffset
<1>10. \A c, x : Owned(c, x)' = Owned(c, x)
  BY <1>0, <1>1 DEF Owned, Owns
<1> QED BY <1>0, <1>2, <1>8, <1>9, <1>10 DEF Chunks

LEMMA PassKeeps ==
  ASSUME PlanMade, History, NEW c \in Chunks, Process(c) PROVE PlanMade' /\ History'
<1>1. UNCHANGED <<input, status, jobs>>
  BY DEF Process
<1>2. PICK x : x = ReadChunk(jobs[c])
  OBVIOUS
<1>3. CompletePass(c, x) \/ FailPass(c, x) \/ InterruptPass(c, x)
  BY <1>2 DEF Process
<1>4. /\ \A j : ReadChunk(j)' = ReadChunk(j)
      /\ \A d, r : Sending(d, r)' = Sending(d, r)
      /\ \A d, y : Owned(d, y)' = Owned(d, y)
      /\ PlannedJobs' = PlannedJobs /\ (PlanIsRefused' <=> PlanIsRefused)
      /\ Chunks' = Chunks
  BY <1>1, SameReading
<1>5. \A s : EventsOf(c, x.base, s) = { Sending(c, r) : r \in s }
  BY <1>2 DEF EventsOf, Sending
<1>6. \E sent \in SUBSET Owned(c, x) : events' = events \cup { Sending(c, r) : r \in sent }
  <2>1. CASE CompletePass(c, x)
    <3>1. Owned(c, x) \in SUBSET Owned(c, x)
      OBVIOUS
    <3> QED BY <1>5, <2>1, <3>1 DEF CompletePass
  <2>2. CASE FailPass(c, x) \/ InterruptPass(c, x)
    BY <1>5, <2>2 DEF FailPass, InterruptPass, SendSome
  <2> QED BY <1>3, <2>1, <2>2
<1>7. pass \in [Chunks -> PassStates]
  BY DEF PlanMade
<1>8. \E s \in {"completed", "failed", "interrupted"} : pass' = [pass EXCEPT ![c] = s]
  BY <1>3 DEF CompletePass, FailPass, InterruptPass
<1>9. PlanMade'
  <2>1. pass' \in [Chunks -> PassStates]
    BY <1>7, <1>8 DEF PassStates
  <2> QED BY <1>1, <1>4, <2>1 DEF PlanMade
<1>10. \A e \in events' :
         /\ e.chunk \in Chunks
         /\ \E r \in Owned(e.chunk, ReadChunk(jobs[e.chunk])) : e = Sending(e.chunk, r)
  <2> SUFFICES ASSUME NEW e \in events'
               PROVE  /\ e.chunk \in Chunks
                      /\ \E r \in Owned(e.chunk, ReadChunk(jobs[e.chunk])) :
                           e = Sending(e.chunk, r)
    OBVIOUS
  <2>1. CASE e \in events
    BY <2>1 DEF History
  <2>2. CASE e \notin events
    <3>1. PICK r \in Owned(c, x) : e = Sending(c, r)
      BY <1>6, <2>2
    <3>2. e.chunk = c
      BY <3>1 DEF Sending
    <3> QED BY <1>2, <3>1, <3>2
  <2> QED BY <2>1, <2>2
<1>11. ASSUME NEW d \in Chunks, pass'[d] = "completed"
       PROVE  /\ ReadChunk(jobs[d]).ok
              /\ \A r \in Owned(d, ReadChunk(jobs[d])) : Sending(d, r) \in events'
  <2>1. CASE pass[d] = "completed"
    <3>1. events \subseteq events'
      BY <1>6
    <3> QED BY <2>1, <3>1 DEF History
  <2>2. CASE pass[d] # "completed"
    <3>1. d = c /\ pass'[c] = "completed"
      BY <1>7, <1>8, <1>11, <2>2
    <3>2. CompletePass(c, x)
      <4>1. \A s : pass' = [pass EXCEPT ![c] = s] => pass'[c] = s
        BY <1>7
      <4>2. ~FailPass(c, x)
        BY <3>1, <4>1 DEF FailPass
      <4>3. ~InterruptPass(c, x)
        BY <3>1, <4>1 DEF InterruptPass
      <4> QED BY <1>3, <4>2, <4>3
    <3> QED BY <1>2, <1>5, <3>1, <3>2 DEF CompletePass
  <2> QED BY <2>1, <2>2
<1>12. History'
  <2>1. jobs' = jobs
    BY <1>1
  <2> QED BY <1>4, <1>10, <1>11, <2>1 DEF History
<1> QED BY <1>9, <1>12

LEMMA HistoryKept == Spec => [](PlanMade /\ History)
<1>1. PlanMade /\ History /\ [Next]_vars => PlanMade' /\ History'
  <2> SUFFICES ASSUME PlanMade, History, [Next]_vars PROVE PlanMade' /\ History'
    OBVIOUS
  <2>1. CASE UNCHANGED vars
    <3>1. UNCHANGED <<input, jobs>> /\ UNCHANGED <<status, pass, events>>
      BY <2>1 DEF vars
    <3>2. /\ \A j : ReadChunk(j)' = ReadChunk(j)
          /\ \A d, r : Sending(d, r)' = Sending(d, r)
          /\ \A d, y : Owned(d, y)' = Owned(d, y)
          /\ PlannedJobs' = PlannedJobs /\ (PlanIsRefused' <=> PlanIsRefused)
          /\ Chunks' = Chunks
      BY <3>1, SameReading
    <3>3. PlanMade'
      BY <3>1, <3>2 DEF PlanMade
    <3>4. History'
      BY <3>1, <3>2 DEF History
    <3> QED BY <3>3, <3>4
  <2>2. CASE RefusePlan \/ Plan
    BY <2>2, PlanKeeps
  <2>3. CASE \E c \in Chunks : Process(c)
    BY <2>3, PassKeeps
  <2> QED BY <2>1, <2>2, <2>3 DEF Next
<1> QED BY <1>1, HistoryInit, PTL DEF Spec

LEMMA ChunksOf ==
  ASSUME PlanMade, status = "planned"
  PROVE  \E k, f :
           /\ Cuts(k, f) /\ CutInto(jobs, k, f) /\ Chunks = 0..(k - 1) /\ 0 \in Chunks
           /\ \A c \in Chunks : NominalRange(c) = f[c]..(f[c + 1] - 1)
<1>1. PICK k, f : Cuts(k, f) /\ CutInto(jobs, k, f)
  BY PlanCut DEF PlanMade
<1>2. Chunks = 0..(k - 1)
  BY <1>1 DEF CutInto, Chunks
<1>3. 0 \in Chunks
  BY <1>1, <1>2 DEF Cuts
<1>4. \A c \in Chunks : NominalRange(c) = f[c]..(f[c + 1] - 1)
  BY <1>1, <1>2 DEF CutInto, NominalRange
<1> QED BY <1>1, <1>2, <1>3, <1>4

LEMMA PlannedFits == PlanMade => PlannedChunksFit
<1> SUFFICES ASSUME PlanMade, status = "planned"
             PROVE  /\ \A i \in 0..(size - 1) : \E c \in Chunks :
                         i \in NominalRange(c) /\ \A d \in Chunks \ {c} : i \notin NominalRange(d)
                    /\ RoomForChunks => \A c \in Chunks : Accepted(jobs[c])
  BY DEF PlannedChunksFit
<1>1. PICK k, f :
           /\ Cuts(k, f) /\ CutInto(jobs, k, f) /\ Chunks = 0..(k - 1) /\ 0 \in Chunks
           /\ \A c \in Chunks : NominalRange(c) = f[c]..(f[c + 1] - 1)
  BY ChunksOf
<1>2. size \in Nat /\ limit \in Nat /\ input.maxChunk \in Nat
  BY InputTypes DEF PlanMade
<1>3. ASSUME NEW i \in 0..(size - 1)
      PROVE  \E c \in Chunks :
               i \in NominalRange(c) /\ \A d \in Chunks \ {c} : i \notin NominalRange(d)
  <2>1. /\ k \in Nat /\ f \in [0..k -> Nat] /\ f[0] = 0 /\ f[k] = size
        /\ \A c, d \in 0..k : c <= d => f[c] <= f[d]
    BY <1>1 DEF Cuts
  <2>2. PICK c \in 0..(k - 1) :
           /\ i \in f[c]..(f[c + 1] - 1)
           /\ \A d \in 0..(k - 1) : d # c => i \notin f[d]..(f[d + 1] - 1)
    <3>1. i \in 0..(f[k] - 1)
      BY <2>1
    <3> QED BY ONLY <2>1, <3>1, Partition
  <2>3. c \in Chunks /\ i \in NominalRange(c)
    BY <1>1, <2>2, Zenon
  <2>4. \A d \in Chunks \ {c} : i \notin NominalRange(d)
    <3> SUFFICES ASSUME NEW d \in Chunks \ {c} PROVE i \notin NominalRange(d)
      OBVIOUS
    <3>1. d \in 0..(k - 1) /\ d # c /\ NominalRange(d) = f[d]..(f[d + 1] - 1)
      BY <1>1, Zenon
    <3> QED BY <2>2, <3>1, Zenon
  <2> QED BY <2>3, <2>4, Zenon
<1>4. ASSUME RoomForChunks, NEW c \in Chunks
      PROVE  Accepted(jobs[c])
  <2>1. PICK j : j = jobs[c]
    OBVIOUS
  <2>2. PICK a, b, p : a = f[c] /\ b = f[c + 1] /\ p = j.padding
    OBVIOUS
  <2>3. /\ j.start = a /\ j.end - p = b - 1 /\ p <= limit /\ b - a + p <= input.maxChunk
        /\ j.end \in Nat /\ p \in Nat
    BY <1>1, <1>4, <2>1, <2>2 DEF CutInto
  <2>4. a \in Nat /\ b \in Nat /\ a < b
    <3>1. k \in Nat /\ f \in [0..k -> Nat] /\ c \in 0..(k - 1) /\ f[c] < f[c + 1]
      BY <1>1 DEF Cuts
    <3>2. c \in 0..k /\ c + 1 \in 0..k
      BY <3>1
    <3> QED BY <2>2, <3>1, <3>2
  <2>5. PICK n : n = j.end - j.start + 1
    OBVIOUS
  <2>6. n \in Nat /\ n = b - a + p /\ p <= n /\ j.start <= j.end
    BY <2>3, <2>4, <2>5
  <2>7. p \in 0..Min({limit, n})
    <3>1. Min({limit, n}) = IF limit <= n THEN limit ELSE n
      BY <1>2, <2>6, LeastOfTwo
    <3> QED BY <1>2, <2>3, <2>6, <3>1
  <2> QED BY <2>1, <2>2, <2>3, <2>5, <2>6, <2>7 DEF Accepted
<1> QED BY <1>3, <1>4

(* PlannedChunksFit, for every file and configuration: the plan divides the *)
(* file, and where there is room valid() accepts each chunk, padded.        *)
THEOREM PlansFit == Spec => []PlannedChunksFit
BY PlannedFits, HistoryKept, PTL

-----------------------------------------------------------------------------
(* Reading. *)
IsChunk(j) ==
  /\ j \in [start : Nat, end : Nat, padding : Nat]
  /\ j.start <= j.end - j.padding /\ j.end <= size - 1
  /\ WholeFile => j.start = 0 /\ j.end = size - 1

LEMMA ChunkShape ==
  ASSUME PlanMade, NEW c \in Chunks
  PROVE  IsChunk(jobs[c]) /\ status = "planned"
<1>1. status = "planned"
  BY DEF PlanMade, Chunks
<1>2. PICK k, f : Cuts(k, f) /\ CutInto(jobs, k, f) /\ Chunks = 0..(k - 1)
  BY <1>1, ChunksOf
<1>3. f \in [0..k -> Nat] /\ k \in Nat /\ f[c] < f[c + 1] /\ c \in 0..k /\ c + 1 \in 0..k
  BY <1>2 DEF Cuts
<1>4. /\ jobs[c] \in [start : Nat, end : Nat, padding : Nat]
      /\ jobs[c].start = f[c] /\ jobs[c].end - jobs[c].padding = f[c + 1] - 1
      /\ jobs[c].end <= size - 1
  BY <1>2 DEF CutInto
<1>5. f[c] \in Nat /\ f[c + 1] \in Nat
  BY <1>3
<1>6. ASSUME WholeFile PROVE jobs[c].start = 0 /\ jobs[c].end = size - 1
  <2>1. jobs = [d \in {0} |-> Job(0, size - 1, 0)]
    BY <1>1, <1>6 DEF PlanMade, PlannedJobs
  <2>2. c = 0 /\ jobs[0] = Job(0, size - 1, 0)
    BY <2>1 DEF Chunks
  <2> QED BY <2>2, JobFields
<1>7. jobs[c].start <= jobs[c].end - jobs[c].padding
  BY <1>3, <1>4, <1>5
<1> QED BY <1>1, <1>4, <1>6, <1>7 DEF IsChunk

LEMMA ReadRange ==
  ASSUME input \in Inputs, NEW j, IsChunk(j)
  PROVE  /\ j.start \in Nat /\ j.end \in Nat /\ j.padding \in Nat
         /\ j.start <= j.end /\ j.start <= j.end - j.padding
         /\ Overlap \in Nat
         /\ ReadStart(j) = IF j.start - Overlap >= 0 THEN j.start - Overlap ELSE 0
         /\ ReadEnd(j) = IF j.end + Overlap <= size - 1 THEN j.end + Overlap ELSE size - 1
         /\ ReadStart(j) \in Nat /\ ReadStart(j) <= j.start
         /\ ReadEnd(j) \in Nat /\ j.end <= ReadEnd(j) /\ ReadEnd(j) <= size - 1
         /\ WholeFile => ReadStart(j) = 0 /\ ReadEnd(j) = size - 1 /\ j.start = 0
         /\ input.dataType = "multi-line" => ReadStart(j) = j.start /\ ReadEnd(j) = j.end
<1>1. size \in Nat /\ limit \in Nat /\ OverlapRecords \in Nat
  BY InputTypes
<1>2. j.start \in Nat /\ j.end \in Nat /\ j.padding \in Nat /\ j.start <= j.end - j.padding
      /\ j.end <= size - 1
  BY DEF IsChunk
<1>3. Overlap \in Nat
  <2>1. OverlapRecords * limit \in Nat
    BY <1>1
  <2> QED BY <1>1, <2>1 DEF Overlap
<1>4. PICK o : o = Overlap
  OBVIOUS
<1>5. ReadStart(j) = IF j.start - o >= 0 THEN j.start - o ELSE 0
  <2>1. j.start - o \in Int /\ 0 \in Int
    BY <1>2, <1>3, <1>4
  <2>2. Max({j.start - o, 0}) = IF j.start - o >= 0 THEN j.start - o ELSE 0
    BY <2>1, LeastOfTwo
  <2> QED BY <1>4, <2>2 DEF ReadStart
<1>6. ReadEnd(j) = IF j.end + o <= size - 1 THEN j.end + o ELSE size - 1
  BY <1>1, <1>2, <1>3, <1>4, LeastOfTwo DEF ReadEnd
<1>7. input.dataType = "multi-line" => o = 0
  BY <1>4 DEF Overlap
<1>8. WholeFile => j.start = 0 /\ j.end = size - 1
  BY DEF IsChunk
<1> QED BY <1>1, <1>2, <1>3, <1>4, <1>5, <1>6, <1>7, <1>8

LEMMA StartOfOne == \A l : l.off \in Nat => StartOf({l}) = l.off
<1> SUFFICES ASSUME NEW l, l.off \in Nat PROVE StartOf({l}) = l.off
  OBVIOUS
<1>1. { m.off : m \in {l} } = {l.off}
  OBVIOUS
<1>2. Min({l.off}) \in {l.off}
  BY Least
<1> QED BY <1>1, <1>2 DEF StartOf

LEMMA StartOfRecord ==
  ASSUME NEW d, NEW L, NEW l \in L, \A m \in L : m.off \in Nat
  PROVE  /\ StartOf(RecordFrom(d, L, l)) = l.off
         /\ l \in RecordFrom(d, L, l)
<1> DEFINE R == RecordFrom(d, L, l)
           S == { m.off : m \in R }
<1>1. l \in R /\ R \subseteq L /\ \A m \in R : m.off >= l.off
  BY DEF RecordFrom
<1> HIDE DEF R
<1>2. S \subseteq Nat /\ l.off \in S /\ \A x \in S : x >= l.off
  BY <1>1
<1>3. PICK m : m = Min(S)
  OBVIOUS
<1>4. m \in S /\ \A x \in S : m <= x
  BY <1>2, <1>3, Least
<1>5. m \in Nat /\ l.off \in Nat /\ m <= l.off /\ m >= l.off
  BY <1>2, <1>4
<1>6. m = l.off
  BY <1>5
<1>7. StartOf(R) = l.off
  BY <1>3, <1>6 DEF StartOf
<1> QED BY <1>1, <1>7 DEF R

(* Where the records that are read start, and what their offsets count from.*)
LEMMA RecordStarts ==
  ASSUME input \in Inputs, NEW j, IsChunk(j), NEW r \in ReadChunk(j).records
  PROVE  /\ ReadChunk(j).base \in Nat /\ StartOf(r) \in Nat
         /\ StartOf(r) >= ReadChunk(j).base
         /\ input.dataType # "json" => ReadChunk(j).base = ReadStart(j)
<1>1. /\ ReadStart(j) \in Nat /\ ReadEnd(j) \in Nat /\ j.start \in Nat /\ j.end \in Nat
      /\ input.dataType = "multi-line" => ReadStart(j) = j.start
  BY ReadRange
<1>2. \A ok, b, s : Reading(ok, b, s).base = b /\ Reading(ok, b, s).records = s
  BY DEF Reading
<1>3. r \notin Nothing(j).records
  <2>1. Nothing(j).records = {}
    BY DEF Nothing, Reading
  <2> QED BY <2>1
<1>4. Accepted(j)
  BY <1>3 DEF ReadChunk
<1>5. CASE input.dataType = "multi-line"
  <2>1. ReadChunk(j) = ReadMultiLine(j)
    BY <1>4, <1>5 DEF ReadChunk
  <2>2. ReadChunk(j).base = j.start /\ r \in ReadRecords(file, j.start, j.end, limit).records
    BY <1>2, <2>1 DEF ReadMultiLine
  <2>3. PICK L : L = ReadLines(file, j.start, j.end, limit, FALSE).lines
    OBVIOUS
  <2>4. PICK l \in L : r = RecordFrom(file, L, l)
    BY <2>2, <2>3 DEF ReadRecords
  <2>5. L \subseteq Lines(file, j.start, j.end)
    BY <2>3 DEF ReadLines
  <2>6. \A m \in L : m.off \in Nat /\ m.off >= j.start
    <3>1. ASSUME NEW m \in L PROVE m.off \in j.start..j.end
      <4>1. m \in Lines(file, j.start, j.end) /\ j.start \in Nat /\ j.end \in Int
        BY <1>1, <2>5
      <4> QED BY <4>1, LinesWithin
    <3> QED BY <1>1, <3>1
  <2>7. StartOf(r) = l.off
    BY <2>4, <2>6, StartOfRecord
  <2> QED BY <1>1, <1>5, <2>2, <2>4, <2>6, <2>7
<1>6. CASE input.dataType = "text"
  <2>1. ReadChunk(j) = ReadText(j)
    BY <1>4, <1>6 DEF ReadChunk
  <2>2. PICK m, t : r \in { {l} : l \in ReadLines(View(j), ReadStart(j), ViewEnd(j), m, t).lines }
                    /\ ReadChunk(j).base = ReadStart(j)
    BY <1>2, <1>3, <2>1 DEF ReadText
  <2>3. PICK l \in Lines(View(j), ReadStart(j), ViewEnd(j)) : r = {l}
    BY <2>2 DEF ReadLines
  <2>4. ViewEnd(j) \in Int
    BY <1>1 DEF ViewEnd
  <2>5. l.off \in Nat /\ l.off >= ReadStart(j)
    <3>1. l.off \in ReadStart(j)..ViewEnd(j)
      BY <1>1, <2>3, <2>4, LinesWithin
    <3> QED BY <1>1, <2>4, <3>1
  <2> QED BY <1>1, <2>2, <2>3, <2>5, StartOfOne
<1>7. CASE input.dataType = "json"
  <2>1. ReadChunk(j) = ReadJSONArray(j)
    BY <1>4, <1>7 DEF ReadChunk
  <2>2. PICK b : b = AlignedStart(file, ReadStart(j), ReadEnd(j))
    OBVIOUS
  <2>3. ReadChunk(j).base = b
        /\ \E i \in FindJSONObjectStarts(file, b, ReadEnd(j)) : r = {ElementAt(file, i, ReadEnd(j))}
    BY <1>2, <2>1, <2>2 DEF ReadJSONArray
  <2>4. PICK i \in FindJSONObjectStarts(file, b, ReadEnd(j)) : r = {ElementAt(file, i, ReadEnd(j))}
    BY <2>3
  <2>5. b \in Nat
    <3> DEFINE S == { x \in ReadStart(j)..ReadEnd(j) : x \in FindJSONObjectStarts(file, x, ReadEnd(j)) }
    <3>1. S \subseteq Nat
      BY <1>1
    <3>2. b = IF S = {} THEN ReadStart(j) ELSE Min(S)
      BY <2>2 DEF AlignedStart
    <3> HIDE DEF S
    <3>3. S # {} => Min(S) \in S
      BY <3>1, Least
    <3> QED BY <1>1, <3>1, <3>2, <3>3
  <2>6. i \in b..ReadEnd(j)
    BY <2>4 DEF FindJSONObjectStarts
  <2>7. i \in Nat /\ i >= b
    BY <1>1, <2>5, <2>6
  <2>8. StartOf(r) = i
    <3>1. ElementAt(file, i, ReadEnd(j)).off = i
      BY DEF ElementAt
    <3> QED BY <2>4, <2>7, <3>1, StartOfOne
  <2> QED BY <1>7, <2>3, <2>5, <2>7, <2>8
<1>8. input.dataType \in {"text", "json", "multi-line"}
  BY InputTypes DEF DataTypes
<1> QED BY <1>5, <1>6, <1>7, <1>8

LEMMA EventPlaces ==
  ASSUME PlanMade, History, NEW e \in events
  PROVE  /\ e.chunk \in Chunks /\ e.off \in Nat
         /\ input.dataType # "json" => e.off = StartOf(e.record)
<1>1. PICK c, j, r : c = e.chunk /\ j = jobs[c] /\ c \in Chunks
                     /\ r \in Owned(c, ReadChunk(j)) /\ e = Sending(c, r)
  BY DEF History
<1>2. IsChunk(j) /\ r \in ReadChunk(j).records /\ input \in Inputs
  BY <1>1, ChunkShape DEF Owned, PlanMade
<1>3. PICK b, s, t : b = ReadChunk(j).base /\ s = StartOf(r) /\ t = ReadStart(j)
  OBVIOUS
<1>4. b \in Nat /\ s \in Nat /\ s >= b /\ (input.dataType # "json" => b = t)
  BY <1>2, <1>3, RecordStarts
<1>5. t \in Nat /\ (WholeFile => t = 0 /\ j.start = 0)
  BY <1>2, <1>3, ReadRange
<1>6. e.off = (IF WholeFile THEN j.start ELSE t) + (s - b) /\ e.record = r
  BY <1>1, <1>3 DEF Sending, ByteOffset
<1>7. e.off = t + (s - b)
  BY <1>5, <1>6
<1>8. e.off \in Nat /\ (b = t => e.off = s)
  BY <1>4, <1>5, <1>7
<1> QED BY <1>1, <1>3, <1>4, <1>6, <1>8

(* The type invariant of the chunks and their events. *)
THEOREM ChunkTypes == Spec => []ChunksTypeOK
<1>1. PlanMade /\ History => ChunksTypeOK
  <2> SUFFICES ASSUME PlanMade, History PROVE ChunksTypeOK
    OBVIOUS
  <2>1. \A c \in Chunks : jobs[c] \in [start : Nat, end : Nat, padding : Nat]
    BY ChunkShape DEF IsChunk
  <2>2. Chunks # {} <=> status = "planned"
    BY ChunksOf DEF PlanMade, Chunks
  <2>3. \A e \in events : e.chunk \in Chunks /\ e.off \in Nat
    BY EventPlaces
  <2> QED BY <2>1, <2>2, <2>3 DEF ChunksTypeOK, PlanMade
<1> QED BY <1>1, HistoryKept, PTL

(* An event carries the offset its record has in the file. *)
THEOREM OffsetsArePositions == Spec => []OffsetIsPosition
<1>1. PlanMade /\ History => OffsetIsPosition
  BY EventPlaces DEF OffsetIsPosition
<1> QED BY <1>1, HistoryKept, PTL

-----------------------------------------------------------------------------
(* The lines that a reader of a part of a file sees.                        *)

(* v holds the bytes a..n of a file d that ends at z, or those up to its end*)
(* and a final LF.                                                          *)
PartOf(v, a, n, d, z) ==
  /\ a \in Nat /\ n \in Nat /\ z \in Nat /\ a <= z /\ a <= n
  /\ \A i \in a..z : i <= n => v[i] = d[i]
  /\ n <= z \/ (n = z + 1 /\ v[n] = LF /\ d[z] \notin {CR, LF})

LEMMA Terminators == CR # LF
BY DEF CR, LF

LEMMA EndsAgree ==
  ASSUME NEW v, NEW a, NEW n, NEW d, NEW z, PartOf(v, a, n, d, z),
         NEW t \in a..n, t <= z, t > a \/ a = 0 \/ ~(d[a] = LF /\ d[a - 1] = CR)
  PROVE  t \in LineEnds(v, a, n) <=> t \in LineEnds(d, 0, z)
<1>1. /\ a \in Nat /\ n \in Nat /\ z \in Nat /\ t \in Nat /\ a <= t /\ t <= n /\ t <= z
  BY DEF PartOf
<1>2. v[t] = d[t] /\ t \in a..n /\ t \in 0..z
  BY <1>1 DEF PartOf
<1>3. CASE t > a
  <2>1. v[t - 1] = d[t - 1] /\ t > 0
    BY <1>1, <1>3 DEF PartOf
  <2> QED BY <1>2, <1>3, <2>1 DEF LineEnds
<1>4. CASE t = a
  <2>1. t > 0 => ~(d[t] = LF /\ d[t - 1] = CR)
    BY <1>1, <1>3, <1>4
  <2>2. ~(t > a)
    BY <1>1, <1>4
  <2> QED BY <1>2, <2>1, <2>2 DEF LineEnds
<1> QED BY <1>1, <1>3, <1>4

LEMMA LastEnd ==
  ASSUME NEW v, NEW a, NEW n, NEW d, NEW z, PartOf(v, a, n, d, z), n = z + 1
  PROVE  n \in LineEnds(v, a, n)
<1>1. n \in a..n /\ z \in a..z /\ z <= n /\ n - 1 = z /\ v[n] = LF /\ d[z] # CR
  BY DEF PartOf
<1>2. v[n - 1] # CR
  BY <1>1 DEF PartOf
<1> QED BY <1>1, <1>2 DEF LineEnds

(* What follows a terminator. *)
LEMMA AfterEndIs ==
  ASSUME NEW d, NEW b \in Int, NEW t \in Int
  PROVE  /\ AfterEnd(d, b, t) = t + 1 \/ AfterEnd(d, b, t) = t + 2
         /\ AfterEnd(d, b, t) = t + 2 <=> d[t] = CR /\ t < b /\ d[t + 1] = LF
BY DEF AfterEnd

LEMMA StartIs ==
  ASSUME NEW d, NEW a \in Nat, NEW b \in Nat, NEW s \in LineStarts(d, a, b), s # a
  PROVE  \E t \in LineEnds(d, a, b) : s = AfterEnd(d, b, t) /\ t \in a..b /\ t < s /\ s <= b
<1>1. PICK t \in LineEnds(d, a, b) : s = AfterEnd(d, b, t)
  BY DEF LineStarts
<1>2. t \in a..b /\ s \in a..b
  BY <1>1 DEF LineEnds, LineStarts
<1>3. s = t + 1 \/ s = t + 2
  BY <1>1, <1>2, AfterEndIs
<1> QED BY <1>1, <1>2, <1>3

(* A line starts neither at the LF of a CRLF ... *)
LEMMA StartIsNoLF ==
  ASSUME NEW d, NEW z \in Nat, NEW s \in LineStarts(d, 0, z), s > 0
  PROVE  ~(d[s] = LF /\ d[s - 1] = CR)
<1>1. PICK t \in LineEnds(d, 0, z) : s = AfterEnd(d, z, t) /\ t \in 0..z /\ t < s /\ s <= z
  BY StartIs
<1>9. /\ t \in Int /\ z \in Int /\ (s = t + 1 \/ s = t + 2)
      /\ s = t + 2 <=> d[t] = CR /\ t < z /\ d[t + 1] = LF
  <2>1. t \in Int /\ z \in Int
    BY <1>1
  <2> QED BY <1>1, <2>1, AfterEndIs
<1>2. CASE s = t + 2
  <2>1. s - 1 = t + 1 /\ d[t + 1] = LF
    BY <1>9, <1>2
  <2> QED BY <2>1, Terminators
<1>3. CASE s = t + 1
  <2>1. s - 1 = t /\ ~(d[t] = CR /\ t < z /\ d[t + 1] = LF) /\ t < z
    BY <1>1, <1>3, <1>9
  <2> QED BY <1>3, <2>1
<1> QED BY <1>2, <1>3, <1>9

(* ... nor at the LF that was added. *)
LEMMA StartWithin ==
  ASSUME NEW v, NEW a, NEW n, NEW d, NEW z, PartOf(v, a, n, d, z),
         NEW s \in LineStarts(v, a, n)
  PROVE  s \in a..n /\ s \in 0..z
<1>1. a \in Nat /\ n \in Nat /\ z \in Nat /\ a <= z /\ (n <= z \/ n = z + 1)
  BY DEF PartOf
<1>2. s \in a..n
  BY DEF LineStarts
<1>3. ASSUME s = z + 1 PROVE FALSE
  <2>1. n = z + 1 /\ v[n] = LF /\ d[z] \notin {CR, LF} /\ s # a
    BY <1>1, <1>2, <1>3 DEF PartOf
  <2>2. PICK t \in LineEnds(v, a, n) : s = AfterEnd(v, n, t) /\ t \in a..n /\ t < s /\ s <= n
    BY <1>1, <2>1, StartIs
  <2>3. v[t] \in {CR, LF} /\ v[z] = d[z]
    <3>1. z \in a..z /\ z <= n
      BY <1>1, <2>1
    <3> QED BY <2>2, <3>1 DEF LineEnds, PartOf
  <2>4. CASE s = t + 1
    <3>1. t = z
      BY <1>1, <1>3, <2>2, <2>4
    <3> QED BY <2>1, <2>3, <3>1
  <2>5. CASE s = t + 2
    <3>1. t + 1 = z
      BY <1>1, <1>3, <2>2, <2>5
    <3>2. v[t + 1] = LF
      <4>1. t \in Int /\ n \in Int
        BY <1>1, <2>2
      <4> QED BY ONLY <2>2, <2>5, <4>1 DEF AfterEnd
    <3> QED BY <2>1, <2>3, <3>1, <3>2
  <2> QED BY <1>1, <2>2, <2>4, <2>5, AfterEndIs
<1> QED BY <1>1, <1>2, <1>3

LEMMA AfterAgree ==
  ASSUME NEW v, NEW a, NEW n, NEW d, NEW z, PartOf(v, a, n, d, z),
         NEW t \in Nat, t >= a, t + 1 <= n, t + 1 <= z
  PROVE  AfterEnd(v, n, t) = AfterEnd(d, z, t) /\ v[t] = d[t]
<1>1. a \in Nat /\ n \in Nat /\ z \in Nat
  BY DEF PartOf
<1>2. t \in a..z /\ t <= n /\ t + 1 \in a..z /\ t + 1 <= n /\ t < n /\ t < z
  BY <1>1
<1>3. v[t] = d[t] /\ v[t + 1] = d[t + 1]
  BY <1>2 DEF PartOf
<1> QED BY <1>2, <1>3 DEF AfterEnd

LEMMA StartsOfFile ==
  ASSUME NEW v, NEW a, NEW n, NEW d, NEW z, PartOf(v, a, n, d, z),
         NEW s \in LineStarts(v, a, n), s > a \/ a = 0
  PROVE  s \in LineStarts(d, 0, z)
<1>1. a \in Nat /\ n \in Nat /\ z \in Nat /\ a <= z /\ a <= n
  BY DEF PartOf
<1>2. s \in a..n /\ s \in 0..z
  BY StartWithin
<1>3. CASE s = a
  <2>1. s = 0
    BY <1>1, <1>2, <1>3
  <2> QED BY <1>2, <2>1 DEF LineStarts
<1>4. CASE s # a
  <2>1. PICK t \in LineEnds(v, a, n) : s = AfterEnd(v, n, t) /\ t \in a..n /\ t < s /\ s <= n
    BY <1>1, <1>4, StartIs
  <2>2. t \in Nat /\ t >= a /\ t + 1 <= n /\ t + 1 <= z /\ t <= z /\ t \in Int /\ n \in Int
    BY <1>1, <1>2, <2>1
  <2>3. AfterEnd(v, n, t) = AfterEnd(d, z, t) /\ v[t] = d[t]
    BY <2>2, AfterAgree
  <2>4. CASE t > a \/ a = 0 \/ ~(d[a] = LF /\ d[a - 1] = CR)
    <3>1. t \in LineEnds(d, 0, z)
      BY <2>1, <2>2, <2>4, EndsAgree
    <3> QED BY <1>2, <2>1, <2>3, <3>1 DEF LineStarts
  <2>5. CASE ~(t > a) /\ a # 0 /\ d[a] = LF /\ d[a - 1] = CR
    <3>1. t = a /\ v[t] = LF
      BY <1>1, <2>2, <2>3, <2>5
    <3>2. s = a + 1
      <4>1. AfterEnd(v, n, t) = t + 1
        BY <3>1, Terminators DEF AfterEnd
      <4> QED BY <2>1, <3>1, <4>1
    <3>3. a - 1 \in 0..z /\ a - 1 < z /\ (a - 1) + 1 = a /\ (a - 1) + 2 = a + 1
      BY <1>1, <2>2, <2>5, <3>1
    <3>4. a - 1 \in LineEnds(d, 0, z)
      BY <2>5, <3>3 DEF LineEnds
    <3>5. AfterEnd(d, z, a - 1) = a + 1
      BY <2>5, <3>3 DEF AfterEnd
    <3> QED BY <1>2, <3>2, <3>4, <3>5 DEF LineStarts
  <2> QED BY <2>4, <2>5
<1> QED BY <1>3, <1>4

LEMMA StartsOfPart ==
  ASSUME NEW v, NEW a, NEW n, NEW d, NEW z, PartOf(v, a, n, d, z),
         NEW s \in LineStarts(d, 0, z), s >= a, s <= n
  PROVE  s \in LineStarts(v, a, n)
<1>1. a \in Nat /\ n \in Nat /\ z \in Nat /\ a <= z /\ a <= n
  BY DEF PartOf
<1>2. s \in a..n /\ s \in 0..z
  BY <1>1 DEF LineStarts
<1>3. CASE s = a
  BY <1>2, <1>3 DEF LineStarts
<1>4. CASE s # a
  <2>1. PICK t \in LineEnds(d, 0, z) : s = AfterEnd(d, z, t) /\ t \in 0..z /\ t < s /\ s <= z
    <3>1. s # 0 /\ 0 \in Nat
      BY <1>1, <1>2, <1>4
    <3> QED BY <1>1, <3>1, StartIs
  <2>2. /\ t \in Nat /\ t + 1 <= n /\ t + 1 <= z /\ t <= z /\ t \in Int /\ z \in Int
        /\ t <= n
    BY <1>1, <1>2, <2>1
  <2>3. CASE t >= a
    <3>1. AfterEnd(v, n, t) = AfterEnd(d, z, t) /\ v[t] = d[t] /\ t \in a..n
      BY <1>1, <2>2, <2>3, AfterAgree
    <3>2. t \in LineEnds(v, a, n)
      <4>1. CASE t > a
        BY <2>1, <2>2, <3>1, <4>1, EndsAgree
      <4>2. CASE ~(t > a)
        BY <2>1, <3>1, <4>2 DEF LineEnds
      <4> QED BY <4>1, <4>2
    <3> QED BY <1>2, <2>1, <3>1, <3>2 DEF LineStarts
  <2>4. CASE t < a
    <3>1. s = t + 1 \/ s = t + 2
      BY <2>1, <2>2, AfterEndIs
    <3>2. s = t + 2 /\ t + 1 = a /\ s = a + 1
      BY <1>1, <1>2, <1>4, <2>2, <2>4, <3>1
    <3>3. d[a] = LF
      BY ONLY <2>1, <2>2, <3>2 DEF AfterEnd
    <3>4. v[a] = LF /\ a \in a..n
      BY <1>1, <3>3 DEF PartOf
    <3>5. a \in LineEnds(v, a, n)
      BY <1>1, <3>4 DEF LineEnds
    <3>6. AfterEnd(v, n, a) = a + 1
      BY <3>4, Terminators DEF AfterEnd
    <3> QED BY <1>2, <3>2, <3>5, <3>6 DEF LineStarts
  <2> QED BY <1>1, <2>2, <2>3, <2>4
<1> QED BY <1>3, <1>4

(* A line that starts where one of the file does and that the reader sees   *)
(* the end of is the line of the file.                                      *)
LEMMA TerminatedLine ==
  ASSUME NEW v, NEW a, NEW n, NEW d, NEW z, PartOf(v, a, n, d, z),
         NEW l \in Lines(v, a, n), l.off + l.len # n + 1,
         l.off \in LineStarts(d, 0, z)
  PROVE  l \in Lines(d, 0, z) /\ l = LineAt(d, 0, z, l.off)
<1>1. a \in Nat /\ n \in Nat /\ z \in Nat /\ a <= z /\ a <= n /\ (n <= z \/ n = z + 1)
  BY DEF PartOf
<1>2. PICK s, e : s = l.off /\ e = l.off + l.len
  OBVIOUS
<1>3. /\ s \in a..n /\ l = LineAt(v, a, n, s) /\ l.len \in Nat /\ e \in LineEnds(v, a, n)
      /\ \A t \in LineEnds(v, a, n) : t >= s => e <= t
  BY <1>1, <1>2, LinesWithin
<1>4. e \in a..n /\ s \in Nat /\ s <= z /\ e >= s /\ l.len = e - s
  <2>1. e \in a..n
    BY <1>3 DEF LineEnds
  <2>2. s \in 0..z
    BY <1>2 DEF LineStarts
  <2> QED BY <1>1, <1>2, <1>3, <2>1, <2>2
<1> DEFINE E == { t \in LineEnds(d, 0, z) : t >= s } \cup {z + 1}
<1>5. ~(s = a /\ a > 0 /\ d[a] = LF /\ d[a - 1] = CR)
  BY <1>1, <1>2, StartIsNoLF
<1>6. \A t \in a..n : t >= s /\ t <= z => (t \in LineEnds(v, a, n) <=> t \in LineEnds(d, 0, z))
  <2> SUFFICES ASSUME NEW t \in a..n, t >= s, t <= z
               PROVE  t \in LineEnds(v, a, n) <=> t \in LineEnds(d, 0, z)
    OBVIOUS
  <2>1. t > a \/ a = 0 \/ ~(d[a] = LF /\ d[a - 1] = CR)
    BY <1>1, <1>3, <1>4, <1>5
  <2> QED BY <2>1, EndsAgree
<1>7. e \in E
  <2>1. CASE e <= z
    BY <1>3, <1>4, <1>6, <2>1
  <2>2. CASE e = z + 1
    BY <2>2
  <2> QED BY <1>1, <1>4, <2>1, <2>2
<1>8. \A t \in E : e <= t
  <2> SUFFICES ASSUME NEW t \in E PROVE e <= t
    OBVIOUS
  <2>1. CASE t = z + 1
    BY <1>1, <1>4, <2>1
  <2>2. CASE t # z + 1 /\ t <= n
    <3>1. t \in LineEnds(d, 0, z) /\ t >= s
      BY <2>2
    <3>2. t \in 0..z
      BY <3>1 DEF LineEnds
    <3>3. t \in a..n /\ t <= z
      BY <1>1, <1>3, <2>2, <3>1, <3>2
    <3> QED BY <1>3, <1>6, <3>1, <3>3
  <2>3. CASE t # z + 1 /\ ~(t <= n)
    <3>1. t \in 0..z
      BY <2>3 DEF LineEnds
    <3> QED BY <1>1, <1>4, <2>3, <3>1
  <2> QED BY <2>1, <2>2, <2>3
<1>9. Min(E) = e
  <2>1. E \subseteq Nat
    <3>1. LineEnds(d, 0, z) \subseteq 0..z
      BY DEF LineEnds
    <3> QED BY <1>1, <3>1
  <2> HIDE DEF E
  <2>2. PICK m : m = Min(E)
    OBVIOUS
  <2>3. m \in E /\ m <= e
    BY <1>7, <2>1, <2>2, Least
  <2>4. e <= m /\ m \in Nat /\ e \in Nat
    BY <1>7, <1>8, <2>1, <2>3
  <2> QED BY <2>2, <2>3, <2>4
<1>10. LineAt(d, 0, z, s) = [off |-> s, len |-> e - s]
  BY <1>9 DEF LineAt
<1>11. l = [off |-> s, len |-> l.len]
  BY <1>2, <1>3 DEF LineAt
<1>12. l = LineAt(d, 0, z, s)
  BY <1>4, <1>10, <1>11
<1> QED BY <1>2, <1>12 DEF Lines

-----------------------------------------------------------------------------
(* Text. *)
LEMMA ViewIsPart ==
  ASSUME input \in Inputs, NEW j, IsChunk(j)
  PROVE  /\ PartOf(View(j), ReadStart(j), ViewEnd(j), file, size - 1)
         /\ ViewEnd(j) \in Nat /\ ReadEnd(j) <= ViewEnd(j) /\ size - 1 \in Nat
<1>1. PICK a, b, n, z, v :
        a = ReadStart(j) /\ b = ReadEnd(j) /\ n = ViewEnd(j) /\ z = size - 1 /\ v = View(j)
  OBVIOUS
<1>2. a \in Nat /\ b \in Nat /\ a <= b /\ b <= z /\ z \in Nat /\ size \in Nat
  <2>1. /\ ReadStart(j) \in Nat /\ ReadStart(j) <= j.start
        /\ ReadEnd(j) \in Nat /\ j.end <= ReadEnd(j) /\ ReadEnd(j) <= size - 1
        /\ j.start \in Nat /\ j.end \in Nat /\ j.start <= j.end
    BY ReadRange
  <2>2. size \in Nat
    BY InputTypes
  <2>3. a \in Nat /\ b \in Nat /\ a <= b /\ b <= z
    BY ONLY <1>1, <2>1
  <2> QED BY ONLY <1>1, <2>2, <2>3
<1>3. (NeedsTerminator(j) /\ n = b + 1) \/ (~NeedsTerminator(j) /\ n = b)
  BY <1>1 DEF ViewEnd
<1>4. NeedsTerminator(j) => b = z /\ file[z] \notin {CR, LF}
  BY <1>1 DEF NeedsTerminator
<1>5. v = [ i \in a..(b + 1) |-> IF i <= b THEN file[i] ELSE LF ]
  BY <1>1 DEF View
<1>6. \A i \in a..z : i <= n => v[i] = file[i]
  <2> SUFFICES ASSUME NEW i \in a..z, i <= n PROVE v[i] = file[i]
    OBVIOUS
  <2>1. i <= b /\ i \in a..(b + 1)
    BY <1>2, <1>3, <1>4
  <2> QED BY <1>5, <2>1
<1>7. n <= z \/ (n = z + 1 /\ v[n] = LF /\ file[z] \notin {CR, LF})
  <2>1. b + 1 \in a..(b + 1) /\ ~(b + 1 <= b)
    BY <1>2
  <2>2. v[b + 1] = LF
    BY <1>5, <2>1
  <2> QED BY <1>2, <1>3, <1>4, <2>2
<1>8. n \in Nat /\ a <= n /\ b <= n /\ a <= z
  BY <1>2, <1>3
<1>9. PartOf(v, a, n, file, z)
  BY <1>2, <1>6, <1>7, <1>8 DEF PartOf
<1> QED BY <1>1, <1>2, <1>8, <1>9

LEMMA NotRefused ==
  ASSUME NEW d, NEW a \in Nat, NEW b \in Int, NEW m, NEW skip,
         NEW l \in ReadLines(d, a, b, m, skip).lines
  PROVE  /\ l \in Lines(d, a, b) /\ l.off \in a..b /\ l.off + l.len # b + 1
         /\ skip => l.off # a
<1>1. l \in Lines(d, a, b) /\ (skip => l.off # a)
      /\ \A r \in { x \in Lines(d, a, b) : Refused(d, b, m, x) } : l.off < r.off
  BY DEF ReadLines
<1>2. l.off \in a..b
  BY <1>1, LinesWithin
<1>3. ~Refused(d, b, m, l)
  BY <1>1, <1>2
<1> QED BY <1>1, <1>2, <1>3 DEF Refused

IsTextReading(j, m, skip) ==
  LET reading == ReadLines(View(j), ReadStart(j), ViewEnd(j), m, skip) IN
  /\ ReadChunk(j).ok = reading.ok
  /\ ReadChunk(j).records = { {l} : l \in reading.lines }
  /\ skip <=> ReadStart(j) > 0
  /\ ReadStart(j) > 0 => ReadStart(j) < j.start

LEMMA TextReads ==
  ASSUME input \in Inputs, input.dataType = "text", NEW j, IsChunk(j)
  PROVE  \/ ReadChunk(j).records = {} /\ ~ReadChunk(j).ok
         \/ \E m, skip : IsTextReading(j, m, skip)
<1>1. /\ limit \in Nat /\ ReadStart(j) \in Nat /\ ReadStart(j) <= j.start
      /\ WholeFile => ReadStart(j) = 0
      /\ j.start \in Nat
  BY ReadRange, InputTypes
<1>2. limit = 0 => ReadStart(j) = 0
  BY <1>1 DEF WholeFile
<1>3. Nothing(j).records = {} /\ Nothing(j).ok = FALSE
  BY DEF Nothing, Reading
<1>4. CASE ~Accepted(j) \/ (limit > 0 /\ ~BoundariesFound(j))
  <2>1. ReadChunk(j) = Nothing(j)
    BY <1>4 DEF ReadChunk, ReadText
  <2> QED BY <1>3, <2>1
<1>5. CASE Accepted(j) /\ ~(limit > 0 /\ ~BoundariesFound(j))
  <2>1. PICK m, skip : m = (IF limit = 0 THEN DefaultLineLimit ELSE limit)
                       /\ skip = (limit > 0 /\ ReadStart(j) > 0)
    OBVIOUS
  <2>2. PICK x : x = ReadLines(View(j), ReadStart(j), ViewEnd(j), m, skip)
    OBVIOUS
  <2>3. ReadChunk(j) = Reading(x.ok, ReadStart(j), { {l} : l \in x.lines })
    BY <1>5, <2>1, <2>2 DEF ReadChunk, ReadText
  <2>4. /\ ReadChunk(j).ok = ReadLines(View(j), ReadStart(j), ViewEnd(j), m, skip).ok
        /\ ReadChunk(j).records =
             { {l} : l \in ReadLines(View(j), ReadStart(j), ViewEnd(j), m, skip).lines }
    BY <2>2, <2>3 DEF Reading
  <2>5. skip <=> ReadStart(j) > 0
    <3>1. limit > 0 /\ ReadStart(j) > 0 <=> ReadStart(j) > 0
      BY <1>1, <1>2
    <3> QED BY <2>1, <3>1, Zenon
  <2>6. ReadStart(j) > 0 => ReadStart(j) < j.start
    <3> SUFFICES ASSUME ReadStart(j) > 0 PROVE ReadStart(j) < j.start
      OBVIOUS
    <3>1. limit > 0 /\ BoundariesFound(j) /\ j.start > 0
      BY <1>1, <1>2, <1>5
    <3>2. \E i \in ReadStart(j)..(j.start - 1) : TRUE
      BY <3>1 DEF BoundariesFound, HasTerminator
    <3> QED BY <1>1, <3>2
  <2>7. IsTextReading(j, m, skip)
    BY ONLY <2>4, <2>5, <2>6 DEF IsTextReading
  <2> QED BY <2>7
<1> QED BY <1>4, <1>5

LEMMA LinesOfFile ==
  ASSUME input \in Inputs, NEW l \in AllLines
  PROVE  /\ l.off \in LineStarts(file, 0, size - 1) /\ l.off \in 0..(size - 1)
         /\ l = LineAt(file, 0, size - 1, l.off)
         /\ l.len \in Nat /\ l.off \in Nat /\ l.off <= size - 1
<1>1. size - 1 \in Int /\ 0 \in Nat
  BY InputTypes
<1>2. l \in Lines(file, 0, size - 1)
  BY DEF AllLines
<1>3. /\ l.off \in LineStarts(file, 0, size - 1) /\ l.off \in 0..(size - 1)
      /\ l = LineAt(file, 0, size - 1, l.off) /\ l.len \in Nat
  BY <1>1, <1>2, LinesWithin
<1> QED BY <1>1, <1>3

LEMMA TextRecords ==
  ASSUME input \in Inputs, input.dataType = "text", NEW j, IsChunk(j),
         NEW r \in ReadChunk(j).records
  PROVE  r \in Records
<1>r. PICK m, skip : IsTextReading(j, m, skip)
  BY TextReads
<1>1. /\ ReadChunk(j).ok = ReadLines(View(j), ReadStart(j), ViewEnd(j), m, skip).ok
      /\ ReadChunk(j).records =
           { {y} : y \in ReadLines(View(j), ReadStart(j), ViewEnd(j), m, skip).lines }
      /\ skip <=> ReadStart(j) > 0
      /\ ReadStart(j) > 0 => ReadStart(j) < j.start
  BY <1>r DEF IsTextReading
<1>2. PICK l \in ReadLines(View(j), ReadStart(j), ViewEnd(j), m, skip).lines : r = {l}
  BY <1>1
<1>3. PICK v, a, n, z : v = View(j) /\ a = ReadStart(j) /\ n = ViewEnd(j) /\ z = size - 1
  OBVIOUS
<1>4. PartOf(v, a, n, file, z) /\ a \in Nat /\ n \in Nat
  BY <1>3, ViewIsPart DEF PartOf
<1>5. l \in Lines(v, a, n) /\ l.off \in a..n /\ l.off + l.len # n + 1 /\ (a > 0 => l.off # a)
  <2>1. l \in ReadLines(v, a, n, m, skip).lines /\ a \in Nat /\ n \in Int /\ (a > 0 => skip)
    BY <1>1, <1>2, <1>3, <1>4
  <2> QED BY <2>1, NotRefused
<1>6. l.off \in LineStarts(v, a, n)
  <2>1. a \in Nat /\ n \in Int
    BY <1>4
  <2> QED BY <1>5, <2>1, LinesWithin
<1>7. l.off > a \/ a = 0
  BY <1>4, <1>5
<1>8. l.off \in LineStarts(file, 0, z)
  BY <1>4, <1>6, <1>7, StartsOfFile
<1>9. l \in Lines(file, 0, z)
  BY <1>4, <1>5, <1>8, TerminatedLine
<1> QED BY <1>2, <1>3, <1>9 DEF Records, AllLines

LEMMA TextComplete ==
  ASSUME input \in Inputs, input.dataType = "text", NEW j, IsChunk(j), ReadChunk(j).ok,
         NEW l \in AllLines, WholeFile \/ (l.off >= j.start /\ l.off <= j.end)
  PROVE  {l} \in ReadChunk(j).records
<1>r. PICK m, skip : IsTextReading(j, m, skip)
  BY TextReads
<1>1. /\ ReadChunk(j).ok = ReadLines(View(j), ReadStart(j), ViewEnd(j), m, skip).ok
      /\ ReadChunk(j).records =
           { {y} : y \in ReadLines(View(j), ReadStart(j), ViewEnd(j), m, skip).lines }
      /\ skip <=> ReadStart(j) > 0
      /\ ReadStart(j) > 0 => ReadStart(j) < j.start
  BY <1>r DEF IsTextReading
<1>2. PICK v, a, n, z : v = View(j) /\ a = ReadStart(j) /\ n = ViewEnd(j) /\ z = size - 1
  OBVIOUS
<1>3. PartOf(v, a, n, file, z) /\ a \in Nat /\ n \in Nat /\ z \in Nat
  BY <1>2, ViewIsPart DEF PartOf
<1>4. PICK s : s = l.off
  OBVIOUS
<1>5. s \in LineStarts(file, 0, z) /\ s \in Nat /\ s <= z /\ l = LineAt(file, 0, z, s)
  BY <1>2, <1>4, LinesOfFile
<1>6. s >= a /\ s <= n /\ (a > 0 => s # a)
  <2>1. /\ a <= j.start /\ j.end <= ReadEnd(j) /\ ReadEnd(j) <= n
        /\ WholeFile => a = 0 /\ ReadEnd(j) = z
        /\ j.start \in Nat /\ j.end \in Nat /\ ReadEnd(j) \in Nat
    BY <1>2, ReadRange, ViewIsPart
  <2>2. a > 0 => a < j.start
    BY <1>1, <1>2
  <2> QED BY <1>3, <1>4, <1>5, <2>1, <2>2
<1>7. s \in LineStarts(v, a, n)
  BY <1>3, <1>5, <1>6, StartsOfPart
<1>8. PICK y : y = LineAt(v, a, n, s)
  OBVIOUS
<1>9. y \in Lines(v, a, n) /\ y.off = s
  BY <1>7, <1>8 DEF Lines, LineAt
<1>10. PICK x : x = ReadLines(v, a, n, m, skip)
  OBVIOUS
<1>11. ~\E q \in Lines(v, a, n) : Refused(v, n, m, q)
  <2>1. x.ok
    BY <1>1, <1>2, <1>10
  <2> QED BY <1>10, <2>1 DEF ReadLines
<1>12. y.off + y.len # n + 1
  BY <1>9, <1>11 DEF Refused
<1>13. y = l
  <2>1. y.off \in LineStarts(file, 0, z)
    BY <1>5, <1>9
  <2> QED BY <1>3, <1>5, <1>9, <1>12, <2>1, TerminatedLine
<1>14. y \in x.lines
  BY <1>1, <1>2, <1>6, <1>9, <1>10, <1>11 DEF ReadLines
<1> QED BY <1>1, <1>2, <1>10, <1>13, <1>14

-----------------------------------------------------------------------------
(* Multi-line records. *)
LEMMA LongerBreak ==
  ASSUME NEW d, NEW l, NEW m, l.off = m.off, l.len \in Nat, m.len \in Nat,
         l.len <= m.len, IsBreak(d, l)
  PROVE  IsBreak(d, m) /\ l.len > 0
<1>1. BreakFields # {} /\ \A f \in BreakFields : f.at < l.len /\ d[l.off + f.at] = f.value
  BY DEF IsBreak, Matches
<1>2. \A f \in BreakFields : f.at \in Nat
  BY LayoutFields
<1>3. \A f \in BreakFields : f.at < m.len
  BY <1>1, <1>2
<1>4. l.len > 0
  BY <1>1, <1>2
<1> QED BY <1>1, <1>3, <1>4 DEF IsBreak, Matches

(* What is read from a place inside a line of the file is the end of it, or *)
(* of its terminator.                                                       *)
LEMMA HeadIsTail ==
  ASSUME NEW d, NEW a \in Nat, NEW b \in Nat, NEW z \in Nat, a <= b, b <= z,
         a \notin LineStarts(d, 0, z),
         NEW l, l = LineAt(d, a, b, a), l.len > 0
  PROVE  \E m \in Lines(d, 0, z), k \in Nat :
           k > 0 /\ a = m.off + k /\ l.len <= m.len - k
<1> DEFINE S == { s \in LineStarts(d, 0, z) : s <= a }
<1>1. S \subseteq 0..a /\ 0 \in S
  BY DEF LineStarts
<1>2. PICK p \in S : \A s \in S : s <= p
  <2> DEFINE T == { a - s : s \in S }
  <2>1. T \subseteq Nat /\ a - 0 \in T
    BY <1>1
  <2>2. PICK t \in T : \A u \in T : t <= u
    <3> HIDE DEF T
    <3> QED BY <2>1, LeastNatural
  <2>3. PICK q \in S : t = a - q
    BY <2>2
  <2>4. \A s \in S : a - q <= a - s
    BY <2>2, <2>3
  <2>5. \A s \in S : s \in Int /\ s <= q
    BY <1>1, <2>3, <2>4
  <2> QED BY <2>3, <2>5
<1>3. p \in Nat /\ p < a /\ p \in LineStarts(d, 0, z)
  BY <1>1, <1>2
<1>4. PICK m : m = LineAt(d, 0, z, p)
  OBVIOUS
<1>5. m \in Lines(d, 0, z) /\ m.off = p
  BY <1>3, <1>4 DEF Lines, LineAt
<1>6. PICK e : e = p + m.len
  OBVIOUS
<1>7. /\ m.len \in Nat /\ e \in Nat /\ e <= z + 1 /\ e >= p
      /\ e = z + 1 \/ e \in LineEnds(d, 0, z)
  <2>1. 0 \in Nat /\ z \in Int
    OBVIOUS
  <2>2. /\ m.len \in Nat /\ m.off + m.len <= z + 1
        /\ m.off + m.len = z + 1 \/ m.off + m.len \in LineEnds(d, 0, z)
    BY <1>5, <2>1, LinesWithin
  <2> QED BY <1>3, <1>5, <1>6, <2>2
<1>8. /\ l.len \in Nat /\ a + l.len <= b + 1
      /\ \A t \in LineEnds(d, a, b) : t >= a => a + l.len <= t
  <2>1. a \in LineStarts(d, a, b) /\ b \in Int
    <3>1. a \in a..b
      OBVIOUS
    <3> QED BY <3>1 DEF LineStarts
  <2>2. l \in Lines(d, a, b) /\ l.off = a
    BY <2>1 DEF Lines, LineAt
  <2> QED BY <2>1, <2>2, LinesWithin
<1>9. a \notin LineEnds(d, a, b)
  BY <1>8
<1>10. d[a] # CR /\ d[a] # LF
  BY <1>9 DEF LineEnds
<1>11. e > a
  <2> SUFFICES ASSUME e <= a PROVE FALSE
    BY <1>7
  <2>1. e \in LineEnds(d, 0, z) /\ e \in 0..z /\ d[e] \in {CR, LF}
    BY <1>7 DEF LineEnds
  <2>2. e # a
    BY <1>10, <2>1
  <2>3. PICK q : q = AfterEnd(d, z, e)
    OBVIOUS
  <2>4. q = e + 1 \/ (q = e + 2 /\ d[e + 1] = LF)
    <3>1. e \in Int /\ z \in Int
      BY <1>7
    <3> QED BY <2>3, <3>1, AfterEndIs
  <2>5. q <= a
    <3>1. CASE q = e + 1
      BY <1>7, <2>2, <3>1
    <3>2. CASE q = e + 2 /\ d[e + 1] = LF
      <4>1. e + 1 # a
        BY <1>10, <3>2
      <4> QED BY <1>7, <2>2, <3>2, <4>1
    <3> QED BY <2>4, <3>1, <3>2
  <2>6. q \in 0..z
    BY <1>7, <2>4, <2>5
  <2>7. q \in LineStarts(d, 0, z)
    BY <2>1, <2>3, <2>6 DEF LineStarts
  <2>8. q \in S /\ q <= p
    BY <1>2, <2>5, <2>7
  <2> QED BY <1>3, <1>7, <2>4, <2>8
<1>12. a + l.len <= e
  <2>1. CASE e > b
    BY <1>7, <1>8, <2>1
  <2>2. CASE e <= b
    <3>1. e \in LineEnds(d, 0, z) /\ e \in a..b /\ e > 0
      BY <1>7, <1>11, <2>2
    <3>2. e \in LineEnds(d, a, b)
      BY <1>11, <3>1 DEF LineEnds
    <3> QED BY <1>7, <1>8, <1>11, <3>2
  <2> QED BY <1>7, <2>1, <2>2
<1>13. PICK k : k = a - p
  OBVIOUS
<1>14. k \in Nat /\ k > 0 /\ a = m.off + k /\ l.len <= m.len - k
  BY <1>3, <1>5, <1>6, <1>7, <1>8, <1>12, <1>13
<1> QED BY <1>5, <1>14

(* So no break is found inside a line. *)
LEMMA BreaksAreStarts ==
  ASSUME input \in Inputs, input.dataType = "multi-line", Unambiguous,
         NEW a \in Nat, NEW b \in Nat, a <= b, b <= size - 1,
         NEW l \in Lines(file, a, b), IsBreak(file, l)
  PROVE  l.off \in LineStarts(file, 0, size - 1)
<1>1. size - 1 \in Nat /\ size \in Nat
  BY InputTypes
<1>2. PICK z : z = size - 1
  OBVIOUS
<1>3. l.off \in LineStarts(file, a, b) /\ l.off \in a..b /\ l = LineAt(file, a, b, l.off)
      /\ l.len \in Nat
  <2>1. PICK d : d = file
    OBVIOUS
  <2>2. b \in Int /\ l \in Lines(d, a, b)
    BY <2>1
  <2>3. l.off \in LineStarts(d, a, b) /\ l.off \in a..b /\ l.len \in Nat
    BY ONLY <2>2, a \in Nat, LinesWithin
  <2>4. l = LineAt(d, a, b, l.off)
    BY ONLY <2>2, a \in Nat, LinesWithin
  <2> QED BY <2>1, <2>3, <2>4
<1>4. l.len > 0
  BY <1>3, LongerBreak
<1>5. PartOf(file, a, b, file, z)
  BY <1>1, <1>2 DEF PartOf
<1>6. CASE l.off > a
  BY <1>2, <1>3, <1>5, <1>6, StartsOfFile
<1>7. CASE l.off = a
  <2> SUFFICES ASSUME a \notin LineStarts(file, 0, z) PROVE FALSE
    BY <1>2, <1>7
  <2>1. z \in Nat /\ b <= z /\ l = LineAt(file, a, b, a)
    BY <1>1, <1>2, <1>3, <1>7
  <2>2. PICK m \in Lines(file, 0, z), k \in Nat :
           k > 0 /\ a = m.off + k /\ l.len <= m.len - k
    BY <1>4, <2>1, HeadIsTail
  <2>3. m \in AllLines /\ m.len \in Nat
    <3>1. m \in AllLines
      BY <1>2, <2>2 DEF AllLines
    <3> QED BY <3>1, LinesOfFile
  <2>4. k \in 1..(m.len - 1) /\ m.len - k \in Nat
    BY <1>3, <1>4, <2>2, <2>3
  <2>5. ~IsBreak(file, [off |-> m.off + k, len |-> m.len - k])
    BY <2>3, <2>4 DEF Unambiguous
  <2>6. PICK y : y = [off |-> m.off + k, len |-> m.len - k]
    OBVIOUS
  <2>7. l.off = y.off /\ l.len <= y.len /\ y.len \in Nat
    BY <1>7, <2>2, <2>4, <2>6
  <2> QED BY <1>3, <2>5, <2>6, <2>7, LongerBreak
<1> QED BY <1>3, <1>6, <1>7

LEMMA PartIsShorter ==
  ASSUME NEW d, NEW a \in Nat, NEW b \in Nat, NEW z \in Nat, b <= z,
         NEW l \in Lines(d, a, b), NEW x \in Lines(d, 0, z), x.off = l.off
  PROVE  l.len <= x.len /\ l.len \in Nat /\ x.len \in Nat
<1>1. /\ l.off \in a..b /\ l.len \in Nat /\ l.off + l.len <= b + 1
      /\ \A t \in LineEnds(d, a, b) : t >= l.off => l.off + l.len <= t
  <2>1. b \in Int
    OBVIOUS
  <2> QED BY <2>1, LinesWithin
<1>2. /\ x.len \in Nat
      /\ x.off + x.len = z + 1 \/ x.off + x.len \in LineEnds(d, 0, z)
  <2>1. z \in Int /\ 0 \in Nat
    OBVIOUS
  <2> QED BY <2>1, LinesWithin
<1>3. PICK t : t = l.off + x.len
  OBVIOUS
<1>4. l.off + l.len <= t
  <2>1. CASE t > b
    BY <1>1, <1>2, <1>3, <2>1
  <2>2. CASE t <= b
    <3>1. t \in LineEnds(d, 0, z) /\ t >= l.off /\ t \in a..b /\ (t > a => t > 0)
      BY <1>1, <1>2, <1>3, <2>2
    <3>2. t \in LineEnds(d, a, b)
      BY <3>1 DEF LineEnds
    <3> QED BY <1>1, <3>1, <3>2
  <2> QED BY <1>1, <1>2, <1>3, <2>1, <2>2
<1> QED BY <1>1, <1>2, <1>3, <1>4

(* A chunk ends where the file does or before a line that begins a record.  *)
LEMMA ChunkEndsAtBreak ==
  ASSUME PlanMade, input.dataType = "multi-line", Unambiguous, NEW c \in Chunks
  PROVE  \/ jobs[c].end = size - 1
         \/ \E x \in AllLines : x.off = jobs[c].end + 1 /\ IsBreak(file, x)
<1>1. input \in Inputs /\ ~PlanIsRefused /\ jobs = MultiLineJobs
  BY ChunkShape DEF PlanMade, PlannedJobs, WholeFile
<1>2. PICK k, f : /\ Cuts(k, f) /\ CutInto(MultiLineJobs, k, f)
                  /\ \A i \in 0..(k - 1) :
                       /\ f[i] \in NominalStarts /\ OwnedEnd(f[i]) = f[i + 1] - 1
                       /\ MultiLineJobs[i].padding = Padding(f[i])
  BY <1>1, MultiLinePlan
<1>3. c \in 0..(k - 1)
  BY <1>1, <1>2 DEF CutInto, Chunks
<1>4. PICK s, e, j : s = f[c] /\ e = f[c + 1] - 1 /\ j = jobs[c]
  OBVIOUS
<1>5. /\ j \in [start : Nat, end : Nat, padding : Nat]
      /\ j.end - j.padding = e /\ j.end <= size - 1 /\ j.padding = Padding(s)
      /\ s \in NominalStarts /\ OwnedEnd(s) = e
  BY <1>1, <1>2, <1>3, <1>4 DEF CutInto
<1>6. e \in Nat /\ size - 1 \in Nat /\ size \in Nat /\ e <= size - 1 /\ j.end = e + Padding(s)
  <2>1. f \in [0..k -> Nat] /\ k \in Nat /\ f[c] < f[c + 1]
    BY <1>2, <1>3 DEF Cuts
  <2>2. c \in 0..k /\ c + 1 \in 0..k
    BY <1>3, <2>1
  <2>3. f[c] \in Nat /\ f[c + 1] \in Nat
    BY <2>1, <2>2
  <2>4. e \in Nat
    BY <1>4, <2>1, <2>3
  <2>5. size \in Nat
    BY <1>1, InputTypes
  <2> QED BY <1>5, <2>4, <2>5
<1>7. /\ LookEnd(s) \in Nat /\ LookEnd(s) <= size - 1
      /\ e # size - 1 =>
              /\ j.end + 1 \in BreaksAhead(s)
                   \/ (BreaksAhead(s) = {} /\ j.end + 1 = LookEnd(s) + 1)
  BY <1>1, <1>5, <1>6, PaddingWithin
<1>8. CASE e = size - 1
  BY <1>4, <1>5, <1>6, <1>8 DEF Padding
<1>9. CASE e # size - 1 /\ BreaksAhead(s) = {}
  <2>1. NextBreakFound(s)
    BY <1>1, <1>5 DEF PlanIsRefused
  <2>2. LookEnd(s) = size - 1
    BY <1>9, <2>1 DEF NextBreakFound
  <2> QED BY <1>4, <1>5, <1>6, <1>7, <1>9, <2>2
<1>10. CASE j.end + 1 \in BreaksAhead(s)
  <2>1. PICK a, b : a = e + 1 /\ b = LookEnd(s)
    OBVIOUS
  <2>2. PICK l \in Lines(file, a, b) : l.off = j.end + 1 /\ IsBreak(file, l)
    BY <1>5, <1>10, <2>1 DEF BreaksAhead
  <2>3. a \in Nat /\ b \in Nat /\ b \in Int /\ b <= size - 1
    BY <1>6, <1>7, <2>1
  <2>4. l.off \in a..b /\ a <= b
    <3>1. l.off \in a..b
      BY <2>3, LinesWithin
    <3> QED BY <2>3, <3>1
  <2>5. l.off \in LineStarts(file, 0, size - 1)
    BY <1>1, <2>2, <2>3, <2>4, BreaksAreStarts
  <2>6. PICK x : x = LineAt(file, 0, size - 1, l.off)
    OBVIOUS
  <2>7. x \in Lines(file, 0, size - 1) /\ x.off = l.off
    BY <2>5, <2>6 DEF Lines, LineAt
  <2>8. l.len <= x.len /\ l.len \in Nat /\ x.len \in Nat
    BY <1>6, <2>3, <2>7, PartIsShorter
  <2>9. IsBreak(file, x)
    BY <2>2, <2>7, <2>8, LongerBreak
  <2> QED BY <1>4, <2>2, <2>7, <2>9 DEF AllLines
<1> QED BY <1>7, <1>8, <1>9, <1>10

(* The lines read of a chunk: those of the file up to the first error, but  *)
(* for the end of a line before them.                                       *)
LEMMA LinesRead ==
  ASSUME input \in Inputs, input.dataType = "multi-line", Unambiguous,
         NEW j, IsChunk(j), NEW m, NEW x, x = ReadLines(file, j.start, j.end, m, FALSE)
  PROVE  /\ \A l \in x.lines : l.off \in j.start..j.end
         /\ \A l \in x.lines : l.off > j.start \/ IsBreak(file, l) => l \in AllLines
         /\ \A l \in AllLines :
              l.off \in j.start..j.end /\ (x.ok \/ \E y \in x.lines : l.off <= y.off)
                => l \in x.lines
<1>1. PICK a, b, z : a = j.start /\ b = j.end /\ z = size - 1
  OBVIOUS
<1>2. a \in Nat /\ b \in Nat /\ a <= b /\ b <= z /\ z \in Nat /\ b \in Int
  <2>1. j.start \in Nat /\ j.end \in Nat /\ j.start <= j.end /\ j.end <= size - 1
    BY ReadRange DEF IsChunk
  <2>2. size \in Nat
    BY InputTypes
  <2> QED BY <1>1, <2>1, <2>2
<1>3. PartOf(file, a, b, file, z)
  BY <1>2 DEF PartOf
<1>4. x = ReadLines(file, a, b, m, FALSE)
  BY <1>1
<1>5. \A l \in x.lines : l \in Lines(file, a, b) /\ l.off \in a..b /\ l.off + l.len # b + 1
  BY <1>2, <1>4, NotRefused
<1>6. ASSUME NEW l \in x.lines, l.off > a \/ IsBreak(file, l) PROVE l \in AllLines
  <2>1. l \in Lines(file, a, b) /\ l.off \in a..b /\ l.off + l.len # b + 1
    BY <1>5
  <2>2. l.off \in LineStarts(file, a, b)
    BY <1>2, <2>1, LinesWithin
  <2>3. l.off \in LineStarts(file, 0, z)
    <3>1. CASE l.off > a
      BY <1>3, <2>2, <3>1, StartsOfFile
    <3>2. CASE IsBreak(file, l)
      BY <1>1, <1>2, <2>1, <3>2, BreaksAreStarts
    <3> QED BY <1>6, <3>1, <3>2
  <2>4. l \in Lines(file, 0, z)
    BY <1>3, <2>1, <2>3, TerminatedLine
  <2> QED BY <1>1, <2>4 DEF AllLines
<1>7. ASSUME NEW l \in AllLines, l.off \in a..b, x.ok \/ \E y \in x.lines : l.off <= y.off
      PROVE  l \in x.lines
  <2>1. PICK s : s = l.off
    OBVIOUS
  <2>2. s \in LineStarts(file, 0, z) /\ s \in Nat /\ l = LineAt(file, 0, z, s) /\ s >= a /\ s <= b
    BY <1>1, <1>2, <1>7, <2>1, LinesOfFile
  <2>3. s \in LineStarts(file, a, b)
    BY <1>3, <2>2, StartsOfPart
  <2>4. PICK y : y = LineAt(file, a, b, s)
    OBVIOUS
  <2>5. y \in Lines(file, a, b) /\ y.off = s
    BY <2>3, <2>4 DEF Lines, LineAt
  <2>6. \A r \in Lines(file, a, b) : r.off \in Nat
    <3>1. \A r \in Lines(file, a, b) : r.off \in a..b
      BY <1>2, LinesWithin
    <3> QED BY <1>2, <3>1
  <2>7. \A r \in Lines(file, a, b) : Refused(file, b, m, r) => s < r.off
    <3>1. CASE x.ok
      <4>0. x.ok = ({ r \in Lines(file, a, b) : Refused(file, b, m, r) } = {})
        BY <1>4 DEF ReadLines
      <4>1. { r \in Lines(file, a, b) : Refused(file, b, m, r) } = {}
        BY <3>1, <4>0, Zenon
      <4> QED BY <4>1, Zenon
    <3>2. CASE \E q \in x.lines : l.off <= q.off
      <4>1. PICK q \in x.lines : s <= q.off
        BY <2>1, <3>2
      <4>2. q.off \in Nat
        BY <1>5, <2>6
      <4>3. \A r \in Lines(file, a, b) : Refused(file, b, m, r) => q.off < r.off
        BY <1>4 DEF ReadLines
      <4> QED BY <2>2, <2>6, <4>1, <4>2, <4>3
    <3> QED BY <1>7, <3>1, <3>2
  <2>8. y \in x.lines
    BY <1>4, <2>5, <2>7 DEF ReadLines
  <2>9. y.off + y.len # b + 1 /\ y.off \in LineStarts(file, 0, z)
    BY <1>5, <2>2, <2>5, <2>8
  <2>10. y = LineAt(file, 0, z, s)
    BY <1>3, <2>5, <2>9, TerminatedLine
  <2> QED BY <2>2, <2>8, <2>10
<1> QED BY <1>1, <1>5, <1>6, <1>7

(* A record is passed on with all its lines. *)
LEMMA WholeRecords ==
  ASSUME PlanMade, input.dataType = "multi-line", Unambiguous, NEW c \in Chunks,
         NEW m, NEW x, x = ReadLines(file, jobs[c].start, jobs[c].end, m, FALSE),
         NEW l \in x.lines, IsBreak(file, l),
         x.ok \/ \E q \in x.lines : IsBreak(file, q) /\ q.off > l.off
  PROVE  RecordFrom(file, x.lines, l) = RecordFrom(file, AllLines, l)
<1>1. PICK a, b, B : a = jobs[c].start /\ b = jobs[c].end /\ B = x.lines
  OBVIOUS
<1>2. input \in Inputs /\ IsChunk(jobs[c])
  BY ChunkShape DEF PlanMade
<1>3. a \in Nat /\ b \in Nat
  BY <1>1, <1>2, ReadRange
<1>4. /\ \A y \in B : y.off \in a..b
      /\ \A y \in B : y.off > a \/ IsBreak(file, y) => y \in AllLines
      /\ \A y \in AllLines :
              y.off \in a..b /\ (x.ok \/ \E q \in B : y.off <= q.off) => y \in B
  BY <1>1, <1>2, LinesRead
<1>5. \A y \in AllLines : y.off \in Nat /\ y.off <= size - 1
  BY <1>2, LinesOfFile
<1>6. PICK p : p = l.off
  OBVIOUS
<1>7. l \in B /\ l \in AllLines /\ p \in a..b
  BY <1>1, <1>4, <1>6
<1>8. ASSUME NEW y \in RecordFrom(file, B, l) PROVE y \in RecordFrom(file, AllLines, l)
  <2>1. CASE y = l
    BY <1>7, <2>1 DEF RecordFrom
  <2>2. CASE y # l
    <3>1. /\ y \in B /\ y.off > p /\ Matches(file, y, IncludeFields)
          /\ \A q \in B : q.off \in (p + 1)..y.off => ~IsBreak(file, q)
      BY <1>6, <2>2 DEF RecordFrom
    <3>2. y.off \in a..b /\ y.off > a
      BY <1>3, <1>4, <1>7, <3>1
    <3>3. y \in AllLines
      BY <1>4, <3>1, <3>2
    <3>4. ASSUME NEW q \in AllLines, q.off \in (p + 1)..y.off PROVE ~IsBreak(file, q)
      <4>1. q.off \in a..b /\ q.off <= y.off
        BY <1>3, <1>7, <3>2, <3>4
      <4>2. q \in B
        BY <1>4, <3>1, <4>1
      <4> QED BY <3>1, <3>4, <4>2
    <3> QED BY <1>6, <3>1, <3>3, <3>4 DEF RecordFrom
  <2> QED BY <2>1, <2>2
<1>9. ASSUME NEW y \in RecordFrom(file, AllLines, l) PROVE y \in RecordFrom(file, B, l)
  <2>1. CASE y = l
    BY <1>7, <2>1 DEF RecordFrom
  <2>2. CASE y # l
    <3>1. /\ y \in AllLines /\ y.off > p /\ Matches(file, y, IncludeFields)
          /\ \A q \in AllLines : q.off \in (p + 1)..y.off => ~IsBreak(file, q)
      BY <1>6, <2>2 DEF RecordFrom
    <3>2. y.off \in Nat /\ y.off <= size - 1
      BY <1>5, <3>1
    <3>3. y \in B
      <4>1. CASE x.ok
        <5>1. y.off <= b
          <6> SUFFICES ASSUME y.off > b PROVE FALSE
            BY <1>3, <3>2
          <6>1. CASE b = size - 1
            BY <1>3, <3>2, <6>1
          <6>2. CASE \E q \in AllLines : q.off = b + 1 /\ IsBreak(file, q)
            <7>1. PICK q \in AllLines : q.off = b + 1 /\ IsBreak(file, q)
              BY <6>2
            <7>2. q.off \in (p + 1)..y.off
              BY <1>3, <1>7, <3>2, <7>1
            <7> QED BY <3>1, <7>1, <7>2
          <6> QED BY <1>1, <6>1, <6>2, ChunkEndsAtBreak
        <5>2. y.off \in a..b
          BY <1>3, <1>7, <3>1, <3>2, <5>1
        <5> QED BY <1>4, <3>1, <4>1, <5>2
      <4>2. CASE \E q \in B : IsBreak(file, q) /\ q.off > p
        <5>1. PICK q \in B : IsBreak(file, q) /\ q.off > p
          BY <4>2
        <5>2. q \in AllLines /\ q.off \in a..b
          BY <1>4, <5>1
        <5>3. y.off < q.off
          <6>1. q.off \notin (p + 1)..y.off
            BY <3>1, <5>1, <5>2
          <6> QED BY <1>3, <1>7, <3>2, <5>1, <5>2, <6>1
        <5>4. y.off \in a..b /\ y.off <= q.off
          BY <1>3, <1>7, <3>1, <3>2, <5>2, <5>3
        <5> QED BY <1>4, <3>1, <5>1, <5>4
      <4> QED BY <1>1, <1>6, <4>1, <4>2
    <3>4. ASSUME NEW q \in B, q.off \in (p + 1)..y.off PROVE ~IsBreak(file, q)
      <4>1. q.off > a
        BY <1>3, <1>7, <3>2, <3>4
      <4>2. q \in AllLines
        BY <1>4, <3>4, <4>1
      <4> QED BY <3>1, <3>4, <4>2
    <3> QED BY <1>6, <3>1, <3>3, <3>4 DEF RecordFrom
  <2> QED BY <2>1, <2>2
<1>10. RecordFrom(file, B, l) = RecordFrom(file, AllLines, l)
  BY <1>8, <1>9
<1> QED BY <1>1, <1>10

LEMMA MultiLineReads ==
  ASSUME PlanMade, input.dataType = "multi-line", NEW c \in Chunks
  PROVE  \/ ReadChunk(jobs[c]).records = {} /\ ~ReadChunk(jobs[c]).ok
         \/ LET x == ReadLines(file, jobs[c].start, jobs[c].end, limit, FALSE) IN
            /\ ReadChunk(jobs[c]).ok = x.ok
            /\ ReadChunk(jobs[c]).records =
                 { RecordFrom(file, x.lines, l) :
                     l \in { y \in x.lines :
                               /\ IsBreak(file, y)
                               /\ x.ok \/ \E q \in x.lines : IsBreak(file, q) /\ q.off > y.off } }
<1>1. PICK j : j = jobs[c]
  OBVIOUS
<1>2. CASE ~Accepted(j)
  BY <1>1, <1>2 DEF ReadChunk, Nothing, Reading
<1>3. CASE Accepted(j)
  <2>1. PICK x : x = ReadLines(file, j.start, j.end, limit, FALSE)
    OBVIOUS
  <2>2. PICK y : y = ReadRecords(file, j.start, j.end, limit)
    OBVIOUS
  <2>3. ReadChunk(j) = Reading(y.ok, j.start, y.records)
    BY <1>3, <2>2 DEF ReadChunk, ReadMultiLine
  <2>4. ReadChunk(j).ok = y.ok /\ ReadChunk(j).records = y.records
    BY <2>3 DEF Reading
  <2>5. y.ok = x.ok
    BY <2>1, <2>2 DEF ReadRecords
  <2>6. y.records = { RecordFrom(file, x.lines, l) :
                        l \in { q \in { r \in x.lines : IsBreak(file, r) } :
                                  \/ x.ok
                                  \/ \E s \in { r \in x.lines : IsBreak(file, r) } : s.off > q.off } }
    BY <2>1, <2>2 DEF ReadRecords
  <2>7. { q \in { r \in x.lines : IsBreak(file, r) } :
             x.ok \/ \E s \in { r \in x.lines : IsBreak(file, r) } : s.off > q.off }
        = { q \in x.lines :
               /\ IsBreak(file, q)
               /\ x.ok \/ \E s \in x.lines : IsBreak(file, s) /\ s.off > q.off }
    OBVIOUS
  <2> QED BY <1>1, <2>1, <2>4, <2>5, <2>6, <2>7
<1> QED BY <1>2, <1>3

-----------------------------------------------------------------------------
(* Elements of an array.  From a place outside strings the scan sees the    *)
(* strings of the file.                                                     *)
LEMMA SamePhase ==
  ASSUME NEW d, NEW a \in Int, NEW i \in Int, NEW k \in Int, a <= i, i <= k,
         ~InString(d, a, i)
  PROVE  InString(d, a, k) <=> InString(d, i, k)
<1> DEFINE Q(x, y) == { n \in x..(y - 1) : d[n] = QUOTE }
<1>1. ASSUME NEW x \in Int, NEW y \in Int
      PROVE  IsFiniteSet(Q(x, y)) /\ Cardinality(Q(x, y)) \in Nat
  <2>1. Q(x, y) \in SUBSET (x..(y - 1)) /\ IsFiniteSet(x..(y - 1))
    BY FS_Interval
  <2>2. IsFiniteSet(Q(x, y))
    BY <2>1, FS_Subset
  <2> QED BY <2>2, FS_CardinalityType
<1>2. Q(a, k) = Q(a, i) \cup Q(i, k) /\ Q(a, i) \cap Q(i, k) = {}
  OBVIOUS
<1>3. /\ InString(d, a, k) <=> Cardinality(Q(a, k)) % 2 = 1
      /\ InString(d, i, k) <=> Cardinality(Q(i, k)) % 2 = 1
      /\ Cardinality(Q(a, i)) % 2 # 1
  BY DEF InString
<1> HIDE DEF Q
<1>4. Cardinality(Q(a, k)) = Cardinality(Q(a, i)) + Cardinality(Q(i, k))
  <2>1. Cardinality(Q(a, k)) =
          Cardinality(Q(a, i)) + Cardinality(Q(i, k)) - Cardinality(Q(a, i) \cap Q(i, k))
    BY <1>1, <1>2, FS_Union
  <2>2. Cardinality(Q(a, i) \cap Q(i, k)) = 0
    BY <1>2, FS_EmptySet
  <2> QED BY <1>1, <2>1, <2>2
<1>5. \A m, n \in Nat : m % 2 # 1 => ((m + n) % 2 = 1 <=> n % 2 = 1)
  OBVIOUS
<1>6. PICK m, n : m = Cardinality(Q(a, i)) /\ n = Cardinality(Q(i, k))
  OBVIOUS
<1>7. m \in Nat /\ n \in Nat
  BY <1>1, <1>6
<1>8. (m + n) % 2 = 1 <=> n % 2 = 1
  BY ONLY <1>3, <1>5, <1>6, <1>7
<1> QED BY ONLY <1>3, <1>4, <1>6, <1>8

(* An element that begins outside strings is complete in what was read or   *)
(* it is not, and then it ends where the file says.                         *)
LEMMA ElementWithin ==
  ASSUME NEW d, NEW i \in Nat, NEW b \in Int, NEW n \in Int, b <= n
  PROVE  /\ Closings(d, i, b) # {} => /\ Closings(d, i, n) # {}
                                      /\ ElementAt(d, i, b) = ElementAt(d, i, n)
         /\ Closings(d, i, n) # {} /\ i + ElementAt(d, i, n).len - 1 <= b
              => Closings(d, i, b) # {}
<1>1. /\ Closings(d, i, b) \subseteq Closings(d, i, n) /\ Closings(d, i, n) \subseteq Nat
      /\ \A k \in Closings(d, i, n) : k \in Closings(d, i, b) <=> k <= b
  BY DEF Closings
<1>2. PICK p, q : p = Min(Closings(d, i, b)) /\ q = Min(Closings(d, i, n))
  OBVIOUS
<1>3. ASSUME Closings(d, i, b) # {} PROVE Closings(d, i, n) # {} /\ p = q
  <2>1. /\ p \in Closings(d, i, b) /\ \A x \in Closings(d, i, b) : p <= x
        /\ q \in Closings(d, i, n) /\ \A x \in Closings(d, i, n) : q <= x
    BY <1>1, <1>2, <1>3, Least
  <2>2. p \in Nat /\ q \in Nat /\ q <= p /\ p <= b
    BY <1>1, <2>1
  <2>3. q \in Closings(d, i, b)
    BY <1>1, <2>1, <2>2
  <2> QED BY <1>3, <1>1, <2>1, <2>2, <2>3
<1>4. ASSUME Closings(d, i, n) # {}, i + ElementAt(d, i, n).len - 1 <= b
      PROVE  Closings(d, i, b) # {}
  <2>1. q \in Closings(d, i, n) /\ q \in Nat
    BY <1>1, <1>2, <1>4, Least
  <2>2. ElementAt(d, i, n).len = q - i + 1
    BY <1>2 DEF ElementAt
  <2>3. q <= b
    BY <1>4, <2>1, <2>2
  <2> QED BY <1>1, <2>1, <2>3
<1> QED BY <1>2, <1>3, <1>4 DEF ElementAt

(* Wherever the read begins, in or out of a string, the alignment finds the *)
(* first complete element, or there is none: then the scan finds none from  *)
(* the start of the read either, whichever strings it takes to be there.    *)
LEMMA AlignedElements ==
  ASSUME NEW d, NEW a \in Nat, NEW b \in Int,
         \A k \in 0..b : d[k] = OPEN => ~InString(d, 0, k)
  PROVE  FindJSONObjectStarts(d, AlignedStart(d, a, b), b) =
           { i \in a..b : d[i] = OPEN /\ Closings(d, i, b) # {} }
<1> DEFINE S == { i \in a..b : d[i] = OPEN /\ Closings(d, i, b) # {} }
<1>1. ASSUME NEW i \in Int PROVE ~InString(d, i, i)
  <2>1. { k \in i..(i - 1) : d[k] = QUOTE } = {}
    OBVIOUS
  <2>2. Cardinality({ k \in i..(i - 1) : d[k] = QUOTE }) = 0
    BY <2>1, FS_EmptySet
  <2> QED BY <2>2 DEF InString
<1>2. { i \in a..b : i \in FindJSONObjectStarts(d, i, b) } = S
  <2>1. ASSUME NEW i \in a..b
        PROVE  i \in FindJSONObjectStarts(d, i, b) <=> d[i] = OPEN /\ Closings(d, i, b) # {}
    <3>1. i \in Int /\ i \in i..b
      OBVIOUS
    <3>2. ~InString(d, i, i)
      BY <1>1, <3>1
    <3> QED BY <3>1, <3>2 DEF FindJSONObjectStarts
  <2> QED BY <2>1
<1>3. PICK s : s = AlignedStart(d, a, b)
  OBVIOUS
<1>4. CASE S = {}
  <2>1. s = a
    BY <1>2, <1>3, <1>4 DEF AlignedStart
  <2> QED BY <1>3, <1>4, <2>1 DEF FindJSONObjectStarts
<1>5. CASE S # {}
  <2>1. s = Min(S)
    BY <1>2, <1>3, <1>5 DEF AlignedStart
  <2>2. S \subseteq Nat
    OBVIOUS
  <2>3. s \in S /\ \A x \in S : s <= x
    BY <1>5, <2>1, <2>2, Least
  <2>4. s \in a..b /\ s \in 0..b /\ d[s] = OPEN /\ s \in Int
    BY <2>3
  <2>5. ~InString(d, 0, s)
    BY <2>4
  <2>6. ASSUME NEW i \in s..b, d[i] = OPEN PROVE ~InString(d, s, i)
    <3>1. i \in 0..b /\ i \in Int /\ 0 <= s /\ s <= i
      BY <2>4
    <3>2. ~InString(d, 0, i)
      BY <2>6, <3>1
    <3> QED BY <2>4, <2>5, <3>1, <3>2, SamePhase
  <2>7. S \subseteq s..b /\ s..b \subseteq a..b
    BY <2>3, <2>4
  <2>8. FindJSONObjectStarts(d, s, b) = S
    BY <2>6, <2>7 DEF FindJSONObjectStarts
  <2> QED BY <1>3, <2>8
<1> QED BY <1>4, <1>5

(* What a pass reads of an array, up to the first element that is too long. *)
LEMMA ArrayReads ==
  ASSUME input \in Inputs, input.dataType = "json", NEW j, IsChunk(j), Accepted(j)
  PROVE  LET starts   == { i \in ReadStart(j)..ReadEnd(j) :
                             file[i] = OPEN /\ Closings(file, i, ReadEnd(j)) # {} }
             elements == { ElementAt(file, i, ReadEnd(j)) : i \in starts }
             tooLong  == { e \in elements : e.off \in j.start..j.end /\ e.len > limit }
         IN /\ ReadChunk(j).ok <=> tooLong = {}
            /\ \A r \in ReadChunk(j).records : \E e \in elements : r = {e}
            /\ tooLong = {} => \A e \in elements : {e} \in ReadChunk(j).records
<1> DEFINE starts   == { i \in ReadStart(j)..ReadEnd(j) :
                           file[i] = OPEN /\ Closings(file, i, ReadEnd(j)) # {} }
           elements == { ElementAt(file, i, ReadEnd(j)) : i \in starts }
           tooLong  == { e \in elements : e.off \in j.start..j.end /\ e.len > limit }
           before   == { e \in elements : \A t \in tooLong : e.off < t.off }
<1>1. \A k \in 0..ReadEnd(j) : file[k] = OPEN => ~InString(file, 0, k)
  <2>1. IsInput(input)
    BY ChunkingConstants
  <2>2. 0..ReadEnd(j) \subseteq DOMAIN file
    BY InputTypes, ReadRange
  <2> QED BY <2>1, <2>2 DEF IsInput, file
<1>2. PICK base : base = AlignedStart(file, ReadStart(j), ReadEnd(j))
  OBVIOUS
<1>3. FindJSONObjectStarts(file, base, ReadEnd(j)) = starts
  <2>1. ReadStart(j) \in Nat /\ ReadEnd(j) \in Int
    BY ReadRange
  <2>2. FindJSONObjectStarts(file, AlignedStart(file, ReadStart(j), ReadEnd(j)), ReadEnd(j))
          = starts
    BY ONLY <1>1, <2>1, AlignedElements DEF starts
  <2> QED BY ONLY <1>2, <2>2
<1>4. ReadChunk(j) = ReadJSONArray(j)
  BY DEF ReadChunk
<1> HIDE DEF starts
<1>5. ReadJSONArray(j) = Reading(tooLong = {}, base, { {e} : e \in before })
  BY <1>2, <1>3 DEF ReadJSONArray
<1> HIDE DEF elements
<1>6. ReadChunk(j).ok = (tooLong = {}) /\ ReadChunk(j).records = { {e} : e \in before }
  BY <1>4, <1>5 DEF Reading
<1>7. /\ ReadChunk(j).ok <=> tooLong = {}
      /\ \A r \in ReadChunk(j).records : \E e \in elements : r = {e}
      /\ tooLong = {} => \A e \in elements : {e} \in ReadChunk(j).records
  BY <1>6
<1> QED BY <1>7 DEF elements, starts

-----------------------------------------------------------------------------
(* The records of the file. *)
LEMMA RecordPlace ==
  ASSUME input \in Inputs, input.dataType # "json", NEW r \in Records
  PROVE  \E l \in AllLines :
           /\ l.off \in 0..(size - 1) /\ StartOf(r) = l.off
           /\ input.dataType = "text" => r = {l}
           /\ input.dataType = "multi-line" => IsBreak(file, l) /\ r = RecordFrom(file, AllLines, l)
<1>1. \A l \in AllLines : l.off \in Nat /\ l.off \in 0..(size - 1)
  BY LinesOfFile
<1>2. CASE input.dataType = "text"
  <2>1. PICK l \in AllLines : r = {l}
    BY <1>2 DEF Records
  <2> QED BY <1>1, <1>2, <2>1, StartOfOne
<1>3. CASE input.dataType = "multi-line"
  <2>1. PICK l \in AllLines : IsBreak(file, l) /\ r = RecordFrom(file, AllLines, l)
    BY <1>3 DEF Records
  <2>2. StartOf(r) = l.off
    BY <1>1, <2>1, StartOfRecord
  <2> QED BY <1>1, <1>3, <2>1, <2>2
<1>4. input.dataType \in {"text", "multi-line"}
  BY InputTypes DEF DataTypes
<1> QED BY <1>2, <1>3, <1>4

LEMMA ElementStart ==
  ASSUME NEW i \in Nat, NEW n
  PROVE  StartOf({ElementAt(file, i, n)}) = i
<1>1. PICK e : e = ElementAt(file, i, n)
  OBVIOUS
<1>2. e.off = i
  BY <1>1 DEF ElementAt
<1> QED BY <1>1, <1>2, StartOfOne

LEMMA ElementPlace ==
  ASSUME input \in Inputs, input.dataType = "json", NEW r
  PROVE  r \in Records <=>
           \E i \in 0..(size - 1) :
             /\ file[i] = OPEN /\ Closings(file, i, size - 1) # {}
             /\ r = {ElementAt(file, i, size - 1)} /\ StartOf(r) = i
<1>1. \A i \in 0..(size - 1) : file[i] = OPEN => ~InString(file, 0, i)
  <2>1. IsInput(input)
    BY ChunkingConstants
  <2> QED BY <2>1, InputTypes DEF IsInput, file
<1>2. \A i \in Nat : StartOf({ElementAt(file, i, size - 1)}) = i
  BY ElementStart
<1>3. r \in Records <=>
        \E i \in FindJSONObjectStarts(file, 0, size - 1) : r = {ElementAt(file, i, size - 1)}
  BY DEF Records
<1>4. FindJSONObjectStarts(file, 0, size - 1) =
        { i \in 0..(size - 1) : file[i] = OPEN /\ Closings(file, i, size - 1) # {} }
  BY <1>1 DEF FindJSONObjectStarts
<1>5. 0..(size - 1) \subseteq Nat
  BY InputTypes
<1> QED BY <1>2, <1>3, <1>4, <1>5

(* The element that a pass reads at i is the file's, and one that is not    *)
(* too long ends before the read does.                                      *)
LEMMA ElementOfFile ==
  ASSUME input \in Inputs, input.dataType = "json", NEW j, IsChunk(j),
         NEW i \in 0..(size - 1)
  PROVE  /\ Closings(file, i, ReadEnd(j)) # {} =>
              /\ Closings(file, i, size - 1) # {}
              /\ ElementAt(file, i, ReadEnd(j)) = ElementAt(file, i, size - 1)
         /\ ( /\ Closings(file, i, size - 1) # {}
              /\ ElementAt(file, i, size - 1).len <= limit /\ i <= j.end )
              => Closings(file, i, ReadEnd(j)) # {}
<1>1. /\ size \in Nat /\ limit \in Nat /\ limit > 0 /\ Overlap = limit
      /\ j.end \in Nat /\ i \in Nat /\ i <= size - 1
      /\ ReadEnd(j) = IF j.end + Overlap <= size - 1 THEN j.end + Overlap ELSE size - 1
  <2>1. Overlap = limit
    BY DEF Overlap
  <2> QED BY <2>1, InputTypes, ReadRange
<1> DEFINE b == ReadEnd(j)
           n == size - 1
<1>2. b = ReadEnd(j) /\ n = size - 1
  OBVIOUS
<1>3. b \in Int /\ n \in Int /\ b <= n
  BY <1>1
<1> HIDE DEF b, n
<1>4. Closings(file, i, b) # {} => /\ Closings(file, i, n) # {}
                                   /\ ElementAt(file, i, b) = ElementAt(file, i, n)
  BY <1>1, <1>3, ElementWithin
<1>5. ASSUME Closings(file, i, n) # {}, ElementAt(file, i, n).len <= limit, i <= j.end
      PROVE  Closings(file, i, b) # {}
  <2>1. PICK q : q = Min(Closings(file, i, n))
    OBVIOUS
  <2>2. Closings(file, i, n) \subseteq Nat /\ \A k \in Closings(file, i, n) : k <= n
    BY <1>1, <1>3 DEF Closings
  <2>3. q \in Nat /\ q <= n
    BY <1>5, <2>1, <2>2, Least
  <2>4. PICK len : len = ElementAt(file, i, n).len
    OBVIOUS
  <2>5. len = q - i + 1
    BY <2>1, <2>4 DEF ElementAt
  <2>6. q - i + 1 <= limit
    BY <1>5, <2>4, <2>5
  <2>7. q <= b
    BY <1>1, <1>2, <1>3, <1>5, <2>3, <2>6
  <2>8. i + ElementAt(file, i, n).len - 1 <= b
    BY <1>1, <1>3, <2>3, <2>4, <2>5, <2>7
  <2> QED BY <1>1, <1>3, <1>5, <2>8, ElementWithin
<1>6. /\ Closings(file, i, b) # {} => /\ Closings(file, i, n) # {}
                                      /\ ElementAt(file, i, b) = ElementAt(file, i, n)
      /\ Closings(file, i, n) # {} /\ ElementAt(file, i, n).len <= limit /\ i <= j.end
           => Closings(file, i, b) # {}
  BY <1>4, <1>5, Zenon
<1> QED BY <1>6 DEF b, n

LEMMA ArrayRecords ==
  ASSUME input \in Inputs, input.dataType = "json", NEW j, IsChunk(j),
         NEW r \in ReadChunk(j).records
  PROVE  r \in Records
<1>1. Accepted(j)
  BY DEF ReadChunk, Nothing, Reading
<1>2. PICK i \in ReadStart(j)..ReadEnd(j) :
        /\ file[i] = OPEN /\ Closings(file, i, ReadEnd(j)) # {}
        /\ r = {ElementAt(file, i, ReadEnd(j))}
  BY <1>1, ArrayReads
<1>3. i \in 0..(size - 1)
  <2>1. /\ ReadStart(j) \in Nat /\ ReadEnd(j) \in Nat /\ ReadEnd(j) <= size - 1
        /\ size \in Nat
    BY InputTypes, ReadRange
  <2> QED BY <1>2, <2>1
<1>4. /\ Closings(file, i, size - 1) # {}
      /\ ElementAt(file, i, ReadEnd(j)) = ElementAt(file, i, size - 1)
  BY <1>2, <1>3, ElementOfFile
<1>5. StartOf({ElementAt(file, i, size - 1)}) = i
  <2>1. i \in Nat
    BY <1>3
  <2> QED BY ONLY <2>1, ElementStart
<1> QED BY <1>2, <1>3, <1>4, <1>5, ElementPlace

LEMMA ArrayComplete ==
  ASSUME input \in Inputs, input.dataType = "json", NEW j, IsChunk(j),
         ReadChunk(j).ok, NEW r \in Records, Fits(r), StartOf(r) \in j.start..j.end
  PROVE  r \in ReadChunk(j).records
<1>1. Accepted(j)
  BY DEF ReadChunk, Nothing, Reading
<1>2. PICK i \in 0..(size - 1) :
        /\ file[i] = OPEN /\ Closings(file, i, size - 1) # {}
        /\ r = {ElementAt(file, i, size - 1)} /\ StartOf(r) = i
  BY ElementPlace
<1>3. ElementAt(file, i, size - 1).len <= limit
  BY <1>2 DEF Fits
<1>4. /\ i \in ReadStart(j)..ReadEnd(j) /\ i <= j.end
  <2>1. /\ ReadStart(j) \in Nat /\ ReadStart(j) <= j.start /\ j.start \in Nat
        /\ j.end \in Nat /\ ReadEnd(j) \in Nat /\ j.end <= ReadEnd(j)
    BY ReadRange
  <2>2. i \in j.start..j.end
    BY <1>2
  <2> QED BY <2>1, <2>2
<1>5. Closings(file, i, ReadEnd(j)) # {}
  BY <1>2, <1>3, <1>4, ElementOfFile
<1>6. ElementAt(file, i, ReadEnd(j)) = ElementAt(file, i, size - 1)
  BY <1>5, ElementOfFile
<1>7. {ElementAt(file, i, ReadEnd(j))} \in ReadChunk(j).records
  BY <1>1, <1>2, <1>4, <1>5, ArrayReads
<1> QED BY <1>2, <1>6, <1>7

LEMMA ReadIsRecord ==
  ASSUME PlanMade, Unambiguous, NEW c \in Chunks,
         NEW r \in ReadChunk(jobs[c]).records
  PROVE  r \in Records
<1>1. input \in Inputs /\ IsChunk(jobs[c])
  BY ChunkShape DEF PlanMade
<1>2. CASE input.dataType = "text"
  BY <1>1, <1>2, TextRecords
<1>3. CASE input.dataType = "multi-line"
  <2>1. PICK x : x = ReadLines(file, jobs[c].start, jobs[c].end, limit, FALSE)
    OBVIOUS
  <2>2. PICK l \in x.lines :
          /\ IsBreak(file, l) /\ r = RecordFrom(file, x.lines, l)
          /\ x.ok \/ \E q \in x.lines : IsBreak(file, q) /\ q.off > l.off
    <3>1. r \in { RecordFrom(file, x.lines, l) :
                     l \in { y \in x.lines :
                               /\ IsBreak(file, y)
                               /\ x.ok \/ \E q \in x.lines : IsBreak(file, q) /\ q.off > y.off } }
      BY <1>3, <2>1, MultiLineReads
    <3> QED BY <3>1
  <2>3. r = RecordFrom(file, AllLines, l)
    BY <1>3, <2>1, <2>2, WholeRecords
  <2>4. l \in AllLines
    BY <1>1, <1>3, <2>1, <2>2, LinesRead
  <2> QED BY <1>3, <2>2, <2>3, <2>4 DEF Records
<1>4. CASE input.dataType = "json"
  BY <1>1, <1>4, ArrayRecords
<1>5. input.dataType \in {"text", "multi-line", "json"}
  BY <1>1, InputTypes DEF DataTypes
<1> QED BY <1>2, <1>3, <1>4, <1>5

LEMMA LinesAreRead ==
  ASSUME PlanMade, input.dataType # "json", Unambiguous, NEW c \in Chunks,
         ReadChunk(jobs[c]).ok, NEW r \in Records, StartOf(r) \in NominalRange(c)
  PROVE  r \in ReadChunk(jobs[c]).records
<1>1. input \in Inputs /\ IsChunk(jobs[c])
  BY ChunkShape DEF PlanMade
<1>2. PICK l \in AllLines :
           /\ l.off \in 0..(size - 1) /\ StartOf(r) = l.off
           /\ input.dataType = "text" => r = {l}
           /\ input.dataType = "multi-line" => IsBreak(file, l) /\ r = RecordFrom(file, AllLines, l)
  BY <1>1, RecordPlace
<1>3. l.off >= jobs[c].start /\ l.off <= jobs[c].end /\ l.off \in jobs[c].start..jobs[c].end
  <2>1. /\ jobs[c].start \in Nat /\ jobs[c].end \in Nat /\ jobs[c].padding \in Nat
        /\ l.off \in jobs[c].start..(jobs[c].end - jobs[c].padding)
    BY <1>1, <1>2, ReadRange DEF NominalRange
  <2> QED BY <2>1
<1>4. CASE input.dataType = "text"
  BY <1>1, <1>2, <1>3, <1>4, TextComplete
<1>5. CASE input.dataType = "multi-line"
  <2>1. PICK x : x = ReadLines(file, jobs[c].start, jobs[c].end, limit, FALSE)
    OBVIOUS
  <2>2. /\ x.ok
        /\ ReadChunk(jobs[c]).records =
             { RecordFrom(file, x.lines, q) :
                 q \in { y \in x.lines :
                           /\ IsBreak(file, y)
                           /\ x.ok \/ \E s \in x.lines : IsBreak(file, s) /\ s.off > y.off } }
    BY <1>5, <2>1, MultiLineReads
  <2>3. l \in x.lines
    <3>1. \A y \in AllLines :
             y.off \in jobs[c].start..jobs[c].end
               /\ (x.ok \/ \E q \in x.lines : y.off <= q.off)
                 => y \in x.lines
      BY <1>1, <1>5, <2>1, LinesRead, Zenon
    <3> QED BY <1>3, <2>2, <3>1
  <2>4. RecordFrom(file, x.lines, l) = r
    <3>1. IsBreak(file, l) /\ r = RecordFrom(file, AllLines, l)
      BY <1>2, <1>5
    <3>0. x.ok
      BY <2>2
    <3>2. x.ok \/ \E q \in x.lines : IsBreak(file, q) /\ q.off > l.off
      BY ONLY <3>0
    <3>3. RecordFrom(file, x.lines, l) = RecordFrom(file, AllLines, l)
      BY <1>5, <2>1, <2>3, <3>1, <3>2, WholeRecords
    <3> QED BY <3>1, <3>3
  <2> QED BY <1>2, <1>5, <2>2, <2>3, <2>4
<1>6. input.dataType \in {"text", "multi-line"}
  BY <1>1, InputTypes DEF DataTypes
<1> QED BY <1>4, <1>5, <1>6

LEMMA RecordIsRead ==
  ASSUME PlanMade, Unambiguous, NEW c \in Chunks, ReadChunk(jobs[c]).ok,
         NEW r \in Records, Fits(r), StartOf(r) \in NominalRange(c)
  PROVE  r \in ReadChunk(jobs[c]).records
<1>1. input \in Inputs /\ IsChunk(jobs[c])
  BY ChunkShape DEF PlanMade
<1>2. CASE input.dataType = "json"
  <2>1. NominalRange(c) \subseteq jobs[c].start..jobs[c].end
    <3>1. jobs[c].start \in Nat /\ jobs[c].end \in Nat /\ jobs[c].padding \in Nat
      BY <1>1, ReadRange
    <3> QED BY <3>1 DEF NominalRange
  <2> QED BY <1>1, <1>2, <2>1, ArrayComplete
<1>3. CASE input.dataType # "json"
  BY <1>3, LinesAreRead
<1> QED BY <1>2, <1>3

(* What an event carries is a whole record of the file: no pass, completed  *)
(* or stopped halfway, sends a fragment or joins two records, wherever its  *)
(* chunk begins and ends.                                                   *)
THEOREM RecordsAreWhole == Spec => []EventsAreRecords
<1>1. PlanMade /\ History => EventsAreRecords
  <2> SUFFICES ASSUME PlanMade, History, Unambiguous, NEW e \in events
               PROVE  e.record \in Records
    BY DEF EventsAreRecords
  <2>1. e.chunk \in Chunks /\ \E r \in ReadChunk(jobs[e.chunk]).records : e.record = r
    BY DEF History, Owned, Sending
  <2> QED BY <2>1, ReadIsRecord
<1> QED BY <1>1, HistoryKept, PTL

(* A record is sent by the completed pass of the chunk it starts in, and by *)
(* that of no other.                                                        *)
THEOREM RecordsAreSentOnce == Spec => []EachRecordOnce
<1>1. PlanMade /\ History => EachRecordOnce
  <2> SUFFICES ASSUME PlanMade, History, Unambiguous, NEW r \in Records, NEW c \in Chunks
               PROVE  LET sent == \E e \in events : e.chunk = c /\ e.record = r IN
                      /\ StartOf(r) \notin NominalRange(c) => ~sent
                      /\ StartOf(r) \in NominalRange(c) /\ Fits(r) /\ pass[c] = "completed"
                           => sent
    BY DEF EachRecordOnce
  <2>1. IsChunk(jobs[c]) /\ input \in Inputs
    BY ChunkShape DEF PlanMade
  <2>2. StartOf(r) \in 0..(size - 1)
    BY <2>1, RecordPlace, ElementPlace
  <2>3. ASSUME NEW e \in events, e.chunk = c, e.record = r PROVE StartOf(r) \in NominalRange(c)
    <3>1. Owns(jobs[c], r)
      BY <2>3 DEF History, Owned, Sending
    <3>2. WholeFile => jobs[c].start = 0 /\ jobs[c].end = size - 1 /\ jobs[c].padding = 0
      <4> SUFFICES ASSUME WholeFile PROVE jobs[c].start = 0 /\ jobs[c].end = size - 1 /\ jobs[c].padding = 0
        OBVIOUS
      <4>1. jobs = [d \in {0} |-> Job(0, size - 1, 0)]
        BY ChunkShape DEF PlanMade, PlannedJobs
      <4>2. c = 0 /\ jobs[0] = Job(0, size - 1, 0)
        BY <4>1 DEF Chunks
      <4> QED BY <4>2, JobFields
    <3>3. CASE WholeFile
      <4>1. NominalRange(c) = 0..((size - 1) - 0) /\ size \in Nat
        BY <2>1, <3>2, <3>3, InputTypes DEF NominalRange
      <4> QED BY <2>2, <4>1
    <3>4. CASE ~WholeFile
      BY <3>1, <3>4 DEF Owns, NominalRange
    <3> QED BY <3>3, <3>4
  <2>4. ASSUME StartOf(r) \in NominalRange(c), Fits(r), pass[c] = "completed"
        PROVE  \E e \in events : e.chunk = c /\ e.record = r
    <3>1. /\ ReadChunk(jobs[c]).ok
          /\ \A q \in Owned(c, ReadChunk(jobs[c])) : Sending(c, q) \in events
      BY <2>4 DEF History
    <3>2. r \in ReadChunk(jobs[c]).records
      BY <2>4, <3>1, RecordIsRead
    <3>3. r \in Owned(c, ReadChunk(jobs[c]))
      BY <2>4, <3>2 DEF Owned, Owns, NominalRange
    <3>4. Sending(c, r) \in events /\ Sending(c, r).chunk = c /\ Sending(c, r).record = r
      BY <3>1, <3>3 DEF Sending
    <3> QED BY <3>4
  <2> QED BY <2>3, <2>4
<1> QED BY <1>1, HistoryKept, PTL
=============================================================================
