-------------------------- MODULE SampledFillsProofs --------------------------
(***************************************************************************)
(* Proofs about SampledFills, for every number of samples, every amount    *)
(* and every source.                                                       *)
(***************************************************************************)
EXTENDS SampledFills, TLAPS

\* The operators the folds repeat.
KeepHere(kept, j) == KeepNonzero(outputs, kept, j)

AddFillHere(z, f) == AddFillSize(Market, z, f)

Kept    == INSTANCE FoldFacts WITH Op <- KeepHere, Base <- <<>>
Size    == INSTANCE FoldFacts WITH Op <- AddFillHere, Base <- EmptySize
In      == INSTANCE FoldFacts WITH Op <- AddInput, Base <- 0
Out     == INSTANCE FoldFacts WITH Op <- AddOutput, Base <- 0
Product == INSTANCE FoldFacts WITH Op <- Times, Base <- 1

Numbers(n) == [j \in 1..n |-> j]

Bases(b, n) == [k \in 1..n |-> b]

LEMMA Folds ==
  /\ NonzeroSamples(Market, 1) = Kept!Fold(Numbers(NumSamples))
  /\ \A s : CreatePath(Market, s).size = Size!Fold(s)
  /\ \A s : TotalInput(s) = In!Fold(s)
  /\ \A s : TotalOutput(s) = Out!Fold(s)
  /\ \A b, n : Power(b, n) = Product!Fold(Bases(b, n))
<1>1. NonzeroSamples(Market, 1) = Kept!Fold(Numbers(NumSamples))
  <2>1. Market.curve[1] = outputs
    BY DEF Market
  <2> QED BY <2>1 DEF NonzeroSamples, KeepHere, Numbers, FoldLeft, MapThenFoldSet, Max,
             Kept!Fold, Kept!FoldLeft, Kept!MapThenFoldSet, Kept!Max
<1>2. \A s : CreatePath(Market, s).size = Size!Fold(s)
  BY DEF CreatePath, AddFillHere, FoldLeft, MapThenFoldSet, Max,
         Size!Fold, Size!FoldLeft, Size!MapThenFoldSet, Size!Max
<1>3. \A s : TotalInput(s) = In!Fold(s)
  BY DEF TotalInput, AddInput, FoldLeft, MapThenFoldSet, Max,
         In!Fold, In!FoldLeft, In!MapThenFoldSet, In!Max
<1>4. \A s : TotalOutput(s) = Out!Fold(s)
  BY DEF TotalOutput, AddOutput, FoldLeft, MapThenFoldSet, Max,
         Out!Fold, Out!FoldLeft, Out!MapThenFoldSet, Out!Max
<1>5. \A b, n : Power(b, n) = Product!Fold(Bases(b, n))
  BY DEF Power, Bases, FoldLeft, MapThenFoldSet, Max,
         Product!Fold, Product!FoldLeft, Product!MapThenFoldSet, Product!Max
<1> QED BY <1>1, <1>2, <1>3, <1>4, <1>5

-----------------------------------------------------------------------------
(* The amounts that are sampled *)

LEMMA PositiveProduct ==
  ASSUME NEW a \in Nat \ {0}, NEW b \in Nat \ {0}
  PROVE  a * b \in Nat \ {0}
OBVIOUS

LEMMA PowerFacts ==
  ASSUME NEW b \in Nat \ {0}
  PROVE  /\ Power(b, 0) = 1
         /\ \A n \in Nat : Power(b, n + 1) = Power(b, n) * b
         /\ \A n \in Nat : Power(b, n) \in Nat \ {0}
<1>1. Power(b, 0) = 1
  <2>1. Bases(b, 0) = <<>>
    BY DEF Bases
  <2> QED BY <2>1, Folds, Product!FoldEmpty
<1>2. ASSUME NEW n \in Nat PROVE Power(b, n + 1) = Power(b, n) * b
  <2>1. Bases(b, n) \in Seq(Nat) /\ Bases(b, n + 1) = Append(Bases(b, n), b)
    BY DEF Bases
  <2>2. Product!Fold(Append(Bases(b, n), b)) = Times(Product!Fold(Bases(b, n)), b)
    BY <2>1, Product!FoldAppend
  <2> QED BY <2>1, <2>2, Folds DEF Times
<1> DEFINE T == {n \in Nat : Power(b, n) \in Nat \ {0}}
<1>3. 0 \in T
  BY <1>1
<1>4. \A n \in Nat : n \in T => n + 1 \in T
  <2> SUFFICES ASSUME NEW n \in Nat, n \in T PROVE n + 1 \in T
    OBVIOUS
  <2>1. Power(b, n) * b \in Nat \ {0}
    BY PositiveProduct
  <2> QED BY <1>2, <2>1
<1>5. \A n \in Nat : n \in T
  <2> HIDE DEF T
  <2> QED BY <1>3, <1>4, Product!NatSetInduction
<1> QED BY <1>1, <1>2, <1>5

\* What holds between neighbours of a range holds between any two.
LEMMA StepsIncrease ==
  ASSUME NEW n \in Nat, NEW f, \A j \in 1..n : f[j] \in Int,
         \A j \in 1..(n - 1) : f[j] < f[j + 1]
  PROVE  \A j, k \in 1..n : j < k => f[j] < f[k]
<1> DEFINE T == {d \in Nat : \A j, k \in 1..n : k = j + d + 1 => f[j] < f[k]}
<1>1. 0 \in T
  OBVIOUS
<1>2. \A d \in Nat : d \in T => d + 1 \in T
  <2> SUFFICES ASSUME NEW d \in Nat, d \in T, NEW j \in 1..n, NEW k \in 1..n,
                      k = j + (d + 1) + 1
               PROVE  f[j] < f[k]
    OBVIOUS
  <2> DEFINE l == k - 1
  <2>1. l \in 1..n /\ l \in 1..(n - 1) /\ l = j + d + 1 /\ l + 1 = k
    OBVIOUS
  <2> HIDE DEF l
  <2>2. f[j] < f[l] /\ f[l] < f[k]
    BY <2>1
  <2>3. f[j] \in Int /\ f[l] \in Int /\ f[k] \in Int
    BY <2>1
  <2> QED BY <2>2, <2>3
<1>3. \A d \in Nat : d \in T
  <2> HIDE DEF T
  <2> QED BY <1>1, <1>2, Product!NatSetInduction
<1> SUFFICES ASSUME NEW j \in 1..n, NEW k \in 1..n, j < k PROVE f[j] < f[k]
  OBVIOUS
<1>4. (k - j) - 1 \in Nat /\ k = j + ((k - j) - 1) + 1
  OBVIOUS
<1>5. (k - j) - 1 \in T
  <2> HIDE DEF T
  <2> QED BY <1>3, <1>4
<1> QED BY <1>4, <1>5

\* One step of the distribution more weighs more.
LEMMA WeightsIncrease ==
  /\ \A j \in Samples : CumulativeWeight[j] \in Nat \ {0}
  /\ \A j, k \in Samples : j < k => CumulativeWeight[j] < CumulativeWeight[k]
<1>0. /\ NumSamples \in Nat \ {0}
      /\ \A j \in Samples : CumulativeWeight[j] =
           Power(4, NumSamples - j) * (Power(5, j) - Power(4, j))
  BY NumSamplesAssumption DEF CumulativeWeight, Samples
<1>1. ASSUME NEW j \in Samples PROVE CumulativeWeight[j] \in Int
  <2>1. NumSamples - j \in Nat /\ j \in Nat
    BY <1>0 DEF Samples
  <2>2. Power(4, NumSamples - j) \in Nat /\ Power(5, j) \in Nat /\ Power(4, j) \in Nat
    BY <2>1, PowerFacts
  <2> QED BY <1>0, <2>2
<1>2. ASSUME NEW j \in 1..(NumSamples - 1)
      PROVE  CumulativeWeight[j] < CumulativeWeight[j + 1]
  <2> DEFINE a == Power(4, NumSamples - (j + 1))
             f == Power(5, j)
             g == Power(4, j)
  <2>1. /\ j \in Samples /\ j + 1 \in Samples /\ j \in Nat
        /\ NumSamples - (j + 1) \in Nat /\ NumSamples - j = (NumSamples - (j + 1)) + 1
    BY <1>0 DEF Samples
  <2>2. a \in Nat \ {0} /\ f \in Nat \ {0} /\ g \in Nat \ {0}
    BY <2>1, PowerFacts
  <2>3. /\ Power(4, NumSamples - j) = a * 4
        /\ Power(5, j + 1) = f * 5 /\ Power(4, j + 1) = g * 4
    BY <2>1, PowerFacts
  <2>4. /\ CumulativeWeight[j] = (a * 4) * (f - g)
        /\ CumulativeWeight[j + 1] = a * (f * 5 - g * 4)
    BY <1>0, <2>1, <2>3
  <2> HIDE DEF a, f, g
  <2>5. a * (f * 5 - g * 4) = (a * 4) * (f - g) + a * f
    BY <2>2
  <2>6. a * f \in Nat \ {0} /\ (a * 4) * (f - g) \in Int
    BY <2>2, PositiveProduct
  <2> QED BY <2>4, <2>5, <2>6
<1>3. \A j, k \in 1..NumSamples : j < k => CumulativeWeight[j] < CumulativeWeight[k]
  BY <1>0, <1>1, <1>2, StepsIncrease DEF Samples
<1>4. CumulativeWeight[1] \in Nat \ {0}
  <2>1. 1 \in Samples /\ NumSamples - 1 \in Nat /\ 1 = 0 + 1
    BY <1>0 DEF Samples
  <2>2. Power(5, 0) = 1 /\ Power(4, 0) = 1
    BY PowerFacts
  <2>3. Power(5, 0 + 1) = Power(5, 0) * 5 /\ Power(4, 0 + 1) = Power(4, 0) * 4
    BY PowerFacts
  <2>4. Power(5, 1) = 5 /\ Power(4, 1) = 4
    BY <2>2, <2>3
  <2>5. Power(4, NumSamples - 1) \in Nat \ {0}
    BY <2>1, PowerFacts
  <2> QED BY <1>0, <2>1, <2>4, <2>5
<1>5. ASSUME NEW j \in Samples PROVE CumulativeWeight[j] \in Nat \ {0}
  <2>1. CASE j = 1
    BY <1>4, <2>1
  <2>2. CASE j # 1
    <3>1. 1 \in 1..NumSamples /\ 1 < j /\ j \in 1..NumSamples
      BY <1>0, <2>2 DEF Samples
    <3>2. CumulativeWeight[1] < CumulativeWeight[j]
      BY <1>3, <3>1
    <3> QED BY <1>1, <1>4, <3>2
  <2> QED BY <2>1, <2>2
<1> QED BY <1>3, <1>5 DEF Samples

LEMMA DivisionFacts ==
  ASSUME NEW x \in Nat, NEW d \in Nat \ {0}
  PROVE  /\ x \div d \in Nat
         /\ (x \div d) * d <= x /\ x < (x \div d) * d + d
OBVIOUS

\* A quotient is below what the dividend is below, times the divisor.
LEMMA DivisionBelow ==
  ASSUME NEW x \in Nat, NEW y \in Nat, NEW d \in Nat \ {0}, x < y * d
  PROVE  x \div d < y
<1> DEFINE q == x \div d
<1>1. q \in Nat /\ q * d <= x
  BY DivisionFacts
<1> HIDE DEF q
<1>2. q * d < y * d /\ q * d \in Int /\ y * d \in Int
  BY <1>1
<1>3. q < y
  BY <1>1, <1>2
<1> QED BY <1>3 DEF q

LEMMA DivisionMonotonic ==
  ASSUME NEW x \in Nat, NEW y \in Nat, NEW d \in Nat \ {0}, x <= y
  PROVE  x \div d <= y \div d
<1> DEFINE q == y \div d
<1>1. q \in Nat /\ y < q * d + d
  BY DivisionFacts
<1>2. x \div d \in Nat
  BY DivisionFacts
<1> HIDE DEF q
<1>3. x < (q + 1) * d
  BY <1>1
<1>4. x \div d < q + 1
  BY <1>1, <1>3, DivisionBelow
<1> QED BY <1>1, <1>2, <1>4 DEF q

\* The samples do not decrease, and only the last is the whole amount.
LEMMA SampleAmountFacts ==
  ASSUME NEW a \in Nat \ {0}
  PROVE  /\ SampleAmount(a, NumSamples) = a
         /\ \A j \in Samples : SampleAmount(a, j) \in Nat /\ SampleAmount(a, j) <= a
         /\ \A j \in Samples : j # NumSamples => SampleAmount(a, j) < a
         /\ \A j, k \in Samples : j < k => SampleAmount(a, j) <= SampleAmount(a, k)
<1> DEFINE w(j) == CumulativeWeight[j]
           d == CumulativeWeight[NumSamples]
<1>0. NumSamples \in Samples /\ NumSamples \in Nat
  BY NumSamplesAssumption DEF Samples
<1>1. d \in Nat \ {0} /\ \A j \in Samples : w(j) \in Nat \ {0}
  BY <1>0, WeightsIncrease
<1>2. SampleAmount(a, NumSamples) = a
  BY DEF SampleAmount
<1>3. ASSUME NEW j \in Samples, j # NumSamples
      PROVE  /\ SampleAmount(a, j) = (a * w(j)) \div d /\ a * w(j) \in Nat
             /\ SampleAmount(a, j) \in Nat /\ SampleAmount(a, j) < a
  <2>1. w(j) < d
    <3>1. j < NumSamples
      BY <1>0, <1>3 DEF Samples
    <3> QED BY <1>0, <3>1, WeightsIncrease
  <2>2. SampleAmount(a, j) = (a * w(j)) \div d
    BY <1>3 DEF SampleAmount
  <2> HIDE DEF w, d
  <2>3. a * w(j) \in Nat /\ a * w(j) < a * d
    BY <1>1, <2>1
  <2>4. (a * w(j)) \div d < a /\ (a * w(j)) \div d \in Nat
    BY <1>1, <2>3, DivisionBelow, DivisionFacts
  <2> QED BY <2>2, <2>3, <2>4
<1>4. ASSUME NEW j \in Samples, NEW k \in Samples, j < k
      PROVE  SampleAmount(a, j) <= SampleAmount(a, k)
  <2>1. j # NumSamples
    BY <1>4 DEF Samples
  <2>2. CASE k = NumSamples
    BY <1>2, <1>3, <2>1, <2>2
  <2>3. CASE k # NumSamples
    <3>1. w(j) < w(k)
      BY <1>4, WeightsIncrease
    <3>2. /\ SampleAmount(a, j) = (a * w(j)) \div d /\ a * w(j) \in Nat
          /\ SampleAmount(a, k) = (a * w(k)) \div d /\ a * w(k) \in Nat
      BY <1>3, <2>1, <2>3
    <3> HIDE DEF w, d
    <3>3. a * w(j) <= a * w(k)
      BY <1>1, <3>1
    <3>4. (a * w(j)) \div d <= (a * w(k)) \div d
      BY <1>1, <3>2, <3>3, DivisionMonotonic
    <3> QED BY <3>2, <3>4
  <2> QED BY <2>2, <2>3
<1>5. ASSUME NEW j \in Samples PROVE SampleAmount(a, j) \in Nat /\ SampleAmount(a, j) <= a
  BY <1>2, <1>3
<1> QED BY <1>2, <1>3, <1>4, <1>5

-----------------------------------------------------------------------------
(* The fills of a source *)

\* The samples that are kept are those that were answered, in order.
IsKeptOf(kept, n) ==
  /\ kept \in Seq(1..n)
  /\ \A k, l \in 1..Len(kept) : k < l => kept[k] < kept[l]
  /\ \A j \in 1..n : outputs[j] > 0 <=> \E k \in 1..Len(kept) : kept[k] = j

LEMMA KeptOne ==
  ASSUME NEW n \in Nat, NEW kept, IsKeptOf(kept, n), outputs[n + 1] \in Nat
  PROVE  IsKeptOf(KeepHere(kept, n + 1), n + 1)
<1>1. CASE ~(outputs[n + 1] > 0)
  <2>1. KeepHere(kept, n + 1) = kept
    BY <1>1 DEF KeepHere, KeepNonzero
  <2>2. kept \in Seq(1..(n + 1)) /\ \A k \in 1..Len(kept) : kept[k] \in 1..n
    BY DEF IsKeptOf
  <2>3. ASSUME NEW j \in 1..(n + 1)
        PROVE  outputs[j] > 0 <=> \E k \in 1..Len(kept) : kept[k] = j
    <3>1. CASE j = n + 1
      <4>1. \A k \in 1..Len(kept) : kept[k] # n + 1
        BY <2>2
      <4> QED BY <1>1, <3>1, <4>1
    <3>2. CASE j # n + 1
      BY <3>2 DEF IsKeptOf
    <3> QED BY <3>1, <3>2
  <2> QED BY <2>1, <2>2, <2>3 DEF IsKeptOf
<1>2. CASE outputs[n + 1] > 0
  <2> DEFINE c == Len(kept)
             longer == Append(kept, n + 1)
  <2>1. KeepHere(kept, n + 1) = longer
    BY <1>2 DEF KeepHere, KeepNonzero
  <2>2. /\ c \in Nat /\ kept \in Seq(1..(n + 1)) /\ \A k \in 1..c : kept[k] \in 1..n
        /\ \A k, l \in 1..c : k < l => kept[k] < kept[l]
    BY DEF IsKeptOf
  <2>3. /\ longer \in Seq(1..(n + 1)) /\ Len(longer) = c + 1 /\ longer[c + 1] = n + 1
        /\ \A k \in 1..c : longer[k] = kept[k]
    BY <2>2
  <2> HIDE DEF longer, c
  <2>4. ASSUME NEW k \in 1..(c + 1), NEW l \in 1..(c + 1), k < l
        PROVE  longer[k] < longer[l]
    <3>1. k \in 1..c /\ longer[k] = kept[k] /\ kept[k] \in 1..n
      BY <2>2, <2>3, <2>4
    <3>2. CASE l = c + 1
      BY <2>3, <3>1, <3>2
    <3>3. CASE l # c + 1
      <4>1. l \in 1..c
        BY <2>2, <3>3
      <4> QED BY <2>2, <2>3, <2>4, <3>1, <4>1
    <3> QED BY <3>2, <3>3
  <2>5. ASSUME NEW j \in 1..(n + 1)
        PROVE  outputs[j] > 0 <=> \E k \in 1..(c + 1) : longer[k] = j
    <3>1. CASE j = n + 1
      <4>1. c + 1 \in 1..(c + 1)
        BY <2>2
      <4> QED BY <1>2, <2>3, <3>1, <4>1
    <3>2. CASE j # n + 1
      <4>1. outputs[j] > 0 <=> \E k \in 1..c : kept[k] = j
        BY <3>2 DEF IsKeptOf, c
      <4>2. \A k \in 1..(c + 1) : k # c + 1 => k \in 1..c
        BY <2>2
      <4>3. \A k \in 1..c : k \in 1..(c + 1)
        BY <2>2
      <4> QED BY <2>3, <3>2, <4>1, <4>2, <4>3
    <3> QED BY <3>1, <3>2
  <2> QED BY <2>1, <2>3, <2>4, <2>5 DEF IsKeptOf
<1> QED BY <1>1, <1>2

LEMMA KeptFacts ==
  ASSUME outputs \in [Samples -> Nat]
  PROVE  IsKeptOf(NonzeroSamples(Market, 1), NumSamples)
<1> DEFINE T == {n \in Nat : n <= NumSamples => IsKeptOf(Kept!Fold(Numbers(n)), n)}
<1>0. NumSamples \in Nat
  BY NumSamplesAssumption
<1>1. 0 \in T
  <2>1. Numbers(0) = <<>>
    BY DEF Numbers
  <2>2. Kept!Fold(Numbers(0)) = <<>>
    BY <2>1, Kept!FoldEmpty
  <2>3. IsKeptOf(<<>>, 0)
    BY DEF IsKeptOf
  <2> QED BY <2>2, <2>3
<1>2. \A n \in Nat : n \in T => n + 1 \in T
  <2> SUFFICES ASSUME NEW n \in Nat, n \in T, n + 1 <= NumSamples
               PROVE  IsKeptOf(Kept!Fold(Numbers(n + 1)), n + 1)
    OBVIOUS
  <2>1. Numbers(n) \in Seq(Nat) /\ Numbers(n + 1) = Append(Numbers(n), n + 1)
    BY DEF Numbers
  <2>2. Kept!Fold(Append(Numbers(n), n + 1)) = KeepHere(Kept!Fold(Numbers(n)), n + 1)
    BY <2>1, Kept!FoldAppend
  <2>3. IsKeptOf(Kept!Fold(Numbers(n)), n) /\ outputs[n + 1] \in Nat
    BY <1>0 DEF Samples
  <2>4. IsKeptOf(KeepHere(Kept!Fold(Numbers(n)), n + 1), n + 1)
    BY <2>3, KeptOne
  <2> QED BY <2>1, <2>2, <2>4
<1>3. NumSamples \in T
  <2> HIDE DEF T
  <2> QED BY <1>0, <1>1, <1>2, Kept!NatSetInduction
<1> QED BY <1>0, <1>3, Folds

\* What the first k fills of the source take and return.
InputUpTo(k) == IF k = 0 THEN 0 ELSE SampleAmount(amount, NonzeroSamples(Market, 1)[k])

OutputUpTo(k) == IF k = 0 THEN 0 ELSE outputs[NonzeroSamples(Market, 1)[k]]

LEMMA UpToFacts ==
  ASSUME outputs \in [Samples -> Nat], amount \in Nat \ {0}
  PROVE  LET n == Len(NonzeroSamples(Market, 1))
         IN  /\ n \in Nat
             /\ \A k \in 0..n : /\ InputUpTo(k) \in Nat /\ OutputUpTo(k) \in Nat
                                /\ InputUpTo(k) <= amount
                                /\ k < n => InputUpTo(k) < amount
             /\ \A k \in 1..n : InputUpTo(k - 1) <= InputUpTo(k)
             /\ InputUpTo(n) = amount <=> outputs[NumSamples] > 0
<1> DEFINE kept == NonzeroSamples(Market, 1)
           n == Len(kept)
<1>1. /\ NumSamples \in Nat \ {0} /\ NumSamples \in Samples
      /\ n \in Nat /\ \A k \in 1..n : kept[k] \in Samples
      /\ \A k, l \in 1..n : k < l => kept[k] < kept[l]
      /\ outputs[NumSamples] > 0 <=> \E k \in 1..n : kept[k] = NumSamples
  <2>1. NumSamples \in Nat \ {0} /\ NumSamples \in Samples
    BY NumSamplesAssumption DEF Samples
  <2>2. IsKeptOf(kept, NumSamples)
    BY KeptFacts
  <2> HIDE DEF kept
  <2>3. n \in Nat /\ \A k \in 1..n : kept[k] \in Samples
    BY <2>1, <2>2 DEF IsKeptOf, Samples
  <2>4. \A k, l \in 1..n : k < l => kept[k] < kept[l]
    BY <2>2 DEF IsKeptOf
  <2>5. \A j \in Samples : outputs[j] > 0 <=> \E k \in 1..n : kept[k] = j
    BY <2>2 DEF IsKeptOf, Samples
  <2> HIDE DEF n
  <2>6. outputs[NumSamples] > 0 <=> \E k \in 1..n : kept[k] = NumSamples
    BY <2>1, <2>5
  <2> QED BY <2>1, <2>3, <2>4, <2>6
<1>2. /\ InputUpTo(0) = 0 /\ OutputUpTo(0) = 0
      /\ \A k \in 1..n : /\ InputUpTo(k) = SampleAmount(amount, kept[k])
                         /\ OutputUpTo(k) = outputs[kept[k]]
  BY DEF InputUpTo, OutputUpTo
<1> HIDE DEF kept, n
<1>3. ASSUME NEW k \in 0..n
      PROVE  /\ InputUpTo(k) \in Nat /\ OutputUpTo(k) \in Nat /\ InputUpTo(k) <= amount
             /\ k < n => InputUpTo(k) < amount
  <2>1. CASE k = 0
    BY <1>2, <2>1
  <2>2. CASE k # 0
    <3>1. k \in 1..n /\ kept[k] \in Samples
      BY <1>1, <2>2
    <3>2. k < n => kept[k] # NumSamples
      <4> SUFFICES ASSUME k < n PROVE kept[k] # NumSamples
        OBVIOUS
      <4>1. k + 1 \in 1..n /\ k < k + 1
        BY <1>1, <3>1
      <4>2. kept[k] < kept[k + 1] /\ kept[k + 1] \in Samples
        BY <1>1, <3>1, <4>1
      <4> QED BY <1>1, <3>1, <4>2 DEF Samples
    <3> QED BY <1>2, <3>1, <3>2, SampleAmountFacts
  <2> QED BY <2>1, <2>2
<1>4. ASSUME NEW k \in 1..n PROVE InputUpTo(k - 1) <= InputUpTo(k)
  <2>1. CASE k = 1
    <3>1. k - 1 = 0 /\ k \in 0..n
      BY <1>1, <2>1
    <3>2. InputUpTo(k) \in Nat
      BY <1>3, <3>1
    <3> QED BY <1>2, <3>1, <3>2
  <2>2. CASE k # 1
    <3> DEFINE l == k - 1
    <3>1. l \in 1..n /\ l < k
      BY <1>1, <2>2
    <3> HIDE DEF l
    <3>2. kept[l] < kept[k] /\ kept[l] \in Samples /\ kept[k] \in Samples
      BY <1>1, <3>1
    <3>3. InputUpTo(l) <= InputUpTo(k)
      BY <1>2, <3>1, <3>2, SampleAmountFacts
    <3> QED BY <3>3 DEF l
  <2> QED BY <2>1, <2>2
<1>5. InputUpTo(n) = amount <=> outputs[NumSamples] > 0
  <2>1. CASE n = 0
    BY <1>1, <1>2, <2>1
  <2>2. CASE n # 0
    <3>1. n \in 1..n /\ kept[n] \in Samples
      BY <1>1, <2>2
    <3>2. InputUpTo(n) = amount <=> kept[n] = NumSamples
      BY <1>2, <3>1, SampleAmountFacts
    <3>3. ASSUME NEW k \in 1..n, kept[k] = NumSamples PROVE k = n
      <4>1. ~(k < n)
        BY <1>1, <3>1, <3>3 DEF Samples
      <4> QED BY <1>1, <4>1
    <3> QED BY <1>1, <3>1, <3>2, <3>3
  <2> QED BY <2>1, <2>2
<1> QED BY <1>1, <1>3, <1>4, <1>5 DEF n, kept

\* The k-th fill of the source.
FillAt(k) ==
  [id |-> 1, index |-> k - 1, input |-> InputUpTo(k) - InputUpTo(k - 1),
   output |-> OutputUpTo(k) - OutputUpTo(k - 1),
   adjusted |-> OutputUpTo(k) - OutputUpTo(k - 1)]

SampledFill == [id : {1}, index : Nat, input : Nat, output : Int, adjusted : Int]

\* The conversion does not throw: the output token has a price, or a division gives one.
Priced == outPerEth \in {0, 1} /\ ~ConversionThrows(Market, 1)

\* No fill is clipped: the amount is reached with the last sample only.
LEMMA FillsFacts ==
  ASSUME outputs \in [Samples -> Nat], amount \in Nat \ {0}, Priced
  PROVE  LET n == Len(NonzeroSamples(Market, 1))
             s == DexSamplesToFills(Market, 1)
         IN  s \in Seq(SampledFill) /\ Len(s) = n /\ \A k \in 1..n : s[k] = FillAt(k)
<1> DEFINE kept == NonzeroSamples(Market, 1)
           n == Len(kept)
           all == MarginalFills(Market, 1)
<1>1. /\ n \in Nat
      /\ \A k \in 0..n : /\ InputUpTo(k) \in Nat /\ OutputUpTo(k) \in Nat
                         /\ k < n => InputUpTo(k) < amount
      /\ \A k \in 1..n : InputUpTo(k - 1) <= InputUpTo(k)
  BY UpToFacts
<1>2. Market.amount = amount /\ Market.gas[1] = 0 /\ Market.curve[1] = outputs
      /\ Market.outPerEth = outPerEth /\ Market.inPerEth = 0
  BY DEF Market
<1>3. ASSUME NEW k \in 1..n PROVE FillAt(k) \in SampledFill
  <2> DEFINE l == k - 1
  <2> HIDE DEF n
  <2>1. k \in 0..n /\ l \in 0..n /\ l \in Nat /\ InputUpTo(l) <= InputUpTo(k)
    BY <1>1
  <2> HIDE DEF l
  <2>2. InputUpTo(k) - InputUpTo(l) \in Nat /\ OutputUpTo(k) - OutputUpTo(l) \in Int
    BY <1>1, <2>1
  <2> USE DEF l
  <2> QED BY <2>1, <2>2 DEF FillAt, SampledFill
<1>4. all = [k \in 1..n |-> FillAt(k)]
  <2> DEFINE marginal(k) ==
        LET input  == InputUpTo(k) - InputUpTo(k - 1)
            output == OutputUpTo(k) - OutputUpTo(k - 1)
        IN  [id |-> 1, index |-> k - 1, input |-> input, output |-> output,
             adjusted |-> IF k = 1
                          THEN Penalised(Market, output, GasPenalty(Market, Market.gas[1], input, output))
                          ELSE output]
  <2>1. all = [k \in 1..n |-> marginal(k)]
    BY <1>2 DEF MarginalFills, InputUpTo, OutputUpTo
  <2>2. ASSUME 1 \in 1..n, outPerEth = 0
        PROVE  InputUpTo(1) - InputUpTo(0) \in Nat \ {0}
    <3>1. kept # <<>> /\ InputUpTo(1) = SampleAmount(amount, kept[1]) /\ InputUpTo(0) = 0
      BY <2>2 DEF InputUpTo
    <3>2. InputUpTo(1) # 0
      BY <1>2, <2>2, <3>1 DEF Priced, ConversionThrows
    <3>3. InputUpTo(1) \in Nat
      BY <1>1, <2>2
    <3> QED BY <3>1, <3>2, <3>3
  <2>3. ASSUME NEW k \in 1..n PROVE marginal(k) = FillAt(k)
    <3> DEFINE input  == InputUpTo(k) - InputUpTo(k - 1)
               output == OutputUpTo(k) - OutputUpTo(k - 1)
    <3>1. output \in Int
      <4> DEFINE l == k - 1
      <4> HIDE DEF n
      <4>1. k \in 0..n /\ l \in 0..n
        BY <1>1
      <4> HIDE DEF l
      <4>2. OutputUpTo(k) - OutputUpTo(l) \in Int
        BY <1>1, <4>1
      <4> QED BY <4>2 DEF l
    <3>2. k = 1 /\ outPerEth = 0 => input \in Nat \ {0}
      BY <2>2
    <3> HIDE DEF input, output
    <3>3. ASSUME k = 1 PROVE GasPenalty(Market, Market.gas[1], input, output) = 0
      <4>1. CASE outPerEth = 0
        <5>1. Truncate(output, input) \in Int
          BY <3>1, <3>2, <3>3, <4>1 DEF Truncate
        <5> QED BY <1>2, <4>1, <5>1 DEF GasPenalty
      <4>2. CASE outPerEth = 1
        BY <1>2, <4>2 DEF GasPenalty
      <4> QED BY <4>1, <4>2 DEF Priced
    <3>4. Penalised(Market, output, 0) = output
      BY <3>1 DEF Penalised
    <3> QED BY <3>3, <3>4 DEF FillAt, input, output
  <2> HIDE DEF marginal, n, all
  <2> QED BY <2>1, <2>3
<1> DEFINE reached(k) == (IF k = 0 THEN 0 ELSE SampleAmount(amount, kept[k])) >= amount
           isLast(k) == (k = n \/ reached(k)) /\ \A j \in 0..(k - 1) : ~reached(j)
           last == CHOOSE k \in 0..n : isLast(k)
<1>5. last = n
  <2>1. ASSUME NEW j \in 0..n, j < n PROVE ~reached(j)
    <3>1. CASE j = 0
      BY <3>1
    <3>2. CASE j # 0
      <4>1. InputUpTo(j) = SampleAmount(amount, kept[j])
        BY <3>2 DEF InputUpTo
      <4>2. InputUpTo(j) \in Nat /\ InputUpTo(j) < amount
        BY <1>1, <2>1
      <4> QED BY <4>1, <4>2
    <3> QED BY <3>1, <3>2
  <2> HIDE DEF n, reached
  <2>2. n \in 0..n /\ isLast(n)
    <3>1. \A j \in 0..(n - 1) : j \in 0..n /\ j < n
      BY <1>1
    <3> QED BY <1>1, <2>1, <3>1
  <2>3. \A k \in 0..n : isLast(k) => k = n
    BY <1>1, <2>1
  <2> QED BY <2>2, <2>3
<1>6. DexSamplesToFills(Market, 1) = SubSeq(all, 1, last)
  BY <1>2 DEF DexSamplesToFills
<1> HIDE DEF kept, last
<1>7. all \in Seq(SampledFill) /\ Len(all) = n /\ \A k \in 1..n : all[k] = FillAt(k)
  <2> HIDE DEF n, all
  <2> QED BY <1>1, <1>3, <1>4
<1>8. SubSeq(all, 1, n) = all
  <2> HIDE DEF n, all
  <2> QED BY <1>1, <1>7
<1> QED BY <1>5, <1>6, <1>7, <1>8 DEF kept

\* The sums of the first fills, and the size of the path they make.
LEMMA PrefixSums ==
  ASSUME outputs \in [Samples -> Nat], amount \in Nat \ {0}, Priced
  PROVE  LET n == Len(NonzeroSamples(Market, 1))
             s == DexSamplesToFills(Market, 1)
         IN  /\ TotalInput(s) = InputUpTo(n) /\ TotalOutput(s) = OutputUpTo(n)
             /\ CreatePath(Market, s).size.input = InputUpTo(n)
             /\ \A k \in 1..n : /\ TotalInput(SubSeq(s, 1, k)) = InputUpTo(k)
                               /\ TotalOutput(SubSeq(s, 1, k)) = OutputUpTo(k)
<1> DEFINE n == Len(NonzeroSamples(Market, 1))
           s == DexSamplesToFills(Market, 1)
           upTo(k) == SubSeq(s, 1, k)
           T == {k \in Nat : k <= n =>
                   /\ TotalInput(upTo(k)) = InputUpTo(k)
                   /\ TotalOutput(upTo(k)) = OutputUpTo(k)
                   /\ CreatePath(Market, upTo(k)).size.input = InputUpTo(k)}
<1>1. s \in Seq(SampledFill) /\ Len(s) = n /\ \A k \in 1..n : s[k] = FillAt(k)
  BY FillsFacts
<1>2. /\ n \in Nat
      /\ \A k \in 0..n : InputUpTo(k) \in Nat /\ OutputUpTo(k) \in Nat /\ InputUpTo(k) <= amount
      /\ \A k \in 1..n : InputUpTo(k - 1) <= InputUpTo(k)
  BY UpToFacts
<1>3. Market.amount = amount
  BY DEF Market
<1> HIDE DEF n, s
<1>4. 0 \in T
  <2>1. upTo(0) = <<>>
    BY <1>1
  <2>2. InputUpTo(0) = 0 /\ OutputUpTo(0) = 0
    BY DEF InputUpTo, OutputUpTo
  <2>3. TotalInput(<<>>) = 0 /\ TotalOutput(<<>>) = 0
    BY Folds, In!FoldEmpty, Out!FoldEmpty
  <2>4. CreatePath(Market, <<>>).size.input = 0
    <3>1. CreatePath(Market, <<>>).size = EmptySize
      BY Folds, Size!FoldEmpty
    <3> QED BY <3>1 DEF EmptySize
  <2> QED BY <2>1, <2>2, <2>3, <2>4
<1>5. \A k \in Nat : k \in T => k + 1 \in T
  <2> SUFFICES ASSUME NEW k \in Nat, k \in T, k + 1 <= n PROVE k + 1 \in T
    OBVIOUS
  <2> DEFINE f == s[k + 1]
             u == upTo(k)
             l == upTo(k + 1)
  <2>1. u \in Seq(SampledFill) /\ f \in SampledFill /\ l = Append(u, f)
    <3>1. k + 1 \in 1..Len(s) /\ Len(s) \in Nat
      BY <1>1, <1>2
    <3>2. f \in SampledFill
      BY <1>1, <3>1
    <3>3. u \in Seq(SampledFill) /\ Len(u) = k
      BY <1>1, <3>1
    <3>4. l = Append(u, f)
      BY <1>1, <3>1
    <3> QED BY <3>2, <3>3, <3>4
  <2>2. /\ k <= n /\ k \in 0..n /\ k + 1 \in 0..n /\ k + 1 \in 1..n /\ (k + 1) - 1 = k
    BY <1>2
  <2>3. f = FillAt(k + 1)
    BY <1>1, <2>2
  <2>4. /\ f.input = InputUpTo(k + 1) - InputUpTo(k)
        /\ f.output = OutputUpTo(k + 1) - OutputUpTo(k)
    BY <2>2, <2>3 DEF FillAt
  <2>5. /\ TotalInput(u) = InputUpTo(k) /\ TotalOutput(u) = OutputUpTo(k)
        /\ CreatePath(Market, u).size.input = InputUpTo(k)
    BY <2>2
  <2> HIDE DEF f, u, l
  <2>6. /\ TotalInput(l) = TotalInput(u) + f.input
        /\ TotalOutput(l) = TotalOutput(u) + f.output
    BY <2>1, Folds, In!FoldAppend, Out!FoldAppend DEF AddInput, AddOutput
  <2>7. CreatePath(Market, l).size = AddFillSize(Market, CreatePath(Market, u).size, f)
    BY <2>1, Folds, Size!FoldAppend DEF AddFillHere
  <2> DEFINE z == CreatePath(Market, u).size
  <2>8. /\ InputUpTo(k) \in Nat /\ InputUpTo(k + 1) \in Nat /\ OutputUpTo(k) \in Nat
        /\ OutputUpTo(k + 1) \in Nat /\ amount \in Nat /\ InputUpTo(k + 1) <= amount
    BY <1>2, <2>2
  <2>9. z.input = InputUpTo(k)
    BY <2>5
  <2> HIDE DEF z
  <2>10. ~(f.input > amount - z.input)
    BY <2>4, <2>8, <2>9
  <2>11. AddFillSize(Market, z, f).input = z.input + f.input
    BY <1>3, <2>10 DEF AddFillSize
  <2>12. CreatePath(Market, l).size.input = InputUpTo(k + 1)
    BY <2>4, <2>7, <2>8, <2>9, <2>11 DEF z
  <2>13. TotalInput(l) = InputUpTo(k + 1) /\ TotalOutput(l) = OutputUpTo(k + 1)
    BY <2>4, <2>5, <2>6, <2>8
  <2> QED BY <2>12, <2>13 DEF l
<1>6. \A k \in Nat : k \in T
  <2> HIDE DEF T
  <2> QED BY <1>4, <1>5, In!NatSetInduction
<1>7. upTo(n) = s
  BY <1>1, <1>2
<1>71. \A k \in 1..n : TotalInput(upTo(k)) = InputUpTo(k) /\ TotalOutput(upTo(k)) = OutputUpTo(k)
  <2> SUFFICES ASSUME NEW k \in 1..n
               PROVE  TotalInput(upTo(k)) = InputUpTo(k) /\ TotalOutput(upTo(k)) = OutputUpTo(k)
    OBVIOUS
  <2>1. k \in Nat /\ k <= n
    BY <1>2
  <2> HIDE DEF upTo
  <2> QED BY <1>6, <2>1
<1>8. /\ TotalInput(upTo(n)) = InputUpTo(n) /\ TotalOutput(upTo(n)) = OutputUpTo(n)
      /\ CreatePath(Market, upTo(n)).size.input = InputUpTo(n)
  BY <1>2, <1>6
<1> HIDE DEF T
<1>9. \A k \in 1..n : /\ TotalInput(SubSeq(s, 1, k)) = InputUpTo(k)
                      /\ TotalOutput(SubSeq(s, 1, k)) = OutputUpTo(k)
  BY <1>71
<1> HIDE DEF upTo
<1> QED BY <1>7, <1>8, <1>9 DEF n, s

-----------------------------------------------------------------------------
(* Approximations *)

LEMMA CeilFacts ==
  ASSUME NEW n \in Nat, NEW d \in Nat, NEW t \in Nat
  PROVE  /\ PartialAmountCeil(n, d, t) \in Nat
         /\ n = 0 => PartialAmountCeil(n, d, t) = 0
         /\ t = 0 => PartialAmountCeil(n, d, t) = 0
         /\ d > 0 => /\ PartialAmountCeil(n, d, t) * d >= n * t
                     /\ PartialAmountCeil(n, d, t) * d < n * t + d
<1>1. CASE d = 0
  BY <1>1 DEF PartialAmountCeil
<1>2. CASE d # 0
  <2> DEFINE x == n * t
             q == (x + d - 1) \div d
  <2>1. d \in Nat \ {0} /\ x \in Nat /\ x + d - 1 \in Nat
    BY <1>2
  <2>2. PartialAmountCeil(n, d, t) = q
    BY <1>2 DEF PartialAmountCeil
  <2>3. n = 0 \/ t = 0 => x = 0
    OBVIOUS
  <2> HIDE DEF x
  <2>4. q \in Nat /\ q * d <= x + d - 1 /\ x + d - 1 < q * d + d
    BY <2>1, DivisionFacts
  <2>5. x = 0 => q = 0
    <3> SUFFICES ASSUME x = 0 PROVE q = 0
      OBVIOUS
    <3>1. x + d - 1 < 1 * d
      BY <2>1
    <3>2. q < 1
      BY <2>1, <3>1, DivisionBelow
    <3> QED BY <2>4, <3>2
  <2> HIDE DEF q
  <2>6. q * d \in Int
    BY <2>1, <2>4
  <2>7. q * d >= x /\ q * d < x + d
    BY <2>1, <2>4, <2>6
  <2> QED BY <2>2, <2>3, <2>4, <2>5, <2>7 DEF x
<1> QED BY <1>1, <1>2

Source == [reserve : Nat, depth : Nat \ {0}, min : Nat, max : Nat]

LEMMA QuoteFacts ==
  ASSUME NEW s \in Source, NEW x \in Nat
  PROVE  /\ SellQuote(s, x) \in Nat
         /\ SellQuote(s, 0) = 0
         /\ SellQuote(s, x) > 0 => x \in s.min..s.max /\ x > 0
         /\ x \in s.min..s.max =>
              SellQuote(s, x) = (x * s.reserve) \div (x + s.depth)
<1> DEFINE r == s.reserve
           d == s.depth
<1>1. r \in Nat /\ d \in Nat \ {0}
  BY DEF Source
<1> HIDE DEF r, d
<1>2. ASSUME NEW y \in Nat PROVE y * r \in Nat /\ (y * r) \div (y + d) \in Nat
  <2>1. y * r \in Nat /\ y + d \in Nat \ {0}
    BY <1>1
  <2> QED BY <2>1, DivisionFacts
<1>3. 0 * r = 0 /\ 0 + d = d /\ 0 \div d = 0
  BY <1>1
<1> QED BY <1>2, <1>3 DEF SellQuote, r, d

\* Scaling a sale that buys enough down to what is wanted still buys it.
LEMMA ScaledSaleBuys ==
  ASSUME NEW s \in Source, NEW x \in Nat, NEW target \in Nat \ {0}, NEW y \in Nat,
         SellQuote(s, x) >= target, y * SellQuote(s, x) >= target * x,
         y <= x, y >= s.min
  PROVE  SellQuote(s, y) >= target
<1> DEFINE r == s.reserve
           d == s.depth
           b == SellQuote(s, x)
<1>1. r \in Nat /\ d \in Nat \ {0} /\ b \in Nat /\ b > 0 /\ x > 0 /\ x \in s.min..s.max
  BY QuoteFacts DEF Source
<1>2. y \in s.min..s.max
  BY <1>1 DEF Source
<1>3. b = (x * r) \div (x + d) /\ SellQuote(s, y) = (y * r) \div (y + d)
  BY <1>1, <1>2, QuoteFacts
<1>4. b >= target /\ y * b >= target * x
  OBVIOUS
<1> HIDE DEF r, d, b
<1>5. b * (x + d) <= x * r
  <2>1. x * r \in Nat /\ x + d \in Nat \ {0}
    BY <1>1
  <2> QED BY <1>3, <2>1, DivisionFacts
\* y r x >= y b (x + d) >= t x (x + d) >= t x (y + d)
<1>6. (y * r) * x >= (target * (y + d)) * x
  <2>1. y * (b * (x + d)) <= y * (x * r)
    <3> DEFINE u == b * (x + d)
               v == x * r
    <3>1. u \in Nat /\ v \in Nat /\ u <= v
      BY <1>1, <1>5
    <3> HIDE DEF u, v
    <3>2. y * u <= y * v
      BY <3>1
    <3> QED BY <3>2 DEF u, v
  <2>2. (y * b) * (x + d) >= (target * x) * (x + d)
    <3> DEFINE u == y * b
               v == target * x
               w == x + d
    <3>1. u \in Nat /\ v \in Nat /\ w \in Nat /\ u >= v
      BY <1>1, <1>4
    <3> HIDE DEF u, v, w
    <3>2. u * w >= v * w
      BY <3>1
    <3> QED BY <3>2 DEF u, v, w
  <2>3. (target * x) * (x + d) >= (target * x) * (y + d)
    <3> DEFINE u == target * x
               v == x + d
               w == y + d
    <3>1. u \in Nat /\ v \in Nat /\ w \in Nat /\ v >= w
      BY <1>1
    <3> HIDE DEF u, v, w
    <3>2. u * v >= u * w
      BY <3>1
    <3> QED BY <3>2 DEF u, v, w
  <2>4. /\ y * (b * (x + d)) = (y * b) * (x + d) /\ y * (x * r) = (y * r) * x
        /\ (target * x) * (y + d) = (target * (y + d)) * x
    BY <1>1
  <2>5. /\ (y * b) * (x + d) \in Int /\ (y * r) * x \in Int
        /\ (target * x) * (x + d) \in Int /\ (target * (y + d)) * x \in Int
    BY <1>1
  <2> QED BY <2>1, <2>2, <2>3, <2>4, <2>5
<1>7. y * r >= target * (y + d)
  <2> DEFINE u == y * r
             v == target * (y + d)
  <2>1. u \in Nat /\ v \in Nat /\ u * x >= v * x
    BY <1>1, <1>6
  <2> HIDE DEF u, v
  <2>2. u >= v
    <3> SUFFICES ASSUME u < v PROVE FALSE
      BY <2>1
    <3>1. u * x < v * x /\ u * x \in Int /\ v * x \in Int
      BY <1>1, <2>1
    <3> QED BY <2>1, <3>1
  <2> QED BY <2>2 DEF u, v
<1>8. (y * r) \div (y + d) >= target
  <2> DEFINE u == y * r
             w == y + d
             q == u \div w
  <2>1. u \in Nat /\ w \in Nat \ {0} /\ u >= target * w
    BY <1>1, <1>7
  <2> HIDE DEF u, w
  <2>2. q \in Nat /\ u < q * w + w
    BY <2>1, DivisionFacts
  <2> HIDE DEF q
  <2>3. q >= target
    <3> SUFFICES ASSUME q + 1 <= target PROVE FALSE
      BY <2>2
    <3>1. (q + 1) * w <= target * w /\ (q + 1) * w = q * w + w
      BY <2>1, <2>2
    <3>2. target * w \in Int /\ q * w \in Int
      BY <2>1, <2>2
    <3> QED BY <2>1, <2>2, <3>1, <3>2
  <2> QED BY <2>3 DEF u, w, q
<1> QED BY <1>3, <1>8

\* A sale is scaled to no more than itself when it buys enough.
LEMMA ReportFacts ==
  ASSUME NEW a, a.sell \in Nat, a.buy \in Nat, NEW target \in Nat \ {0}, a.buy >= target
  PROVE  /\ Report(target, a) \in Nat /\ Report(target, a) <= a.sell
         /\ Report(target, a) * a.buy >= target * a.sell
<1> DEFINE x == a.sell
           b == a.buy
           y == PartialAmountCeil(target, b, x)
<1>1. Report(target, a) = y
  BY DEF Report
<1>2. x \in Nat /\ b \in Nat \ {0} /\ b >= target
  OBVIOUS
<1> HIDE DEF x, b
<1>3. y \in Nat /\ y * b >= target * x /\ y * b < target * x + b
  <2>1. target \in Nat /\ x \in Nat /\ b \in Nat /\ b > 0
    BY <1>2
  <2> HIDE DEF y
  <2>2. y = PartialAmountCeil(target, b, x)
    BY DEF y
  <2> QED BY <2>1, <2>2, CeilFacts
<1> HIDE DEF y
<1>4. y <= x
  <2> SUFFICES ASSUME x + 1 <= y PROVE FALSE
    BY <1>2, <1>3
  <2>1. target * x <= b * x
    BY <1>2
  <2>2. (x + 1) * b <= y * b /\ (x + 1) * b = b * x + b
    BY <1>2, <1>3
  <2>3. target * x \in Int /\ b * x \in Int /\ y * b \in Int
    BY <1>2, <1>3
  <2> QED BY <1>2, <1>3, <2>1, <2>2, <2>3
<1> QED BY <1>1, <1>3, <1>4 DEF x, b

-----------------------------------------------------------------------------
(* The invariant *)

Loops == {"breaking", "plain", "limited", "capped"}

LEMMA KindFacts ==
  /\ Kinds \subseteq Loops /\ "approximate" \notin Loops
  /\ \A s \in Sources \union {NoSource} : s \in Source
  /\ Amounts \union LargeAmounts \subseteq Nat \ {0}
<1>1. NoSource \in Source
  BY DEF NoSource, Source
<1> QED BY <1>1, QuotesAssumption, SourcesAssumption, AmountsAssumption DEF Loops, Source

\* What the loops over the quotes leave alone, and what is left to show of each.
LEMMA LoopFacts ==
  ASSUME SampleInv, phase = "sampling", kind # "approximate",
         UNCHANGED <<sourceVars, fills, approx>>, phase' \in {"sampling", "sampled"},
         i' \in Samples, outputs' \in [Samples -> Nat],
         \A j, k \in Samples : j < k /\ outputs'[k] > 0 => outputs'[j] <= outputs'[k],
         phase' = "sampling" =>
           \A j \in Samples :
             /\ outputs'[j] = IF j < i' /\ quote[j] # Fails THEN quote[j] ELSE 0
             /\ kind = "capped" => outputs'[j] <= limit
  PROVE  SampleInv'
<1>1. /\ side' = side /\ amount' = amount /\ kind' = kind /\ limit' = limit
      /\ quote' = quote /\ source' = source /\ fills' = fills /\ approx' = approx
      /\ outPerEth' = outPerEth
  BY DEF sourceVars
<1>2. fills = <<>> /\ approx.end = "none"
  BY DEF SampleInv
<1>3. phase' # "converted" /\ phase' \in {"sampling", "sampled", "converted", "thrown"}
  OBVIOUS
<1> QED BY <1>1, <1>2, <1>3 DEF SampleInv

LEMMA AnswerFacts ==
  ASSUME SampleInv
  PROVE  /\ Answer \in Nat /\ i \in Samples /\ NumSamples \in Nat \ {0}
         /\ NumSamples \in Samples
         /\ \A j \in Samples : quote[j] # Fails => quote[j] \in Nat
         /\ quote[i] # Fails => Answer = quote[i]
         /\ quote[i] = Fails => Answer = 0
<1>1. NumSamples \in Nat \ {0} /\ NumSamples \in Samples
  BY NumSamplesAssumption DEF Samples
<1>2. /\ i \in Samples /\ quote \in [Samples -> Nat \union {Fails}]
  BY DEF SampleInv
<1> QED BY <1>1, <1>2 DEF Answer

\* The quote is kept, and the loop goes on or ends.
LEMMA KeptAnswer ==
  ASSUME SampleInv, phase = "sampling", kind # "approximate",
         UNCHANGED <<sourceVars, fills, approx>>, Keep(Answer), Stop \/ GoOn,
         kind = "capped" => Answer <= limit
  PROVE  SampleInv'
<1>1. /\ outputs \in [Samples -> Nat] /\ Answer \in Nat /\ i \in Samples
      /\ NumSamples \in Nat \ {0} /\ NumSamples \in Samples
      /\ outputs' = [outputs EXCEPT ![i] = Answer]
      /\ \A j \in Samples : quote[j] # Fails => quote[j] \in Nat
      /\ \A j, k \in Samples :
           j < k /\ quote[j] # Fails /\ quote[k] # Fails => quote[j] <= quote[k]
      /\ \A j \in Samples : /\ outputs[j] = IF j < i /\ quote[j] # Fails THEN quote[j] ELSE 0
                            /\ kind = "capped" => outputs[j] <= limit
  BY AnswerFacts DEF Keep, SampleInv
<1>2. \/ phase' = "sampled" /\ i' = i
      \/ phase' = "sampling" /\ i' = i + 1 /\ i # NumSamples
  BY DEF Stop, GoOn
<1>3. i' \in Samples
  BY <1>1, <1>2 DEF Samples
<1>4. outputs' \in [Samples -> Nat]
  BY <1>1
<1>5. ASSUME NEW j \in Samples
      PROVE  /\ outputs'[j] = IF j < i + 1 /\ quote[j] # Fails THEN quote[j] ELSE 0
             /\ kind = "capped" => outputs'[j] <= limit
  <2>1. CASE j = i
    <3>1. outputs'[j] = Answer /\ j < i + 1
      BY <1>1, <2>1 DEF Samples
    <3> QED BY <2>1, <3>1, AnswerFacts
  <2>2. CASE j # i
    <3>1. outputs'[j] = outputs[j]
      BY <1>1, <2>2
    <3>2. j < i <=> j < i + 1
      BY <1>1, <2>2 DEF Samples
    <3> QED BY <1>1, <3>1, <3>2
  <2> QED BY <2>1, <2>2
<1>6. ASSUME NEW j \in Samples, NEW k \in Samples, j < k, outputs'[k] > 0
      PROVE  outputs'[j] <= outputs'[k]
  <2>1. k < i + 1 /\ quote[k] # Fails /\ outputs'[k] = quote[k] /\ quote[k] \in Nat
    BY <1>1, <1>5, <1>6
  <2>2. CASE quote[j] # Fails
    <3>1. j < i + 1
      BY <1>1, <1>6, <2>1 DEF Samples
    <3>2. outputs'[j] = quote[j] /\ quote[j] <= quote[k]
      BY <1>1, <1>5, <1>6, <2>1, <2>2, <3>1
    <3> QED BY <2>1, <3>2
  <2>3. CASE quote[j] = Fails
    BY <1>5, <2>1, <2>3
  <2> QED BY <2>2, <2>3
<1>7. phase' = "sampling" =>
        \A j \in Samples :
          /\ outputs'[j] = IF j < i' /\ quote[j] # Fails THEN quote[j] ELSE 0
          /\ kind = "capped" => outputs'[j] <= limit
  BY <1>2, <1>5
<1> QED BY <1>2, <1>3, <1>4, <1>6, <1>7, LoopFacts

LEMMA QuotedStep ==
  SampleInv /\ (SampleBreaking \/ SamplePlain \/ SampleLimited \/ SampleCapped) => SampleInv'
<1> SUFFICES ASSUME SampleInv, SampleBreaking \/ SamplePlain \/ SampleLimited \/ SampleCapped
             PROVE  SampleInv'
  OBVIOUS
<1>1. /\ phase = "sampling" /\ kind \in Loops /\ UNCHANGED <<sourceVars, fills, approx>>
  BY DEF SampleBreaking, SamplePlain, SampleLimited, SampleCapped, Looping, Loops
<1>2. kind # "approximate"
  BY <1>1, KindFacts
<1>3. /\ i \in Samples /\ outputs \in [Samples -> Nat] /\ limit \in Nat /\ Answer \in Nat
      /\ \A j, k \in Samples : j < k /\ outputs[k] > 0 => outputs[j] <= outputs[k]
      /\ \A j \in Samples : kind = "capped" => outputs[j] <= limit
  BY <1>1, <1>2, AnswerFacts DEF SampleInv
<1>4. \/ Keep(Answer) /\ (Stop \/ GoOn) /\ (kind = "capped" => Answer <= limit)
      \/ Stop /\ UNCHANGED outputs
      \/ /\ Stop /\ kind = "capped"
         /\ outputs' = [j \in Samples |-> IF j < i THEN outputs[j] ELSE limit]
  <2>1. CASE SampleBreaking \/ SamplePlain
    BY <2>1 DEF SampleBreaking, SamplePlain, Looping
  <2>2. CASE SampleLimited
    BY <2>2 DEF SampleLimited, Looping
  <2>3. CASE SampleCapped
    <3>1. CASE Answer >= limit
      BY <2>3, <3>1 DEF SampleCapped, Looping
    <3>2. CASE ~(Answer >= limit)
      <4>1. Answer <= limit
        BY <1>3, <3>2
      <4> QED BY <2>3, <3>2, <4>1 DEF SampleCapped, Looping
    <3> QED BY <3>1, <3>2
  <2> QED BY <2>1, <2>2, <2>3
<1>5. CASE Keep(Answer) /\ (Stop \/ GoOn) /\ (kind = "capped" => Answer <= limit)
  BY <1>1, <1>2, <1>5, KeptAnswer
<1>6. CASE Stop /\ UNCHANGED outputs
  <2>1. phase' = "sampled" /\ i' = i /\ outputs' = outputs
    BY <1>6 DEF Stop
  <2> QED BY <1>1, <1>2, <1>3, <2>1, LoopFacts
<1>7. CASE /\ Stop /\ kind = "capped"
           /\ outputs' = [j \in Samples |-> IF j < i THEN outputs[j] ELSE limit]
  <2>1. phase' = "sampled" /\ i' = i
    BY <1>7 DEF Stop
  <2>2. outputs' \in [Samples -> Nat]
    BY <1>3, <1>7
  <2>3. ASSUME NEW j \in Samples, NEW k \in Samples, j < k, outputs'[k] > 0
        PROVE  outputs'[j] <= outputs'[k]
    <3>1. k < i => j < i
      BY <1>3, <2>3 DEF Samples
    <3> QED BY <1>3, <1>7, <2>3, <3>1
  <2> QED BY <1>1, <1>2, <1>3, <2>1, <2>2, <2>3, LoopFacts
<1> QED BY <1>4, <1>5, <1>6, <1>7

\* What the approximations leave alone, and what is left to show of each.
LEMMA ApproximationFacts ==
  ASSUME SampleInv, phase = "sampling", kind = "approximate",
         UNCHANGED <<sourceVars, fills>>, phase' \in {"sampling", "sampled"},
         i' \in Samples, outputs' \in [Samples -> Nat], approx' \in Approximations,
         approx'.end # "none" => approx'.buy > 0,
         approx'.end = "reached" =>
           /\ approx'.buy = SellQuote(source, approx'.sell)
           /\ approx'.buy >= SampleAmount(amount, i') /\ SampleAmount(amount, i') > 0
  PROVE  SampleInv'
<1>1. /\ side' = side /\ amount' = amount /\ kind' = kind /\ limit' = limit
      /\ quote' = quote /\ source' = source /\ fills' = fills /\ outPerEth' = outPerEth
  BY DEF sourceVars
<1>2. fills = <<>> /\ phase' # "converted" /\ phase' \in {"sampling", "sampled", "converted", "thrown"}
  BY DEF SampleInv
<1> QED BY <1>1, <1>2 DEF SampleInv, Target

LEMMA ApproximationTypes ==
  SampleInv => /\ approx \in Approximations /\ source \in Source /\ i \in Samples
               /\ outputs \in [Samples -> Nat] /\ amount \in Nat \ {0}
               /\ Target \in Nat /\ NumSamples \in Nat \ {0}
<1> SUFFICES ASSUME SampleInv
             PROVE  /\ approx \in Approximations /\ source \in Source /\ i \in Samples
                    /\ outputs \in [Samples -> Nat] /\ amount \in Nat \ {0}
                    /\ Target \in Nat /\ NumSamples \in Nat \ {0}
  OBVIOUS
<1>1. /\ approx \in Approximations /\ source \in Source /\ i \in Samples
      /\ outputs \in [Samples -> Nat] /\ amount \in Nat \ {0}
  BY KindFacts DEF SampleInv
<1> QED BY <1>1, SampleAmountFacts, NumSamplesAssumption DEF Target

\* An iteration reaches its goal by a quote of what is wanted.
LEMMA IterateFacts ==
  ASSUME NEW s \in Source, NEW t \in Nat, NEW a \in Approximations, a.buy > 0
  PROVE  /\ Iterate(s, t, a) \in Approximations /\ Iterate(s, t, a).buy > 0
         /\ Iterate(s, t, a).end = "reached" =>
              /\ Iterate(s, t, a).buy = SellQuote(s, Iterate(s, t, a).sell)
              /\ Iterate(s, t, a).buy >= t /\ t > 0
<1> DEFINE eps == ONE_HUNDRED_PERCENT_BPS + APPROXIMATE_BUY_TARGET_EPSILON_BPS
           base == PartialAmountCeil(t, a.buy, a.sell)
           sell == PartialAmountCeil(eps, ONE_HUNDRED_PERCENT_BPS, base)
           bought == SellQuote(s, sell)
           end == CASE IsReached(t, bought) -> "reached"
                    [] ~IsReached(t, bought)
                       /\ a.iter + 1 = APPROXIMATE_BUY_MAX_ITERATIONS -> "spent"
                    [] OTHER -> "open"
<1>1. /\ a.sell \in Nat /\ a.buy \in Nat /\ a.iter \in Nat
      /\ a = [sell |-> a.sell, buy |-> a.buy, iter |-> a.iter, end |-> a.end]
  BY DEF Approximations
<1>2. eps \in Nat /\ ONE_HUNDRED_PERCENT_BPS \in Nat
  BY DEF ONE_HUNDRED_PERCENT_BPS, APPROXIMATE_BUY_TARGET_EPSILON_BPS
<1>3. Iterate(s, t, a) =
        IF bought = 0
        THEN [a EXCEPT !.sell = sell, !.end = "failed"]
        ELSE [sell |-> sell, buy |-> bought, iter |-> a.iter + 1, end |-> end]
  BY DEF Iterate
<1> HIDE DEF eps
<1>4. base \in Nat /\ (t = 0 => base = 0)
  BY <1>1, CeilFacts
<1> HIDE DEF base
<1>5. sell \in Nat /\ (base = 0 => sell = 0)
  BY <1>2, <1>4, CeilFacts
<1> HIDE DEF sell
<1>6. bought \in Nat /\ (sell = 0 => bought = 0)
  BY <1>5, QuoteFacts
<1>7. end \in {"reached", "spent", "open"} /\ (end = "reached" => bought >= t)
  <2>1. CASE IsReached(t, bought)
    <3>1. end = "reached" /\ bought >= t
      BY <2>1 DEF IsReached
    <3> QED BY <3>1
  <2>2. CASE ~IsReached(t, bought)
    <3>1. end = "spent" \/ end = "open"
      BY <2>2
    <3> QED BY <3>1
  <2> QED BY <2>1, <2>2
<1> HIDE DEF end
<1>8. CASE bought = 0
  <2>1. Iterate(s, t, a) = [sell |-> sell, buy |-> a.buy, iter |-> a.iter, end |-> "failed"]
    BY <1>1, <1>3, <1>8
  <2> QED BY <1>1, <1>5, <2>1 DEF Approximations
<1>9. CASE bought # 0
  <2>1. /\ Iterate(s, t, a).sell = sell /\ Iterate(s, t, a).buy = bought
        /\ Iterate(s, t, a).end = end
    BY <1>3, <1>9
  <2>2. Iterate(s, t, a) \in Approximations
    BY <1>1, <1>3, <1>5, <1>6, <1>7, <1>9 DEF Approximations
  <2>3. bought > 0 /\ t > 0
    BY <1>4, <1>5, <1>6, <1>9
  <2> HIDE DEF bought
  <2>4. bought = SellQuote(s, sell)
    BY DEF bought
  <2> QED BY <1>7, <2>1, <2>2, <2>3, <2>4
<1> QED BY <1>8, <1>9

LEMMA ApproximateStep ==
  SampleInv /\ (GuessFirst \/ Approximate \/ SampleApproximated) => SampleInv'
<1> SUFFICES ASSUME SampleInv, GuessFirst \/ Approximate \/ SampleApproximated
             PROVE  SampleInv'
  OBVIOUS
<1>1. phase = "sampling" /\ kind = "approximate" /\ UNCHANGED <<sourceVars, fills>>
  BY DEF GuessFirst, Approximate, SampleApproximated, Looping
<1>2. /\ approx \in Approximations /\ source \in Source /\ i \in Samples
      /\ outputs \in [Samples -> Nat] /\ Target \in Nat /\ NumSamples \in Nat \ {0}
      /\ approx.end # "none" => approx.buy > 0
  BY ApproximationTypes DEF SampleInv
<1>3. CASE GuessFirst
  <2>1. /\ approx.end = "none" /\ outputs' = outputs
        /\ \E guess \in Guesses :
             IF SellQuote(source, guess) = 0
             THEN Stop /\ UNCHANGED approx
             ELSE approx' = FirstApproximation(source, guess) /\ UNCHANGED <<i, phase>>
    BY <1>3 DEF GuessFirst
  <2>2. PICK guess \in Guesses :
          IF SellQuote(source, guess) = 0
          THEN Stop /\ UNCHANGED approx
          ELSE approx' = FirstApproximation(source, guess) /\ UNCHANGED <<i, phase>>
    BY <2>1
  <2>3. CASE SellQuote(source, guess) = 0
    <3>1. phase' = "sampled" /\ i' = i /\ approx' = approx
      BY <2>2, <2>3 DEF Stop
    <3> QED BY <1>1, <1>2, <2>1, <3>1, ApproximationFacts
  <2>4. CASE SellQuote(source, guess) # 0
    <3>1. guess \in Nat /\ SellQuote(source, guess) \in Nat
      BY <1>2, QuotesAssumption, QuoteFacts
    <3>2. /\ approx' = [sell |-> guess, buy |-> SellQuote(source, guess), iter |-> 0, end |-> "open"]
          /\ i' = i /\ phase' = "sampling"
      BY <1>1, <2>2, <2>4 DEF FirstApproximation
    <3>3. approx' \in Approximations /\ approx'.buy > 0 /\ approx'.end = "open"
      BY <2>4, <3>1, <3>2 DEF Approximations
    <3> QED BY <1>1, <1>2, <2>1, <3>2, <3>3, ApproximationFacts
  <2> QED BY <2>3, <2>4
<1>4. CASE Approximate
  <2>1. /\ approx.end = "open" /\ approx' = Iterate(source, Target, approx)
        /\ i' = i /\ outputs' = outputs /\ phase' = phase
    BY <1>4 DEF Approximate
  <2>2. /\ approx' \in Approximations /\ approx'.buy > 0
        /\ approx'.end = "reached" =>
             /\ approx'.buy = SellQuote(source, approx'.sell)
             /\ approx'.buy >= Target /\ Target > 0
    BY <1>2, <2>1, IterateFacts
  <2> QED BY <1>1, <1>2, <2>1, <2>2, ApproximationFacts DEF Target
<1>5. CASE SampleApproximated
  <2>1. /\ approx.end \in {"reached", "failed", "spent"}
        /\ outputs' = [outputs EXCEPT ![i] = Report(Target, approx)]
        /\ approx' = [approx EXCEPT !.iter = 0, !.end = "open"] /\ GoOn
    BY <1>5 DEF SampleApproximated, Keep
  <2>2. approx.sell \in Nat /\ approx.buy \in Nat /\ approx.buy > 0
    BY <1>2, <2>1 DEF Approximations
  <2>3. Report(Target, approx) \in Nat
    BY <1>2, <2>2, CeilFacts DEF Report
  <2>4. outputs' \in [Samples -> Nat]
    BY <1>2, <2>1, <2>3
  <2>5. approx' \in Approximations /\ approx'.buy > 0 /\ approx'.end = "open"
    BY <1>2, <2>1, <2>2 DEF Approximations
  <2>6. i' \in Samples /\ phase' \in {"sampling", "sampled"}
    BY <1>1, <1>2, <2>1 DEF GoOn, Samples
  <2> QED BY <1>1, <2>4, <2>5, <2>6, ApproximationFacts
<1> QED BY <1>3, <1>4, <1>5

LEMMA InitSample == Init => SampleInv
<1> SUFFICES ASSUME Init PROVE SampleInv
  OBVIOUS
<1>1. /\ approx = NoApproximation /\ i = 1 /\ outputs = [j \in Samples |-> 0]
      /\ phase = "sampling" /\ fills = <<>> /\ outPerEth \in {0, 1}
  BY DEF Init
<1>2. /\ approx \in Approximations /\ approx.end = "none" /\ i \in Samples
      /\ outputs \in [Samples -> Nat] /\ \A j \in Samples : outputs[j] = 0 /\ ~(j < i)
  BY <1>1, NumSamplesAssumption DEF NoApproximation, Approximations, Samples
<1>3. CASE /\ amount \in Amounts
           /\ quote \in {q \in [Samples -> Quotes \union {Fails}] : IsQuoteFunction(q, amount)}
           /\ side \in {"Sell", "Buy"} /\ kind \in Kinds /\ limit \in Limits
           /\ source = NoSource
  <2>1. /\ quote \in [Samples -> Nat \union {Fails}] /\ limit \in Nat
        /\ \A j, k \in Samples :
             j < k /\ quote[j] # Fails /\ quote[k] # Fails => quote[j] <= quote[k]
    BY <1>3, QuotesAssumption DEF IsQuoteFunction
  <2>2. \A j \in Samples : 0 <= limit /\ 0 <= 0 /\ ~(0 > 0)
    BY <2>1
  <2> QED BY <1>1, <1>2, <1>3, <2>1, <2>2 DEF SampleInv
<1>4. CASE /\ side = "Buy" /\ amount \in LargeAmounts
           /\ kind = "approximate" /\ limit = 0
           /\ quote = [j \in Samples |-> Fails]
           /\ source \in Sources
  BY <1>1, <1>2, <1>4 DEF SampleInv
<1> QED BY <1>3, <1>4 DEF Init

LEMMA ConvertStep == SampleInv /\ (Convert \/ FailToConvert) => SampleInv'
<1> SUFFICES ASSUME SampleInv, Convert \/ FailToConvert PROVE SampleInv'
  OBVIOUS
<1>1. /\ side' = side /\ amount' = amount /\ kind' = kind /\ limit' = limit
      /\ quote' = quote /\ source' = source /\ outPerEth' = outPerEth
      /\ approx' = approx /\ i' = i /\ outputs' = outputs
  BY DEF Convert, FailToConvert, sourceVars
<1>2. Market' = Market
  BY <1>1 DEF Market
<1>3. /\ DexSamplesToFills(Market, 1)' = DexSamplesToFills(Market, 1)
      /\ ConversionThrows(Market, 1)' = ConversionThrows(Market, 1)
  BY <1>2
<1>4. CASE Convert
  <2>1. /\ phase' = "converted" /\ ~ConversionThrows(Market, 1)'
        /\ fills' = DexSamplesToFills(Market, 1)'
    BY <1>3, <1>4 DEF Convert
  <2> QED BY <1>1, <2>1 DEF SampleInv, Target
<1>5. CASE FailToConvert
  <2>1. phase' = "thrown" /\ fills' = <<>>
    BY <1>5 DEF FailToConvert, SampleInv
  <2> QED BY <1>1, <2>1 DEF SampleInv, Target
<1> QED BY <1>4, <1>5

\* What the loops, the approximations and the conversion of every reachable state rest on.
THEOREM SampleInvariant == Spec => []SampleInv
<1>1. SampleInv /\ [Next]_vars => SampleInv'
  <2> SUFFICES ASSUME SampleInv, [Next]_vars PROVE SampleInv'
    OBVIOUS
  <2>1. CASE UNCHANGED vars
    <3>1. /\ side' = side /\ amount' = amount /\ kind' = kind /\ limit' = limit
          /\ quote' = quote /\ source' = source /\ approx' = approx /\ i' = i
          /\ outputs' = outputs /\ phase' = phase /\ fills' = fills
          /\ outPerEth' = outPerEth
      BY <2>1 DEF vars, sourceVars
    <3>2. Market' = Market
      BY <3>1 DEF Market
    <3>3. /\ DexSamplesToFills(Market, 1)' = DexSamplesToFills(Market, 1)
          /\ ConversionThrows(Market, 1)' = ConversionThrows(Market, 1)
      BY <3>2
    <3> QED BY <3>1, <3>3 DEF SampleInv, Target
  <2> QED BY <2>1, QuotedStep, ApproximateStep, ConvertStep DEF Next, Done
<1> QED BY <1>1, InitSample, PTL DEF Spec

-----------------------------------------------------------------------------
(* The properties *)

LEMMA Converted ==
  SampleInv /\ phase = "converted" =>
    /\ fills = DexSamplesToFills(Market, 1)
    /\ outputs \in [Samples -> Nat] /\ amount \in Nat \ {0} /\ Priced
BY KindFacts DEF SampleInv, Priced

LEMMA TypesOfInv == SampleInv => TypeOK
<1> SUFFICES ASSUME SampleInv PROVE TypeOK
  OBVIOUS
<1> DEFINE n == Len(NonzeroSamples(Market, 1))
<1>1. CASE phase # "converted"
  <2>1. fills = <<>>
    BY <1>1 DEF SampleInv
  <2>2. fills \in Seq(SampledFill) /\ DOMAIN fills = {}
    BY <2>1
  <2> QED BY <2>2 DEF SampleInv, TypeOK, SampledFill
<1>2. CASE phase = "converted"
  <2>1. /\ fills = DexSamplesToFills(Market, 1)
        /\ outputs \in [Samples -> Nat] /\ amount \in Nat \ {0} /\ Priced
    BY <1>2, Converted
  <2>2. fills \in Seq(SampledFill) /\ Len(fills) = n /\ \A k \in 1..n : fills[k] = FillAt(k)
    BY <2>1, FillsFacts
  <2> QED BY <2>2 DEF SampleInv, TypeOK, SampledFill
<1> QED BY <1>1, <1>2

\* The variables hold what their declarations say: the index stays within the samples,
\* and the fills are numbered from 0 with inputs that are never negative.
THEOREM Types == Spec => []TypeOK
BY SampleInvariant, TypesOfInv, PTL

LEMMA SumsOfInv == SampleInv => FillsAddUpToQuote
<1> SUFFICES ASSUME SampleInv, phase = "converted"
             PROVE  IF Answered = {}
                    THEN fills = <<>>
                    ELSE LET top == CHOOSE j \in Answered : \A k \in Answered : k <= j
                         IN  /\ TotalInput(fills) = SampleAmount(amount, top)
                             /\ TotalOutput(fills) = outputs[top]
  BY DEF FillsAddUpToQuote
<1> DEFINE kept == NonzeroSamples(Market, 1)
           n == Len(kept)
           top == CHOOSE j \in Answered : \A k \in Answered : k <= j
<1>1. /\ fills = DexSamplesToFills(Market, 1)
      /\ outputs \in [Samples -> Nat] /\ amount \in Nat \ {0} /\ Priced
  BY Converted
<1>2. /\ NumSamples \in Nat \ {0}
      /\ n \in Nat /\ \A k \in 1..n : kept[k] \in Samples
      /\ \A k, l \in 1..n : k < l => kept[k] < kept[l]
      /\ Answered = {kept[k] : k \in 1..n}
  <2>1. NumSamples \in Nat \ {0}
    BY NumSamplesAssumption
  <2>2. IsKeptOf(kept, NumSamples)
    BY <1>1, KeptFacts
  <2> HIDE DEF kept
  <2>3. n \in Nat /\ \A k \in 1..n : kept[k] \in Samples
    BY <2>1, <2>2 DEF IsKeptOf, Samples
  <2>4. \A j \in Samples : outputs[j] > 0 <=> \E k \in 1..n : kept[k] = j
    BY <2>2 DEF IsKeptOf, Samples
  <2>5. Answered = {kept[k] : k \in 1..n}
    BY <2>3, <2>4 DEF Answered
  <2> QED BY <2>1, <2>2, <2>3, <2>5 DEF IsKeptOf
<1>3. fills \in Seq(SampledFill) /\ Len(fills) = n
  BY <1>1, FillsFacts
<1>4. TotalInput(fills) = InputUpTo(n) /\ TotalOutput(fills) = OutputUpTo(n)
  BY <1>1, PrefixSums
<1>5. CASE n = 0
  <2>1. Answered = {}
    BY <1>2, <1>5
  <2>2. fills = <<>>
    <3> HIDE DEF n, SampledFill
    <3> QED BY <1>3, <1>5
  <2> QED BY <2>1, <2>2
<1>6. CASE n # 0
  <2>1. n \in 1..n
    BY <1>2, <1>6
  <2>2. /\ InputUpTo(n) = SampleAmount(amount, kept[n])
        /\ OutputUpTo(n) = outputs[kept[n]]
    BY <1>6 DEF InputUpTo, OutputUpTo
  <2> HIDE DEF kept, n
  <2>3. kept[n] \in Answered
    BY <1>2, <2>1
  <2>4. ASSUME NEW k \in Answered PROVE k <= kept[n]
    <3>1. PICK l \in 1..n : k = kept[l]
      BY <1>2
    <3>2. l < n \/ l = n
      BY <1>2, <3>1
    <3>3. kept[l] \in Nat /\ kept[n] \in Nat
      BY <1>2, <2>1 DEF Samples
    <3> QED BY <1>2, <2>1, <3>1, <3>2, <3>3
  <2>5. Answered \subseteq Nat
    BY <1>2 DEF Answered, Samples
  <2>6. top \in Answered /\ \A k \in Answered : k <= top
    BY <2>3, <2>4
  <2> HIDE DEF top
  <2>7. top <= kept[n] /\ kept[n] <= top /\ top \in Nat /\ kept[n] \in Nat
    BY <2>3, <2>4, <2>5, <2>6
  <2>8. top = kept[n]
    BY <2>7
  <2>9. Answered # {}
    BY <2>3
  <2> QED BY <1>4, <2>2, <2>8, <2>9 DEF top
<1> QED BY <1>5, <1>6

\* The fills of a source add up to its largest answer, whatever happened to the others.
THEOREM SourceSums == Spec => []FillsAddUpToQuote
BY SampleInvariant, SumsOfInv, PTL

LEMMA CompleteOfInv == SampleInv => CompleteIffQuoted
<1> SUFFICES ASSUME SampleInv, phase = "converted"
             PROVE  IsComplete(Market, CreatePath(Market, fills)) <=> outputs[NumSamples] > 0
  BY DEF CompleteIffQuoted
<1> DEFINE n == Len(NonzeroSamples(Market, 1))
<1>1. /\ fills = DexSamplesToFills(Market, 1)
      /\ outputs \in [Samples -> Nat] /\ amount \in Nat \ {0} /\ Priced
  BY Converted
<1>2. CreatePath(Market, fills).size.input = InputUpTo(n)
  BY <1>1, PrefixSums
<1>3. /\ InputUpTo(n) \in Nat /\ InputUpTo(n) <= amount
      /\ InputUpTo(n) = amount <=> outputs[NumSamples] > 0
  <2>1. /\ n \in Nat /\ \A k \in 0..n : InputUpTo(k) \in Nat /\ InputUpTo(k) <= amount
        /\ InputUpTo(n) = amount <=> outputs[NumSamples] > 0
    BY <1>1, UpToFacts
  <2>2. n \in 0..n
    BY <2>1
  <2> QED BY <2>1, <2>2
<1>4. Market.amount = amount
  BY DEF Market
<1>5. IsComplete(Market, CreatePath(Market, fills)) <=> InputUpTo(n) >= amount
  BY <1>2, <1>4 DEF IsComplete
<1> HIDE DEF n
<1> QED BY <1>1, <1>3, <1>5

\* A source fills an order alone if and only if it answered for the whole amount.
THEOREM SourceCompletes == Spec => []CompleteIffQuoted
BY SampleInvariant, CompleteOfInv, PTL

LEMMA ServedOfInv == SampleInv => ReachedGoalIsServed
<1> SUFFICES ASSUME SampleInv, approx.end = "reached"
             PROVE  LET sell == Report(Target, approx)
                    IN  /\ sell <= approx.sell
                        /\ SellQuote(source, sell) >= Target \/ sell < source.min
  BY DEF ReachedGoalIsServed
<1> DEFINE sell == Report(Target, approx)
<1>1. /\ approx \in Approximations /\ source \in Source /\ Target \in Nat
  BY ApproximationTypes
<1>2. /\ approx.buy = SellQuote(source, approx.sell)
      /\ approx.buy >= Target /\ Target \in Nat \ {0}
      /\ approx.sell \in Nat /\ approx.buy \in Nat
  BY <1>1 DEF SampleInv, Approximations
<1>3. sell \in Nat /\ sell <= approx.sell /\ sell * approx.buy >= Target * approx.sell
  BY <1>2, ReportFacts
<1>4. source.min \in Nat
  BY <1>1 DEF Source
<1> HIDE DEF sell
<1>5. ASSUME sell >= source.min PROVE SellQuote(source, sell) >= Target
  BY <1>1, <1>2, <1>3, <1>5, ScaledSaleBuys
<1>6. SellQuote(source, sell) >= Target \/ sell < source.min
  BY <1>3, <1>4, <1>5
<1> QED BY <1>3, <1>6 DEF sell

\* The amount an approximation answers buys what was asked for, wherever the source
\* quotes it, and is no more than what was quoted.
THEOREM ReachedGoals == Spec => []ReachedGoalIsServed
BY SampleInvariant, ServedOfInv, PTL

LEMMA ChainOfInv == SampleInv => SourceIsChain
<1> SUFFICES ASSUME SampleInv, phase = "converted" PROVE IsChain(Market, 1, fills)
  BY DEF SourceIsChain
<1> DEFINE kept == NonzeroSamples(Market, 1)
           n == Len(kept)
<1>1. /\ fills = DexSamplesToFills(Market, 1)
      /\ outputs \in [Samples -> Nat] /\ amount \in Nat \ {0} /\ Priced
  BY Converted
<1>2. fills \in Seq(SampledFill) /\ Len(fills) = n /\ \A k \in 1..n : fills[k] = FillAt(k)
  BY <1>1, FillsFacts
<1>3. \A k \in 1..n : /\ TotalInput(SubSeq(fills, 1, k)) = InputUpTo(k)
                      /\ TotalOutput(SubSeq(fills, 1, k)) = OutputUpTo(k)
  BY <1>1, PrefixSums
<1>4. \A k \in 1..n : InputUpTo(k) <= amount /\ (k < n => InputUpTo(k) < amount)
  <2>1. /\ n \in Nat
        /\ \A k \in 0..n : InputUpTo(k) <= amount /\ (k < n => InputUpTo(k) < amount)
    BY <1>1, UpToFacts
  <2> QED BY <2>1
<1>5. \A k \in 1..n : OutputUpTo(k) > 0
  <2>1. NumSamples \in Nat \ {0}
    BY NumSamplesAssumption
  <2>2. IsKeptOf(kept, NumSamples)
    BY <1>1, KeptFacts
  <2>3. \A k \in 1..n : k # 0 /\ OutputUpTo(k) = outputs[kept[k]]
    BY DEF OutputUpTo
  <2> HIDE DEF kept
  <2>4. \A k \in 1..n : kept[k] \in 1..NumSamples
    BY <2>1, <2>2 DEF IsKeptOf
  <2>5. \A k \in 1..n : outputs[kept[k]] > 0
    BY <2>2, <2>4 DEF IsKeptOf
  <2> QED BY <2>3, <2>5
<1>6. \A k \in 1..n : fills[k].index = k - 1
  <2>1. \A k : FillAt(k).index = k - 1
    BY DEF FillAt
  <2> QED BY <1>2, <2>1
<1>7. Market.amount = amount
  BY DEF Market
<1>8. DOMAIN fills = 1..n /\ fills \in Seq(SampledFill)
  <2> HIDE DEF n, SampledFill
  <2> QED BY <1>2
<1> HIDE DEF n
<1> QED BY <1>2, <1>3, <1>4, <1>5, <1>6, <1>7, <1>8 DEF IsChain, SampledFill

\* What a source delivers is what the search asks of its markets: its fills are a chain,
\* of which any number buys something and only the last may reach the amount.
THEOREM SourcesAreChains == Spec => []SourceIsChain
BY SampleInvariant, ChainOfInv, PTL
=============================================================================
