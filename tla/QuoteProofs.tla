----------------------------- MODULE QuoteProofs -----------------------------
(***************************************************************************)
(* Proofs about Quote, for every set of routes and of slippages.           *)
(***************************************************************************)
EXTENDS Quote, FiniteSetTheorems, TLAPS

Plus(a, b) == a + b

In  == INSTANCE FoldFacts WITH Op <- AddInput, Base <- 0
Out == INSTANCE FoldFacts WITH Op <- AddOutput, Base <- 0
Add == INSTANCE FoldFacts WITH Op <- Plus, Base <- 0

-----------------------------------------------------------------------------
(* Totals *)

\* The totals of the model are folds.
LEMMA TotalsAreFolds ==
  /\ \A s : Inputs(s) = In!Fold(s)
  /\ \A s : Outputs(s) = Out!Fold(s)
  /\ \A s : FoldLeft(+, 0, s) = Add!Fold(s)
<1>1. \A s : Inputs(s) = In!Fold(s)
  BY DEF Inputs, FoldLeft, MapThenFoldSet, Max,
         In!Fold, In!FoldLeft, In!MapThenFoldSet, In!Max
<1>2. \A s : Outputs(s) = Out!Fold(s)
  BY DEF Outputs, FoldLeft, MapThenFoldSet, Max,
         Out!Fold, Out!FoldLeft, Out!MapThenFoldSet, Out!Max
<1>3. \A s : FoldLeft(+, 0, s) = Add!Fold(s)
  BY DEF FoldLeft, MapThenFoldSet, Max,
         Add!Fold, Add!FoldLeft, Add!MapThenFoldSet, Add!Max, Plus
<1> QED BY <1>1, <1>2, <1>3

\* The first k + 1 elements are the first k and one more.
LEMMA PrefixAppend ==
  ASSUME NEW S, NEW s \in Seq(S), NEW k \in Nat, k < Len(s)
  PROVE  /\ SubSeq(s, 1, k) \in Seq(S) /\ s[k + 1] \in S
         /\ SubSeq(s, 1, k + 1) = Append(SubSeq(s, 1, k), s[k + 1])
OBVIOUS

LEMMA WholePrefix ==
  ASSUME NEW S, NEW s \in Seq(S)
  PROVE  SubSeq(s, 1, Len(s)) = s /\ SubSeq(s, 1, 0) = <<>>
OBVIOUS

\* The totals of a prefix, element by element.
LEMMA PrefixTotals ==
  ASSUME NEW S, NEW s \in Seq(S)
  PROVE  /\ Inputs(SubSeq(s, 1, 0)) = 0 /\ Outputs(SubSeq(s, 1, 0)) = 0
         /\ FoldLeft(+, 0, SubSeq(s, 1, 0)) = 0
         /\ \A k \in 0..(Len(s) - 1) :
              /\ Inputs(SubSeq(s, 1, k + 1)) = Inputs(SubSeq(s, 1, k)) + s[k + 1].input
              /\ Outputs(SubSeq(s, 1, k + 1)) = Outputs(SubSeq(s, 1, k)) + s[k + 1].output
              /\ FoldLeft(+, 0, SubSeq(s, 1, k + 1)) = FoldLeft(+, 0, SubSeq(s, 1, k)) + s[k + 1]
<1>1. SubSeq(s, 1, 0) = <<>>
  BY WholePrefix
<1>2. /\ Inputs(SubSeq(s, 1, 0)) = 0 /\ Outputs(SubSeq(s, 1, 0)) = 0
      /\ FoldLeft(+, 0, SubSeq(s, 1, 0)) = 0
  BY <1>1, TotalsAreFolds, In!FoldEmpty, Out!FoldEmpty, Add!FoldEmpty
<1>3. ASSUME NEW k \in 0..(Len(s) - 1)
      PROVE  /\ Inputs(SubSeq(s, 1, k + 1)) = Inputs(SubSeq(s, 1, k)) + s[k + 1].input
             /\ Outputs(SubSeq(s, 1, k + 1)) = Outputs(SubSeq(s, 1, k)) + s[k + 1].output
             /\ FoldLeft(+, 0, SubSeq(s, 1, k + 1)) = FoldLeft(+, 0, SubSeq(s, 1, k)) + s[k + 1]
  <2> DEFINE p == SubSeq(s, 1, k)
             x == s[k + 1]
  <2>1. k \in Nat /\ k < Len(s)
    OBVIOUS
  <2>2. p \in Seq(S) /\ x \in S /\ SubSeq(s, 1, k + 1) = Append(p, x)
    BY <2>1, PrefixAppend
  <2> HIDE DEF p, x
  <2>3. Inputs(Append(p, x)) = Inputs(p) + x.input
    BY <2>2, TotalsAreFolds, In!FoldAppend DEF AddInput
  <2>4. Outputs(Append(p, x)) = Outputs(p) + x.output
    BY <2>2, TotalsAreFolds, Out!FoldAppend DEF AddOutput
  <2>5. FoldLeft(+, 0, Append(p, x)) = FoldLeft(+, 0, p) + x
    BY <2>2, TotalsAreFolds, Add!FoldAppend DEF Plus
  <2> QED BY <2>2, <2>3, <2>4, <2>5 DEF p, x
<1> QED BY <1>2, <1>3

\* Prefixes of records with natural inputs: longer ones add up to no less.
LEMMA PrefixInputs ==
  ASSUME NEW S, \A x \in S : x.input \in Nat, NEW s \in Seq(S)
  PROVE  /\ \A k \in 0..Len(s) : Inputs(SubSeq(s, 1, k)) \in Nat
         /\ \A k \in 0..Len(s) : \A j \in 0..k :
              Inputs(SubSeq(s, 1, j)) <= Inputs(SubSeq(s, 1, k))
<1> DEFINE n == Len(s)
           I(k) == Inputs(SubSeq(s, 1, k))
           N == {k \in Nat : k <= n => \A j \in 0..k : I(j) \in Nat /\ I(j) <= I(k)}
<1>1. n \in Nat /\ \A k \in 1..n : s[k].input \in Nat
  OBVIOUS
<1>2. I(0) = 0 /\ \A k \in 0..(n - 1) : I(k + 1) = I(k) + s[k + 1].input
  BY PrefixTotals
<1> HIDE DEF n, I
<1>3. 0 \in N
  BY <1>2
<1>4. ASSUME NEW k \in Nat, k \in N PROVE k + 1 \in N
  <2> SUFFICES ASSUME k + 1 <= n
               PROVE  \A j \in 0..(k + 1) : I(j) \in Nat /\ I(j) <= I(k + 1)
    OBVIOUS
  <2>1. k \in 0..(n - 1) /\ k + 1 \in 1..n
    BY <1>1
  <2>2. \A j \in 0..k : I(j) \in Nat /\ I(j) <= I(k)
    BY <1>1, <1>4
  <2>3. /\ I(k) \in Nat /\ s[k + 1].input \in Nat
        /\ I(k + 1) = I(k) + s[k + 1].input
    BY <1>1, <1>2, <2>1, <2>2
  <2>4. ASSUME NEW j \in 0..(k + 1) PROVE I(j) \in Nat /\ I(j) <= I(k + 1)
    <3>1. CASE j = k + 1
      BY <2>3, <3>1
    <3>2. CASE j # k + 1
      <4>1. j \in 0..k
        BY <3>2
      <4> QED BY <2>2, <2>3, <4>1
    <3> QED BY <3>1, <3>2
  <2> QED BY <2>4
<1>5. \A k \in Nat : k \in N
  <2> HIDE DEF N
  <2> QED BY <1>3, <1>4, In!NatSetInduction
<1> QED BY <1>1, <1>5 DEF n, I

\* Records with positive outputs: every prefix but the empty one has some.
LEMMA PositiveOutputs ==
  ASSUME NEW S, NEW s \in Seq(S), \A j \in 1..Len(s) : s[j].output \in Nat \ {0}
  PROVE  \A k \in 0..Len(s) : /\ Outputs(SubSeq(s, 1, k)) \in Nat
                              /\ k # 0 => Outputs(SubSeq(s, 1, k)) > 0
<1> DEFINE n == Len(s)
           O(k) == Outputs(SubSeq(s, 1, k))
           N == {k \in Nat : k <= n => O(k) \in Nat /\ (k # 0 => O(k) > 0)}
<1>1. n \in Nat /\ \A k \in 1..n : s[k].output \in Nat \ {0}
  OBVIOUS
<1>2. O(0) = 0 /\ \A k \in 0..(n - 1) : O(k + 1) = O(k) + s[k + 1].output
  BY PrefixTotals
<1> HIDE DEF n, O
<1>3. 0 \in N
  BY <1>2
<1>4. ASSUME NEW k \in Nat, k \in N PROVE k + 1 \in N
  <2> SUFFICES ASSUME k + 1 <= n PROVE O(k + 1) \in Nat /\ O(k + 1) > 0
    OBVIOUS
  <2>1. k \in 0..(n - 1) /\ k + 1 \in 1..n /\ O(k) \in Nat
    BY <1>1, <1>4
  <2> QED BY <1>1, <1>2, <2>1
<1>5. \A k \in Nat : k \in N
  <2> HIDE DEF N
  <2> QED BY <1>3, <1>4, In!NatSetInduction
<1> QED BY <1>1, <1>5 DEF n, O

\* Totals of integers are integers.
LEMMA TotalTypes ==
  ASSUME NEW S, NEW s \in Seq(S)
  PROVE  /\ (\A x \in S : x.input \in Nat) => Inputs(s) \in Nat
         /\ (\A x \in S : x.output \in Int) => Outputs(s) \in Int
         /\ (\A x \in S : x \in Nat) => FoldLeft(+, 0, s) \in Nat
<1>1. ASSUME \A x \in S : x.input \in Nat PROVE Inputs(s) \in Nat
  <2>1. 0 \in Nat /\ \A a \in Nat, x \in S : AddInput(a, x) \in Nat
    BY <1>1 DEF AddInput
  <2> QED BY <2>1, TotalsAreFolds, In!FoldType
<1>2. ASSUME \A x \in S : x.output \in Int PROVE Outputs(s) \in Int
  <2>1. 0 \in Int /\ \A a \in Int, x \in S : AddOutput(a, x) \in Int
    BY <1>2 DEF AddOutput
  <2> QED BY <2>1, TotalsAreFolds, Out!FoldType
<1>3. ASSUME \A x \in S : x \in Nat PROVE FoldLeft(+, 0, s) \in Nat
  <2>1. 0 \in Nat /\ \A a \in Nat, x \in S : Plus(a, x) \in Nat
    BY <1>3 DEF Plus
  <2> QED BY <2>1, TotalsAreFolds, Add!FoldType
<1> QED BY <1>1, <1>2, <1>3

-----------------------------------------------------------------------------
(* Routes *)

SubFills(r) == SubFill(DOMAIN r.source)

Orders(r) == Order(DOMAIN r.source)

LEMMA RouteFacts ==
  ASSUME NEW r, IsRoute(r), r.kind = "path"
  PROVE  /\ r.side \in {"Sell", "Buy"} /\ r.amount \in Nat \ {0}
         /\ IsPathRoute(r)
         /\ r.orders \in Seq(Orders(r)) /\ Len(r.orders) \in Nat \ {0}
         /\ \A x \in Orders(r) : x.input \in Nat /\ x.output \in Int
         /\ \A x \in SubFills(r) : x.input \in Nat /\ x.output \in Int
         /\ \A i \in DOMAIN r.orders :
              /\ i \in 1..Len(r.orders) /\ r.orders[i] \in Orders(r)
              /\ r.orders[i].id \in DOMAIN r.source
              /\ r.orders[i].subFills \in Seq(SubFills(r))
              /\ Len(r.orders[i].subFills) \in Nat \ {0}
              /\ r.orders[i].input = Inputs(r.orders[i].subFills)
              /\ r.orders[i].output = Outputs(r.orders[i].subFills)
<1>1. /\ r.side \in {"Sell", "Buy"} /\ r.amount \in Nat \ {0}
      /\ IsPathRoute(r)
  BY DEF IsRoute
<1>2. r.orders \in Seq(Orders(r)) /\ r.orders # <<>>
  BY <1>1 DEF IsPathRoute, Orders
<1>3. /\ \A x \in Orders(r) : /\ x.id \in DOMAIN r.source
                          /\ x.input \in Nat /\ x.output \in Int
                          /\ x.subFills \in Seq(SubFills(r))
      /\ \A x \in SubFills(r) : x.input \in Nat /\ x.output \in Int
  BY DEF Orders, Order, SubFills, SubFill
<1>4. ASSUME NEW i \in DOMAIN r.orders
      PROVE  /\ i \in 1..Len(r.orders) /\ r.orders[i] \in Orders(r)
             /\ r.orders[i].subFills # <<>>
             /\ r.orders[i].input = Inputs(r.orders[i].subFills)
             /\ r.orders[i].output = Outputs(r.orders[i].subFills)
  BY <1>1, <1>2 DEF IsPathRoute
<1>5. ASSUME NEW i \in DOMAIN r.orders
      PROVE  Len(r.orders[i].subFills) \in Nat \ {0}
  <2>1. r.orders[i].subFills \in Seq(SubFills(r)) /\ r.orders[i].subFills # <<>>
    BY <1>3, <1>4
  <2> QED BY <2>1
<1> QED BY <1>1, <1>2, <1>3, <1>4, <1>5

\* The last sub-fill is reached after everything but itself, every other one is
\* behind what remains for the last.
LEMMA SubFillBounds ==
  ASSUME NEW r, IsRoute(r), r.kind = "path",
         NEW i \in DOMAIN r.orders, NEW k \in DOMAIN r.orders[i].subFills
  PROVE  LET f == r.orders[i].subFills[k]
         IN  /\ f \in SubFills(r)
             /\ InputBefore(r, i, k) \in Nat /\ OutputBefore(r, i, k) \in Int
             /\ InputBefore(r, i, k + 1) = InputBefore(r, i, k) + f.input
             /\ OutputBefore(r, i, k + 1) = OutputBefore(r, i, k) + f.output
             /\ f.input <= r.orders[i].input
             /\ \/ /\ i = Len(r.orders)
                   /\ f = LastFill(r)
                   /\ InputBefore(r, i, k) = Inputs(r.orders) - f.input
                   /\ OutputBefore(r, i, k) = OutputBeforeLast(r)
                \/ /\ ~(i = Len(r.orders) /\ k = Len(r.orders[i].subFills))
                   /\ InputBefore(r, i, k) + f.input <= Inputs(r.orders) - LastFill(r).input
<1> DEFINE os == r.orders
           n == Len(os)
           ss == os[i].subFills
           m == Len(ss)
           f == ss[k]
           I(j) == Inputs(SubSeq(os, 1, j))
           J(j) == Inputs(SubSeq(ss, 1, j))
           O(j) == Outputs(SubSeq(os, 1, j))
           P(j) == Outputs(SubSeq(ss, 1, j))
           last == LastFill(r)
<1>1. /\ os \in Seq(Orders(r)) /\ n \in Nat \ {0} /\ i \in 1..n /\ n \in DOMAIN os
      /\ ss \in Seq(SubFills(r)) /\ m \in Nat \ {0} /\ k \in 1..m
      /\ os[i].input = Inputs(ss) /\ os[i].output = Outputs(ss)
      /\ \A x \in Orders(r) : x.input \in Nat /\ x.output \in Int
      /\ \A x \in SubFills(r) : x.input \in Nat /\ x.output \in Int
      /\ ss[m] \in SubFills(r)
  BY RouteFacts
<1>2. f \in SubFills(r) /\ f.input \in Nat /\ f.output \in Int
  BY <1>1
<1>3. /\ \A j \in 0..(n - 1) : I(j + 1) = I(j) + os[j + 1].input
      /\ \A j \in 0..(n - 1) : O(j + 1) = O(j) + os[j + 1].output
      /\ I(n) = Inputs(os) /\ O(n) = Outputs(os)
  BY <1>1, PrefixTotals, WholePrefix
<1>4. /\ \A j \in 0..(m - 1) : J(j + 1) = J(j) + ss[j + 1].input
      /\ \A j \in 0..(m - 1) : P(j + 1) = P(j) + ss[j + 1].output
      /\ J(m) = Inputs(ss) /\ P(m) = Outputs(ss)
  BY <1>1, PrefixTotals, WholePrefix
<1>5. /\ \A j \in 0..n : I(j) \in Nat
      /\ \A j \in 0..n : \A l \in 0..j : I(l) <= I(j)
  BY <1>1, PrefixInputs
<1>6. /\ \A j \in 0..m : J(j) \in Nat
      /\ \A j \in 0..m : \A l \in 0..j : J(l) <= J(j)
  BY <1>1, PrefixInputs
<1>7. O(i - 1) \in Int /\ P(k - 1) \in Int
  <2>1. SubSeq(os, 1, i - 1) \in Seq(Orders(r)) /\ SubSeq(ss, 1, k - 1) \in Seq(SubFills(r))
    BY <1>1
  <2> QED BY <1>1, <2>1, TotalTypes
<1>8. /\ k # 0 /\ k + 1 # 0 /\ (k + 1) - 1 = k
      /\ InputBefore(r, i, k) = I(i - 1) + J(k - 1) /\ InputBefore(r, i, k + 1) = I(i - 1) + J(k)
      /\ OutputBefore(r, i, k) = O(i - 1) + P(k - 1) /\ OutputBefore(r, i, k + 1) = O(i - 1) + P(k)
  BY <1>1 DEF InputBefore, OutputBefore
<1>9. last = os[n].subFills[Len(os[n].subFills)]
  BY <1>1 DEF LastFill, Last
<1>10. \E l \in Nat : os[n].input = l + last.input
  <2> DEFINE ts == os[n].subFills
             q == Len(ts)
  <2>1. ts \in Seq(SubFills(r)) /\ q \in Nat \ {0} /\ os[n].input = Inputs(ts)
    BY <1>1, RouteFacts
  <2>2. Inputs(ts) = Inputs(SubSeq(ts, 1, q - 1)) + ts[q].input
    <3>1. q - 1 \in 0..(q - 1) /\ (q - 1) + 1 = q
      BY <2>1
    <3> HIDE DEF ts, q
    <3>2. Inputs(SubSeq(ts, 1, (q - 1) + 1)) = Inputs(SubSeq(ts, 1, q - 1)) + ts[(q - 1) + 1].input
      BY <2>1, <3>1, PrefixTotals DEF q
    <3>3. SubSeq(ts, 1, q) = ts
      BY <2>1, WholePrefix DEF q
    <3> QED BY <3>1, <3>2, <3>3
  <2>3. Inputs(SubSeq(ts, 1, q - 1)) \in Nat
    <3>1. q - 1 \in 0..q
      BY <2>1
    <3> HIDE DEF ts
    <3> QED BY <1>1, <2>1, <3>1, PrefixInputs
  <2> QED BY <1>9, <2>1, <2>2, <2>3
<1> HIDE DEF os, ss, n, m, f, I, J, O, P, last
<1>11. J(k) = J(k - 1) + f.input /\ P(k) = P(k - 1) + f.output
  <2>1. k - 1 \in 0..(m - 1) /\ (k - 1) + 1 = k
    BY <1>1
  <2> QED BY <1>4, <2>1 DEF f
<1>12. I(i) = I(i - 1) + os[i].input /\ O(i) = O(i - 1) + os[i].output
  <2>1. i - 1 \in 0..(n - 1) /\ (i - 1) + 1 = i
    BY <1>1
  <2> QED BY <1>3, <2>1
<1>13. I(i - 1) \in Nat /\ J(k - 1) \in Nat /\ J(k) \in Nat /\ J(m) \in Nat /\ J(k) <= J(m)
  <2>1. i - 1 \in 0..n /\ k - 1 \in 0..m /\ k \in 0..m /\ m \in 0..m
    BY <1>1
  <2> QED BY <1>5, <1>6, <2>1
<1>14. f.input <= os[i].input
  BY <1>1, <1>2, <1>4, <1>11, <1>13
<1>15. \/ i = n /\ f = last /\ I(i - 1) + J(k - 1) = Inputs(os) - f.input
          /\ O(i - 1) + P(k - 1) = Outputs(os) - last.output
       \/ ~(i = n /\ k = m) /\ I(i - 1) + J(k) <= Inputs(os) - last.input
  <2>1. CASE i = n /\ k = m
    <3>1. f = last
      BY <2>1, <1>9 DEF f, m, ss
    <3>2. /\ Inputs(os) = I(i - 1) + J(m) /\ J(m) = J(k - 1) + f.input
          /\ Outputs(os) = O(i - 1) + P(m) /\ P(m) = P(k - 1) + f.output
      BY <1>1, <1>3, <1>4, <1>11, <1>12, <2>1
    <3>3. I(i - 1) + J(k - 1) = Inputs(os) - f.input
      BY <1>2, <1>13, <3>2
    <3>4. O(i - 1) + P(k - 1) = Outputs(os) - last.output
      BY <1>2, <1>7, <3>1, <3>2
    <3> QED BY <2>1, <3>1, <3>3, <3>4
  <2>2. CASE i = n /\ k # m
    <3>1. m - 1 \in 0..m /\ m - 1 \in 0..(m - 1) /\ (m - 1) + 1 = m /\ k \in 0..(m - 1)
      BY <1>1, <2>2
    <3>2. J(m) = J(m - 1) + ss[m].input /\ J(k) <= J(m - 1) /\ J(m - 1) \in Nat
      BY <1>4, <1>6, <3>1
    <3>3. ss[m] = last
      BY <1>9, <2>2 DEF ss, m
    <3>4. Inputs(os) = I(i - 1) + J(m)
      BY <1>1, <1>3, <1>4, <1>12, <2>2
    <3>5. last.input \in Nat
      BY <1>1, <3>3
    <3>6. I(i - 1) + J(k) <= Inputs(os) - last.input
      BY <1>13, <3>2, <3>3, <3>4, <3>5
    <3> QED BY <2>2, <3>6
  <2>3. CASE i # n
    <3>1. n - 1 \in 0..n /\ n - 1 \in 0..(n - 1) /\ (n - 1) + 1 = n /\ i \in 0..(n - 1)
      BY <1>1, <2>3
    <3>2. I(n) = I(n - 1) + os[n].input /\ I(i) <= I(n - 1) /\ I(n - 1) \in Nat
      BY <1>3, <1>5, <3>1
    <3>3. I(i - 1) + J(k) <= I(i) /\ I(i) \in Nat
      BY <1>1, <1>4, <1>5, <1>12, <1>13
    <3>4. PICK l \in Nat : os[n].input = l + last.input
      BY <1>10
    <3>5. os[n].input \in Nat
      BY <1>1
    <3>6. last.input \in Nat
      <4> DEFINE ts == os[n].subFills
      <4>1. ts \in Seq(SubFills(r)) /\ Len(ts) \in Nat \ {0}
        BY <1>1, RouteFacts DEF os
      <4>2. ts[Len(ts)] \in SubFills(r)
        BY <4>1
      <4> QED BY <1>1, <1>9, <4>2
    <3>7. I(i - 1) + J(k) <= Inputs(os) - last.input
      BY <1>3, <1>13, <3>2, <3>3, <3>4, <3>5, <3>6
    <3> QED BY <2>3, <3>7
  <2> QED BY <2>1, <2>2, <2>3
<1>16. InputBefore(r, i, k + 1) = InputBefore(r, i, k) + f.input
  BY <1>2, <1>8, <1>11, <1>13
<1>17. OutputBefore(r, i, k + 1) = OutputBefore(r, i, k) + f.output
  BY <1>2, <1>7, <1>8, <1>11
<1>18. InputBefore(r, i, k) \in Nat /\ OutputBefore(r, i, k) \in Int
  BY <1>7, <1>8, <1>13
<1>19. I(i - 1) + J(k) = InputBefore(r, i, k) + f.input
  BY <1>8, <1>16
<1> QED BY <1>2, <1>8, <1>14, <1>15, <1>16, <1>17, <1>18, <1>19
        DEF OutputBeforeLast, os, ss, n, m, f, last

\* Before the first order, from the last sub-fill of an order to the next, and
\* after the last order.
LEMMA CursorMoves ==
  ASSUME NEW r, IsRoute(r), r.kind = "path"
  PROVE  /\ InputBefore(r, 1, 0) = 0 /\ OutputBefore(r, 1, 0) = 0
         /\ InputBefore(r, Len(r.orders) + 1, 0) = Inputs(r.orders)
         /\ OutputBefore(r, Len(r.orders) + 1, 0) = Outputs(r.orders)
         /\ \A i \in DOMAIN r.orders :
              LET past == Len(r.orders[i].subFills) + 1
              IN  /\ InputBefore(r, i, 1) = InputBefore(r, i, 0)
                  /\ OutputBefore(r, i, 1) = OutputBefore(r, i, 0)
                  /\ InputBefore(r, i, past) = InputBefore(r, i + 1, 0)
                  /\ OutputBefore(r, i, past) = OutputBefore(r, i + 1, 0)
<1> DEFINE os == r.orders
           n == Len(os)
           I(j) == Inputs(SubSeq(os, 1, j))
           O(j) == Outputs(SubSeq(os, 1, j))
<1>1. /\ os \in Seq(Orders(r)) /\ n \in Nat \ {0}
      /\ \A x \in Orders(r) : x.input \in Nat /\ x.output \in Int
      /\ \A x \in SubFills(r) : x.input \in Nat /\ x.output \in Int
  BY RouteFacts
<1>2. /\ I(0) = 0 /\ O(0) = 0 /\ I(n) = Inputs(os) /\ O(n) = Outputs(os)
      /\ \A j \in 0..(n - 1) : I(j + 1) = I(j) + os[j + 1].input
      /\ \A j \in 0..(n - 1) : O(j + 1) = O(j) + os[j + 1].output
  BY <1>1, PrefixTotals, WholePrefix
<1>3. ASSUME NEW j \in 0..n PROVE I(j) \in Nat /\ O(j) \in Int
  <2>1. SubSeq(os, 1, j) \in Seq(Orders(r))
    BY <1>1
  <2> QED BY <1>1, <2>1, TotalTypes
<1>4. \A j : InputBefore(r, j, 0) = I(j - 1) + 0 /\ OutputBefore(r, j, 0) = O(j - 1) + 0
  BY DEF InputBefore, OutputBefore
<1>5. ASSUME NEW i \in DOMAIN os
      PROVE  LET past == Len(os[i].subFills) + 1
             IN  /\ InputBefore(r, i, 1) = InputBefore(r, i, 0)
                 /\ OutputBefore(r, i, 1) = OutputBefore(r, i, 0)
                 /\ InputBefore(r, i, past) = InputBefore(r, i + 1, 0)
                 /\ OutputBefore(r, i, past) = OutputBefore(r, i + 1, 0)
  <2> DEFINE ss == os[i].subFills
             m == Len(ss)
             J(j) == Inputs(SubSeq(ss, 1, j))
             P(j) == Outputs(SubSeq(ss, 1, j))
  <2>1. /\ i \in 1..n /\ ss \in Seq(SubFills(r)) /\ m \in Nat \ {0}
        /\ os[i].input = Inputs(ss) /\ os[i].output = Outputs(ss)
    BY RouteFacts
  <2>2. J(0) = 0 /\ P(0) = 0 /\ J(m) = Inputs(ss) /\ P(m) = Outputs(ss)
    BY <2>1, PrefixTotals, WholePrefix
  <2>3. \A k \in Nat \ {0} : /\ InputBefore(r, i, k) = I(i - 1) + J(k - 1)
                            /\ OutputBefore(r, i, k) = O(i - 1) + P(k - 1)
    BY DEF InputBefore, OutputBefore
  <2> HIDE DEF os, n, I, O, ss, m, J, P
  <2>4. /\ InputBefore(r, i, 1) = I(i - 1) + J(0) /\ OutputBefore(r, i, 1) = O(i - 1) + P(0)
        /\ InputBefore(r, i, m + 1) = I(i - 1) + J(m)
        /\ OutputBefore(r, i, m + 1) = O(i - 1) + P(m)
    <3>1. 1 - 1 = 0 /\ (m + 1) - 1 = m /\ m + 1 \in Nat \ {0} /\ 1 \in Nat \ {0}
      BY <2>1
    <3> QED BY <2>3, <3>1
  <2>5. I(i) = I(i - 1) + os[i].input /\ O(i) = O(i - 1) + os[i].output
    <3>1. i - 1 \in 0..(n - 1) /\ (i - 1) + 1 = i
      BY <1>1, <2>1
    <3> QED BY <1>2, <3>1
  <2>6. I(i) \in Nat /\ O(i) \in Int
    BY <1>1, <1>3, <2>1
  <2>7. InputBefore(r, i + 1, 0) = I(i) + 0 /\ OutputBefore(r, i + 1, 0) = O(i) + 0
    <3>1. (i + 1) - 1 = i
      BY <2>1
    <3> QED BY <1>4, <3>1
  <2>8. InputBefore(r, i, m + 1) = InputBefore(r, i + 1, 0)
    BY <2>1, <2>2, <2>4, <2>5, <2>6, <2>7
  <2>9. OutputBefore(r, i, m + 1) = OutputBefore(r, i + 1, 0)
    BY <2>1, <2>2, <2>4, <2>5, <2>6, <2>7
  <2> QED BY <1>4, <2>2, <2>4, <2>8, <2>9 DEF m, ss
<1>6. /\ InputBefore(r, 1, 0) = I(0) + 0 /\ OutputBefore(r, 1, 0) = O(0) + 0
      /\ InputBefore(r, n + 1, 0) = I(n) + 0 /\ OutputBefore(r, n + 1, 0) = O(n) + 0
  <2> HIDE DEF n, I, O
  <2>1. 1 - 1 = 0 /\ (n + 1) - 1 = n
    BY <1>1
  <2> QED BY <1>4, <2>1
<1>7. I(n) \in Nat /\ O(n) \in Int /\ n \in 0..n
  <2>1. n \in 0..n
    BY <1>1
  <2> HIDE DEF n
  <2> QED BY <1>3, <2>1
<1> HIDE DEF I, O, os, n
<1>8. /\ InputBefore(r, 1, 0) = 0 /\ OutputBefore(r, 1, 0) = 0
      /\ InputBefore(r, n + 1, 0) = Inputs(os) /\ OutputBefore(r, n + 1, 0) = Outputs(os)
  BY <1>2, <1>6, <1>7
<1> QED BY <1>5, <1>8 DEF os, n

\* The gas of an order counts from its first sub-fill on.
LEMMA GasMoves ==
  ASSUME NEW r, IsRoute(r), r.kind = "path"
  PROVE  /\ TotalGas(r) \in Nat
         /\ GasBefore(r, 1, 0) = 0 /\ GasBefore(r, Len(r.orders) + 1, 0) = TotalGas(r)
         /\ \A k \in Nat \ {0} : GasBefore(r, Len(r.orders), k) = TotalGas(r)
         /\ \A i \in DOMAIN r.orders :
              /\ r.gas[r.orders[i].id] \in Nat
              /\ GasBefore(r, i, 1) = GasBefore(r, i, 0) + r.gas[r.orders[i].id]
              /\ \A k \in Nat \ {0} :
                   /\ GasBefore(r, i, k) = GasBefore(r, i + 1, 0)
                   /\ GasBefore(r, i, k + 1) = GasBefore(r, i, k)
<1> DEFINE gs == Gases(r)
           n == Len(r.orders)
           G(j) == FoldLeft(+, 0, SubSeq(gs, 1, j))
<1>1. /\ r.orders \in Seq(Orders(r)) /\ n \in Nat \ {0} /\ DOMAIN r.orders = 1..n
      /\ \A i \in 1..n : r.orders[i].id \in DOMAIN r.source
      /\ \A id \in DOMAIN r.source : r.gas[id] \in Nat
  <2>1. IsPathRoute(r)
    BY RouteFacts
  <2> QED BY <2>1, RouteFacts DEF IsPathRoute
<1>2. gs \in Seq(Nat) /\ Len(gs) = n /\ \A i \in 1..n : gs[i] = r.gas[r.orders[i].id]
  BY <1>1 DEF Gases
<1>3. TotalGas(r) = FoldLeft(+, 0, gs)
  BY DEF TotalGas, Gases
<1> HIDE DEF gs, n
<1>4. /\ G(0) = 0 /\ G(n) = TotalGas(r)
      /\ \A j \in 0..(n - 1) : G(j + 1) = G(j) + gs[j + 1]
  <2>1. SubSeq(gs, 1, n) = gs
    BY <1>2, WholePrefix
  <2> QED BY <1>2, <1>3, <2>1, PrefixTotals
<1>5. TotalGas(r) \in Nat
  BY <1>2, <1>3, TotalTypes
<1>6. /\ \A j \in Nat : GasBefore(r, j, 0) = G(j - 1)
      /\ \A j \in Nat : \A k \in Nat \ {0} : GasBefore(r, j, k) = G(j)
  BY DEF GasBefore, gs
<1> HIDE DEF G
<1>7. ASSUME NEW i \in 1..n
      PROVE  /\ r.gas[r.orders[i].id] \in Nat
             /\ GasBefore(r, i, 1) = GasBefore(r, i, 0) + r.gas[r.orders[i].id]
             /\ \A k \in Nat \ {0} :
                  /\ GasBefore(r, i, k) = GasBefore(r, i + 1, 0)
                  /\ GasBefore(r, i, k + 1) = GasBefore(r, i, k)
  <2>1. i - 1 \in 0..(n - 1) /\ (i - 1) + 1 = i /\ (i + 1) - 1 = i /\ i \in Nat /\ i + 1 \in Nat
    BY <1>1
  <2>2. G(i) = G(i - 1) + r.gas[r.orders[i].id]
    BY <1>2, <1>4, <2>1
  <2>3. GasBefore(r, i, 0) = G(i - 1) /\ GasBefore(r, i, 1) = G(i)
    BY <1>6, <2>1
  <2>4. ASSUME NEW k \in Nat \ {0}
        PROVE  GasBefore(r, i, k) = G(i) /\ GasBefore(r, i, k + 1) = G(i)
    BY <1>6, <2>1
  <2>5. GasBefore(r, i + 1, 0) = G(i)
    BY <1>6, <2>1
  <2> QED BY <1>1, <2>2, <2>3, <2>4, <2>5
<1>8. /\ GasBefore(r, 1, 0) = 0 /\ GasBefore(r, n + 1, 0) = TotalGas(r)
      /\ \A k \in Nat \ {0} : GasBefore(r, n, k) = TotalGas(r)
  <2>1. 1 - 1 = 0 /\ (n + 1) - 1 = n /\ n \in Nat /\ n + 1 \in Nat /\ 1 \in Nat
    BY <1>1
  <2> QED BY <1>4, <1>6, <2>1
<1> QED BY <1>1, <1>5, <1>7, <1>8 DEF n

\* No order of a path is empty, and no chain of sub-fills costs more than it
\* returns.
LEMMA OrderFacts ==
  ASSUME NEW r, IsRoute(r), r.kind = "path", NEW i \in DOMAIN r.orders
  PROVE  /\ r.orders[i].output \in Nat \ {0}
         /\ \A k \in DOMAIN r.orders[i].subFills :
              /\ Outputs(SubSeq(r.orders[i].subFills, 1, k)) > 0
              /\ r.orders[i].subFills[k].input <= r.amount
<1> DEFINE ss == r.orders[i].subFills
<1>1. /\ ss \in Seq(SubFills(r)) /\ Len(ss) \in Nat \ {0}
      /\ r.orders[i].output = Outputs(ss) /\ r.orders[i].output \in Int
  BY RouteFacts
<1>2. \A k \in DOMAIN ss : Outputs(SubSeq(ss, 1, k)) > 0 /\ ss[k].input <= r.amount
  <2>1. IsPathRoute(r)
    BY RouteFacts
  <2> QED BY <2>1 DEF IsPathRoute
<1>3. Len(ss) \in DOMAIN ss
  BY <1>1
<1>4. Outputs(SubSeq(ss, 1, Len(ss))) > 0 /\ SubSeq(ss, 1, Len(ss)) = ss
  BY <1>1, <1>2, <1>3, WholePrefix
<1>5. Outputs(ss) > 0
  BY <1>4
<1> HIDE DEF ss
<1>6. r.orders[i].output \in Nat \ {0}
  BY <1>1, <1>5
<1> QED BY <1>2, <1>6 DEF ss

\* A path fills the amount, its last sub-fill is needed for that, and what is
\* filled has some output.
LEMMA PathFacts ==
  ASSUME NEW r, IsRoute(r), r.kind = "path"
  PROVE  /\ Inputs(r.orders) \in Nat /\ Outputs(r.orders) \in Int
         /\ Inputs(r.orders) >= r.amount
         /\ LastFill(r).input \in 1..r.amount /\ LastFill(r).output \in Int
         /\ LeftForLast(r) \in 1..LastFill(r).input
         /\ OutputBeforeLast(r) \in Int
         /\ FilledOutputOf(r) \in Nat \ {0}
<1> DEFINE os == r.orders
           n == Len(os)
           ss == os[n].subFills
           m == Len(ss)
           last == LastFill(r)
<1>1. /\ os \in Seq(Orders(r)) /\ n \in Nat \ {0} /\ n \in DOMAIN os /\ n \in 1..n
      /\ DOMAIN os = 1..n
      /\ ss \in Seq(SubFills(r)) /\ m \in Nat \ {0} /\ m \in DOMAIN ss
      /\ \A x \in Orders(r) : x.input \in Nat /\ x.output \in Int
      /\ \A x \in SubFills(r) : x.input \in Nat /\ x.output \in Int
      /\ r.amount \in Nat \ {0}
  BY RouteFacts
<1>2. last = ss[m]
  BY <1>1 DEF LastFill, Last
<1>3. last.input \in Nat /\ last.output \in Int
  BY <1>1, <1>2
<1>4. Inputs(os) >= r.amount /\ Inputs(os) - last.input < r.amount
  <2>1. IsPathRoute(r)
    BY RouteFacts
  <2> QED BY <2>1 DEF IsPathRoute
<1>5. Inputs(os) \in Nat /\ Outputs(os) \in Int
  BY <1>1, TotalTypes
<1>6. last.input <= r.amount
  BY <1>1, <1>2, OrderFacts
<1>7. OutputBeforeLast(r) = Outputs(os) - last.output
  BY DEF OutputBeforeLast
<1>8. LeftForLast(r) = r.amount - (Inputs(os) - last.input)
  BY DEF LeftForLast
<1>9. FilledOutputOf(r) = OutputBeforeLast(r)
                            + IF LeftForLast(r) < last.input THEN 0 ELSE last.output
  BY DEF FilledOutputOf
<1>10. \A j \in 0..n : /\ Outputs(SubSeq(os, 1, j)) \in Nat
                       /\ j # 0 => Outputs(SubSeq(os, 1, j)) > 0
  <2>1. \A j \in 1..n : os[j].output \in Nat \ {0}
    BY <1>1, OrderFacts
  <2> HIDE DEF os
  <2> QED BY <1>1, <2>1, PositiveOutputs DEF n
<1>11. Outputs(os) > 0
  <2>1. SubSeq(os, 1, n) = os
    BY <1>1, WholePrefix
  <2>2. Outputs(SubSeq(os, 1, n)) > 0
    <3> HIDE DEF os, n
    <3> QED BY <1>1, <1>10
  <2> QED BY <2>1, <2>2
<1>12. LeftForLast(r) < last.input => OutputBeforeLast(r) > 0
  <2> SUFFICES ASSUME LeftForLast(r) < last.input PROVE OutputBeforeLast(r) > 0
    OBVIOUS
  <2>1. /\ InputBefore(r, n, m) = Inputs(os) - last.input
        /\ OutputBefore(r, n, m) = OutputBeforeLast(r)
    BY <1>1, <1>2, SubFillBounds
  <2>2. OutputBefore(r, n, m) = Outputs(SubSeq(os, 1, n - 1)) + Outputs(SubSeq(ss, 1, m - 1))
    BY <1>1 DEF OutputBefore
  <2>3. InputBefore(r, n, m) = Inputs(SubSeq(os, 1, n - 1)) + Inputs(SubSeq(ss, 1, m - 1))
    BY <1>1 DEF InputBefore
  <2> HIDE DEF os, n, ss, m, last
  <2>4. n - 1 \in 0..n /\ m - 1 \in 0..m
    BY <1>1
  <2>5. Outputs(SubSeq(ss, 1, m - 1)) \in Int
        /\ (m # 1 => Outputs(SubSeq(ss, 1, m - 1)) > 0)
        /\ (m = 1 => Outputs(SubSeq(ss, 1, m - 1)) = 0 /\ Inputs(SubSeq(ss, 1, m - 1)) = 0)
    <3>1. CASE m = 1
      <4>1. m - 1 = 0
        BY <3>1
      <4>2. /\ Outputs(SubSeq(ss, 1, m - 1)) = 0 /\ Inputs(SubSeq(ss, 1, m - 1)) = 0
        BY <1>1, <4>1, PrefixTotals
      <4> QED BY <3>1, <4>2
    <3>2. CASE m # 1
      <4>1. m - 1 \in DOMAIN ss
        <5>1. DOMAIN ss = 1..m
          BY <1>1 DEF m
        <5>2. m - 1 \in 1..m
          BY <1>1, <3>2
        <5> QED BY <5>1, <5>2
      <4>2. Outputs(SubSeq(ss, 1, m - 1)) > 0
        BY <1>1, <4>1, OrderFacts DEF ss, os
      <4>3. SubSeq(ss, 1, m - 1) \in Seq(SubFills(r))
        BY <1>1, <4>1
      <4>4. Outputs(SubSeq(ss, 1, m - 1)) \in Int
        BY <1>1, <4>3, TotalTypes
      <4> QED BY <3>2, <4>2, <4>4
    <3> QED BY <3>1, <3>2
  <2>6. CASE n = 1 /\ m = 1
    <3>1. Inputs(SubSeq(os, 1, n - 1)) = 0
      <4>1. n - 1 = 0
        BY <2>6
      <4> QED BY <1>1, <4>1, PrefixTotals
    <3>2. Inputs(os) - last.input = 0
      BY <2>1, <2>3, <2>5, <2>6, <3>1
    <3> QED BY <1>1, <1>3, <1>5, <1>6, <1>8, <3>2
  <2>7. CASE ~(n = 1 /\ m = 1)
    <3>1. /\ Outputs(SubSeq(os, 1, n - 1)) \in Nat
          /\ n # 1 => Outputs(SubSeq(os, 1, n - 1)) > 0
      BY <1>1, <1>10, <2>4
    <3>2. Outputs(SubSeq(os, 1, n - 1)) + Outputs(SubSeq(ss, 1, m - 1)) > 0
      BY <2>5, <2>7, <3>1
    <3> QED BY <2>1, <2>2, <3>2
  <2> QED BY <2>6, <2>7
<1>13. OutputBeforeLast(r) \in Int
  BY <1>3, <1>5, <1>7
<1> HIDE DEF os, n, ss, m, last
<1>14. LeftForLast(r) \in 1..last.input /\ last.input \in 1..r.amount
  BY <1>1, <1>3, <1>4, <1>5, <1>6, <1>8
<1>15. FilledOutputOf(r) \in Nat \ {0}
  <2>1. CASE LeftForLast(r) < last.input
    <3>1. FilledOutputOf(r) = OutputBeforeLast(r) + 0
      BY <1>9, <2>1
    <3> QED BY <1>12, <1>13, <2>1, <3>1
  <2>2. CASE ~(LeftForLast(r) < last.input)
    <3>1. FilledOutputOf(r) = OutputBeforeLast(r) + last.output
      BY <1>9, <2>2
    <3> QED BY <1>3, <1>5, <1>7, <1>11, <3>1
  <2> QED BY <2>1, <2>2
<1> QED BY <1>3, <1>4, <1>5, <1>13, <1>14, <1>15 DEF os, last

\* A whole sub-fill counts in full, a cut one not at all.
LEMMA CutShare ==
  ASSUME NEW d \in Nat \ {0}, NEW n \in 0..d
  PROVE  Truncate(n, d) = IF n < d THEN 0 ELSE 1
<1>1. CASE n < d
  <2>1. n \div d = 0
    BY <1>1
  <2> QED BY <1>1, <2>1 DEF Truncate
<1>2. CASE n = d
  <2>1. d \div d = 1
    OBVIOUS
  <2> QED BY <1>2, <2>1 DEF Truncate
<1> QED BY <1>1, <1>2

\* Filling one sub-fill, or what remains of the amount if it is less, moves past
\* the sub-fill or ends the simulation.
LEMMA FillMoves ==
  ASSUME NEW r, IsRoute(r), r.kind = "path",
         NEW i \in DOMAIN r.orders, NEW k \in DOMAIN r.orders[i].subFills,
         NEW left \in Nat \ {0}, InputBefore(r, i, k) + left = r.amount,
         r.orders[i].subFills[k].input # 0
  PROVE  LET f == r.orders[i].subFills[k]
             filled == IF left < f.input THEN left ELSE f.input
             output == OutputBefore(r, i, k) + f.output * Truncate(filled, f.input)
         IN  /\ filled \in Nat /\ filled <= left /\ output \in Int
             /\ f.output * Truncate(filled, f.input) \in Int
             /\ IF filled < left
                THEN /\ InputBefore(r, i, k) + filled = InputBefore(r, i, k + 1)
                     /\ output = OutputBefore(r, i, k + 1)
                ELSE i = Len(r.orders) /\ output = FilledOutputOf(r)
<1> DEFINE f == r.orders[i].subFills[k]
           filled == IF left < f.input THEN left ELSE f.input
           a == InputBefore(r, i, k)
           b == OutputBefore(r, i, k)
           last == LastFill(r)
           n == Len(r.orders)
<1>1. /\ f \in SubFills(r) /\ a \in Nat /\ b \in Int
      /\ InputBefore(r, i, k + 1) = a + f.input
      /\ OutputBefore(r, i, k + 1) = b + f.output
      /\ \/ i = n /\ f = last /\ a = Inputs(r.orders) - f.input /\ b = OutputBeforeLast(r)
         \/ a + f.input <= Inputs(r.orders) - last.input
  BY SubFillBounds
<1>2. f.input \in Nat \ {0} /\ f.output \in Int
  <2>1. f.input \in Nat /\ f.output \in Int
    BY <1>1, RouteFacts
  <2> QED BY <2>1
<1>3. /\ Inputs(r.orders) \in Nat /\ last.input \in Nat /\ LeftForLast(r) \in 1..last.input
      /\ LeftForLast(r) = r.amount - (Inputs(r.orders) - last.input)
      /\ FilledOutputOf(r) = OutputBeforeLast(r)
                               + IF LeftForLast(r) < last.input THEN 0 ELSE last.output
      /\ r.amount \in Nat
  BY PathFacts, RouteFacts DEF LeftForLast, FilledOutputOf
<1>4. a + left = r.amount /\ filled = IF left < f.input THEN left ELSE f.input
  OBVIOUS
<1> HIDE DEF f, filled, a, b, last, n
<1>5. /\ filled \in 0..f.input /\ filled <= left /\ filled \in Nat
      /\ filled < f.input <=> left < f.input
  BY <1>2, <1>4
<1>6. Truncate(filled, f.input) = IF left < f.input THEN 0 ELSE 1
  BY <1>2, <1>5, CutShare
<1>7. CASE i = n /\ f = last /\ a = Inputs(r.orders) - f.input /\ b = OutputBeforeLast(r)
  <2>1. left = LeftForLast(r) /\ left <= f.input
    BY <1>1, <1>2, <1>3, <1>4, <1>7
  <2>2. filled = left
    BY <1>2, <1>4, <2>1
  <2>3. f.output * Truncate(filled, f.input) = IF left < f.input THEN 0 ELSE f.output
    BY <1>2, <1>6
  <2>4. b + f.output * Truncate(filled, f.input) = FilledOutputOf(r)
    BY <1>1, <1>2, <1>3, <1>7, <2>1, <2>3
  <2>5. f.output * Truncate(filled, f.input) \in Int
    BY <1>2, <2>3
  <2> QED BY <1>1, <1>5, <1>7, <2>2, <2>4, <2>5 DEF f, filled, a, b, n
<1>8. CASE a + f.input <= Inputs(r.orders) - last.input
  <2>1. f.input < left
    BY <1>1, <1>2, <1>3, <1>4, <1>8
  <2>2. filled = f.input
    BY <1>2, <1>4, <2>1
  <2>3. f.output * Truncate(filled, f.input) = f.output
    BY <1>2, <1>6, <2>1
  <2> QED BY <1>1, <1>2, <1>5, <2>1, <2>2, <2>3 DEF f, filled, a, b
<1> QED BY <1>1, <1>7, <1>8

-----------------------------------------------------------------------------
(* The inductive invariant *)

LEMMA SharesAreSums == \A f : Shares(f) = In!SumOf(f)
BY DEF Shares, FoldFunction, FoldFunctionOnSet, MapThenFoldSet,
       In!SumOf, In!FoldFunction, In!FoldFunctionOnSet, In!MapThenFoldSet

LEMMA FiniteIsFinite == \A S : IsFiniteSet(S) => In!IsFiniteSet(S)
BY DEF IsFiniteSet, In!IsFiniteSet

LEMMA FiniteSources ==
  ASSUME NEW r, IsRoute(r)
  PROVE  IsFiniteSet(Sources(r)) /\ In!IsFiniteSet(Sources(r))
<1>1. ASSUME r.kind = "path" PROVE IsFiniteSet(Sources(r))
  <2> DEFINE ids == DOMAIN r.source
             s == [id \in ids |-> r.source[id]]
  <2>1. IsFiniteSet(ids)
    <3>1. IsPathRoute(r)
      BY <1>1, RouteFacts
    <3> QED BY <3>1 DEF IsPathRoute
  <2>2. s \in Surjection(ids, Sources(r))
    BY <1>1 DEF Surjection, Sources
  <2> QED
    <3> HIDE DEF ids, s
    <3> QED BY <2>1, <2>2, FS_Surjection
<1>2. ASSUME r.kind # "path" PROVE IsFiniteSet(Sources(r))
  BY <1>2, FS_EmptySet DEF Sources
<1>3. IsFiniteSet(Sources(r))
  BY <1>1, <1>2
<1> QED BY <1>3, FiniteIsFinite

LEMMA EmptyFacts ==
  ASSUME NEW r, IsRoute(r)
  PROVE  /\ Info(EmptyResult(r)) = NoInfo /\ NoInfo \in Infos
         /\ EmptyResult(r).input = 0 /\ EmptyResult(r).output = 0 /\ EmptyResult(r).gas = 0
         /\ EmptyResult(r) \in Results(r)
         /\ Shares(EmptyResult(r).bySource) = 0
<1>1. EmptyResult(r).bySource = [s \in Sources(r) |-> 0]
  BY DEF EmptyResult
<1>2. Shares([s \in Sources(r) |-> 0]) = 0
  <2>1. In!IsFiniteSet(Sources(r))
    BY FiniteSources
  <2>2. [s \in Sources(r) |-> 0] \in [Sources(r) -> {0}]
    OBVIOUS
  <2>3. In!SumOf([s \in Sources(r) |-> 0]) = 0
    BY <2>1, <2>2, In!SumOfZeros
  <2> QED BY <2>3, SharesAreSums
<1>3. /\ EmptyResult(r).input = 0 /\ EmptyResult(r).output = 0 /\ EmptyResult(r).gas = 0
      /\ Info(EmptyResult(r)) = NoInfo /\ NoInfo \in Infos
      /\ EmptyResult(r) \in Results(r)
  BY DEF EmptyResult, Info, NoInfo, Infos, Results
<1> QED BY <1>1, <1>2, <1>3

\* The loops start at the first order of the route.
LEMMA StartFilling ==
  ASSUME IsRoute(route'), route'.kind = "path",
         order' = 1, sub' = 0, remaining' = route'.amount, result' = EmptyResult(route')
  PROVE  FillingOK'
<1>1. route'.amount \in Nat \ {0} /\ Len(route'.orders) \in Nat \ {0}
  BY RouteFacts
<1>2. CursorOK'
  BY <1>1 DEF CursorOK
<1>3. /\ InputBefore(route', 1, 0) = 0 /\ OutputBefore(route', 1, 0) = 0
      /\ GasBefore(route', 1, 0) = 0
  BY CursorMoves, GasMoves
<1>4. /\ result'.input = 0 /\ result'.output = 0 /\ result'.gas = 0
      /\ Shares(result'.bySource) = 0
  BY EmptyFacts
<1>5. ProgressOK'
  BY <1>1, <1>3, <1>4 DEF ProgressOK
<1> QED BY <1>1, <1>2, <1>4, <1>5 DEF FillingOK

LEMMA InvInit == QuoteInit => QuoteInv
<1> SUFFICES ASSUME QuoteInit PROVE QuoteInv
  OBVIOUS
<1>1. Sources(NoRoute) = {}
  BY DEF Sources, NoRoute
<1>2. result \in Results(route)
  BY <1>1 DEF QuoteInit, EmptyResult, Results
<1> QED BY <1>2 DEF QuoteInit, QuoteInv, Filling, NoInfo, Infos, OnlyEmptyFillsThrow, Whole

\* A path has a quote of its own.
LEMMA InfoTypes ==
  ASSUME NEW r, IsRoute(r), NEW s \in 0..Whole
  PROVE  /\ r.kind \in {"path", "twoHop"}
         /\ BestInfo(r) \in Infos /\ WorstInfo(r, s) \in Infos
         /\ BestInfo(r).output \in Nat \ {0}
         /\ BestInfo(r).input = r.amount /\ WorstInfo(r, s).input = r.amount
         /\ WorstInfo(r, s).output = Slip(r.side, BestInfo(r).output, s)
         /\ WorstInfo(r, s).gas = BestInfo(r).gas
<1>1. r.kind \in {"path", "twoHop"} /\ r.amount \in Nat
  BY DEF IsRoute
<1>2. BestInfo(r) \in Infos /\ BestInfo(r).output \in Nat \ {0} /\ BestInfo(r).input = r.amount
  <2>1. CASE r.kind = "path"
    BY <1>1, <2>1, PathFacts, GasMoves DEF BestInfo, Infos
  <2>2. CASE r.kind = "twoHop"
    BY <1>1, <2>2 DEF BestInfo, Infos, IsRoute
  <2> QED BY <1>1, <2>1, <2>2
<1>3. \A o \in Int : Slip(r.side, o, s) \in Int
  BY DEF Slip, Truncate, RoundUp, Whole
<1> QED BY <1>1, <1>2, <1>3 DEF WorstInfo, Infos

LEMMA ReceiveKeepsInv ==
  ASSUME QuoteInv, stage = "idle", NEW r, IsRoute(r), NEW s \in 0..Whole, Receive(r, s)
  PROVE  QuoteInv'
<1>1. /\ route' = r /\ slippage' = s /\ order' = 1 /\ sub' = 0 /\ slipped' = <<>>
      /\ remaining' = r.amount /\ result' = EmptyResult(r) /\ r.amount \in Nat
  BY RouteFacts DEF QuoteInv, Receive, IsRoute
<1>2. result' \in Results(route')
  BY <1>1, EmptyFacts
<1>3. CASE r.kind = "path"
  <2>1. stage' = "best" /\ best' = NoInfo /\ worst' = NoInfo
    BY <1>3 DEF QuoteInv, Receive
  <2>2. FillingOK'
    BY <1>1, <1>3, StartFilling
  <2> QED BY <1>1, <1>2, <2>1, <2>2, EmptyFacts DEF QuoteInv, Filling, OnlyEmptyFillsThrow
<1>4. CASE r.kind # "path"
  <2>1. /\ stage' = "slip" /\ best' = BestInfo(r) /\ worst' = WorstInfo(r, s)
    BY <1>4 DEF Receive, BestInfo, WorstInfo
  <2> QED BY <1>1, <1>2, <2>1, InfoTypes DEF QuoteInv, Filling, OnlyEmptyFillsThrow
<1> QED BY <1>3, <1>4

LEMMA EnterOrderKeepsInv ==
  ASSUME QuoteInv, EnterOrder
  PROVE  QuoteInv'
<1>1. /\ Filling /\ sub = 0 /\ order \in Nat \ {0} /\ remaining \in Nat /\ remaining > 0
      /\ order \in DOMAIN route.orders
      /\ FillingOK /\ IsRoute(route) /\ route.kind = "path"
  <2>1. /\ Filling /\ sub = 0 /\ order \in Nat \ {0} /\ remaining \in Nat
        /\ ~(order > Len(route.orders)) /\ ~(remaining <= 0)
        /\ FillingOK /\ IsRoute(route) /\ route.kind = "path"
    BY DEF EnterOrder, QuoteInv, AllOrdersFilled, Exhausted, Filling, FillingOK
  <2>2. route.orders \in Seq(Orders(route)) /\ Len(route.orders) \in Nat \ {0}
    BY <2>1, RouteFacts
  <2>3. order \in DOMAIN route.orders
    BY <2>1, <2>2
  <2> QED BY <2>1, <2>3
<1> DEFINE gas == route.gas[route.orders[order].id]
<1>2. /\ sub' = 1 /\ result' = [result EXCEPT !.gas = @ + gas]
      /\ UNCHANGED <<route, slippage, stage, order, remaining, best, worst, slipped>>
  BY DEF EnterOrder, CurrentOrder
<1>3. /\ gas \in Nat /\ GasBefore(route, order, 1) = GasBefore(route, order, 0) + gas
      /\ InputBefore(route, order, 1) = InputBefore(route, order, 0)
      /\ OutputBefore(route, order, 1) = OutputBefore(route, order, 0)
      /\ Len(route.orders[order].subFills) \in Nat \ {0}
  BY <1>1, GasMoves, CursorMoves, RouteFacts
<1> HIDE DEF gas
<1>4. result \in Results(route)
  BY DEF QuoteInv
<1>5. /\ result'.input = result.input /\ result'.output = result.output
      /\ result'.bySource = result.bySource /\ result'.gas = result.gas + gas
      /\ result' \in Results(route')
  BY <1>2, <1>3, <1>4 DEF Results
<1>6. CursorOK'
  BY <1>1, <1>2, <1>3 DEF FillingOK, CursorOK
<1>7. ProgressOK'
  BY <1>1, <1>2, <1>3, <1>5 DEF FillingOK, ProgressOK
<1>8. FillingOK'
  BY <1>2, <1>5, <1>6, <1>7, <1>1 DEF FillingOK
<1> QED BY <1>1, <1>2, <1>5, <1>8
        DEF QuoteInv, Filling, OnlyEmptyFillsThrow

LEMMA LeaveOrderKeepsInv ==
  ASSUME QuoteInv, LeaveOrder
  PROVE  QuoteInv'
<1>1. /\ Filling /\ sub # 0 /\ order \in Nat \ {0} /\ remaining \in Nat
      /\ FillingOK /\ IsRoute(route) /\ route.kind = "path"
      /\ order \in DOMAIN route.orders
      /\ sub \in 1..(Len(route.orders[order].subFills) + 1)
      /\ sub \notin DOMAIN route.orders[order].subFills \/ remaining <= 0
      /\ result \in Results(route)
  BY DEF LeaveOrder, QuoteInv, Exhausted, Filling, FillingOK, CursorOK, CurrentOrder
<1>2. /\ order' = order + 1 /\ sub' = 0
      /\ UNCHANGED <<route, slippage, stage, remaining, result, best, worst, slipped>>
  BY DEF LeaveOrder
<1>3. CursorOK'
  <2>1. DOMAIN route.orders = 1..Len(route.orders) /\ Len(route.orders) \in Nat
    BY <1>1, RouteFacts
  <2> QED BY <1>1, <1>2, <2>1 DEF CursorOK
<1>4. ProgressOK'
  <2>1. CASE remaining > 0
    <3>1. sub = Len(route.orders[order].subFills) + 1
      <4>1. /\ DOMAIN route.orders[order].subFills = 1..Len(route.orders[order].subFills)
            /\ Len(route.orders[order].subFills) \in Nat
        BY <1>1, RouteFacts
      <4> QED BY <1>1, <2>1, <4>1
    <3>2. /\ InputBefore(route, order, sub) = InputBefore(route, order + 1, 0)
          /\ OutputBefore(route, order, sub) = OutputBefore(route, order + 1, 0)
      BY <1>1, <3>1, CursorMoves
    <3>3. GasBefore(route, order, sub) = GasBefore(route, order + 1, 0)
      <4>1. sub \in Nat \ {0}
        BY <1>1
      <4> QED BY <1>1, <4>1, GasMoves
    <3> QED BY <1>1, <1>2, <2>1, <3>2, <3>3 DEF FillingOK, ProgressOK
  <2>2. CASE ~(remaining > 0)
    BY <1>1, <1>2, <2>2 DEF FillingOK, ProgressOK
  <2> QED BY <2>1, <2>2
<1>5. FillingOK'
  BY <1>1, <1>2, <1>3, <1>4 DEF FillingOK
<1> QED BY <1>1, <1>2, <1>5 DEF QuoteInv, Filling, OnlyEmptyFillsThrow

Raised(shares, from, d) == [shares EXCEPT ![from] = @ + d]

\* A sub-fill that is filled adds to the share of the source of its order.
LEMMA ShareRaised ==
  ASSUME NEW r, IsRoute(r), NEW shares \in [Sources(r) -> Nat],
         NEW from \in Sources(r), NEW d \in Nat
  PROVE  /\ Raised(shares, from, d) \in [Sources(r) -> Nat]
         /\ Shares(Raised(shares, from, d)) = Shares(shares) + d
<1>1. shares \in [Sources(r) -> Int] /\ d \in Int
  OBVIOUS
<1>2. In!SumOf([shares EXCEPT ![from] = @ + d]) = In!SumOf(shares) + d
  BY <1>1, FiniteSources, In!SumOfRaised
<1>3. [shares EXCEPT ![from] = @ + d] \in [Sources(r) -> Nat]
  OBVIOUS
<1> QED BY <1>2, <1>3, SharesAreSums DEF Raised

LEMMA FillSubKeepsInv ==
  ASSUME QuoteInv, FillSub
  PROVE  QuoteInv'
<1> DEFINE o == route.orders[order]
           f == o.subFills[sub]
           filled == IF remaining < f.input THEN remaining ELSE f.input
           share == Truncate(filled, f.input)
           from == route.source[o.id]
<1>1. /\ Filling /\ sub # 0 /\ order \in Nat \ {0} /\ remaining \in Nat \ {0}
      /\ FillingOK /\ IsRoute(route) /\ route.kind = "path"
      /\ order \in DOMAIN route.orders /\ sub \in DOMAIN o.subFills /\ sub \in Nat \ {0}
      /\ result \in Results(route)
  BY DEF FillSub, QuoteInv, Exhausted, Filling, FillingOK, CursorOK, CurrentOrder
<1>2. UNCHANGED <<route, slippage, order, best, worst, slipped>>
  BY DEF FillSub
<1>3. /\ result.input = InputBefore(route, order, sub)
      /\ result.output = OutputBefore(route, order, sub)
      /\ result.gas = GasBefore(route, order, sub)
      /\ result.input + remaining = route.amount
      /\ result.input = Shares(result.bySource)
  BY <1>1 DEF FillingOK, ProgressOK
<1>4. CASE f.input = 0 \/ o.input = 0 \/ o.output = 0
  <2>1. stage' = "threw" /\ UNCHANGED <<sub, remaining, result>>
    BY <1>4 DEF FillSub, CurrentOrder
  <2>2. f.input = 0
    <3>1. o.output # 0 /\ f \in SubFills(route) /\ f.input <= o.input
      BY <1>1, OrderFacts, SubFillBounds
    <3>2. f.input \in Nat
      BY <1>1, <3>1, RouteFacts
    <3> QED BY <1>4, <3>1, <3>2
  <2>3. OnlyEmptyFillsThrow'
    BY <1>1, <1>2, <2>2 DEF OnlyEmptyFillsThrow
  <2> QED BY <1>1, <1>2, <2>1, <2>3 DEF QuoteInv, Filling
<1>5. CASE ~(f.input = 0 \/ o.input = 0 \/ o.output = 0)
  <2>1. /\ sub' = sub + 1 /\ remaining' = remaining - filled /\ stage' = stage
        /\ result' = [result EXCEPT !.input  = @ + filled,
                                    !.output = @ + f.output * share,
                                    !.bySource[from] = @ + filled]
    BY <1>5 DEF FillSub, CurrentOrder, FilledInput, FilledOutput, AddFill
  <2>2. /\ filled \in Nat /\ filled <= remaining
        /\ result.output + f.output * share \in Int /\ f.output * share \in Int
        /\ IF filled < remaining
           THEN /\ result.input + filled = InputBefore(route, order, sub + 1)
                /\ result.output + f.output * share = OutputBefore(route, order, sub + 1)
           ELSE /\ order = Len(route.orders)
                /\ result.output + f.output * share = FilledOutputOf(route)
    <3>1. InputBefore(route, order, sub) + remaining = route.amount /\ f.input # 0
      BY <1>3, <1>5
    <3>2. /\ filled \in Nat /\ filled <= remaining
          /\ OutputBefore(route, order, sub) + f.output * share \in Int
          /\ f.output * share \in Int
          /\ IF filled < remaining
             THEN /\ InputBefore(route, order, sub) + filled = InputBefore(route, order, sub + 1)
                  /\ OutputBefore(route, order, sub) + f.output * share
                       = OutputBefore(route, order, sub + 1)
             ELSE /\ order = Len(route.orders)
                  /\ OutputBefore(route, order, sub) + f.output * share
                       = FilledOutputOf(route)
      BY <1>1, <3>1, FillMoves
    <3> HIDE DEF filled, share, f
    <3> QED BY <1>3, <3>2
  <2>3. from \in Sources(route) /\ o.id \in DOMAIN route.source
    BY <1>1, RouteFacts DEF Sources
  <2>4. /\ GasBefore(route, order, sub + 1) = GasBefore(route, order, sub)
        /\ order = Len(route.orders) => GasBefore(route, order, sub) = TotalGas(route)
    BY <1>1, GasMoves
  <2>5. Len(o.subFills) \in Nat /\ DOMAIN o.subFills = 1..Len(o.subFills)
    BY <1>1, RouteFacts
  <2> HIDE DEF o, f, filled, share, from
  <2>6. /\ Raised(result.bySource, from, filled) \in [Sources(route) -> Nat]
        /\ Shares(Raised(result.bySource, from, filled))
             = Shares(result.bySource) + filled
    <3>1. result.bySource \in [Sources(route) -> Nat] /\ IsRoute(route)
          /\ from \in Sources(route) /\ filled \in Nat
      BY <1>1, <2>2, <2>3 DEF Results
    <3> QED BY <3>1, ShareRaised
  <2>7. /\ result'.input = result.input + filled
        /\ result'.output = result.output + f.output * share
        /\ result'.gas = result.gas
        /\ result'.bySource = Raised(result.bySource, from, filled)
        /\ result' \in Results(route')
    <3>1. result' = [input |-> result.input + filled,
                     output |-> result.output + f.output * share,
                     gas |-> result.gas,
                     bySource |-> Raised(result.bySource, from, filled)]
      BY <1>1, <2>1 DEF Results, Raised
    <3>2. result.input \in Nat /\ result.gas \in Nat
      BY <1>1 DEF Results
    <3> QED BY <1>2, <2>2, <2>6, <3>1, <3>2 DEF Results
  <2>8. result.input \in Nat /\ remaining' \in Nat /\ result'.input + remaining' = route.amount
    <3>1. result.input \in Nat
      BY <1>1 DEF Results
    <3> QED BY <1>1, <1>3, <2>1, <2>2, <2>7, <3>1
  <2>9. CursorOK'
    <3>1. CursorOK
      BY <1>1 DEF FillingOK
    <3> QED BY <1>1, <1>2, <2>1, <2>5, <3>1 DEF CursorOK, o
  <2>10. ProgressOK'
    <3>1. CASE filled < remaining
      <4>1. remaining' > 0
        BY <1>1, <2>1, <2>2, <3>1
      <4> QED BY <1>2, <1>3, <2>1, <2>2, <2>4, <2>7, <3>1, <4>1 DEF ProgressOK
    <3>2. CASE ~(filled < remaining)
      <4>1. ~(remaining' > 0)
        BY <1>1, <2>1, <2>2, <3>2
      <4> QED BY <1>2, <1>3, <2>1, <2>2, <2>4, <2>7, <3>2, <4>1 DEF ProgressOK
    <3> QED BY <3>1, <3>2
  <2>11. Shares(result'.bySource) = result'.input
    BY <1>3, <2>6, <2>7
  <2>12. FillingOK'
    BY <1>1, <1>2, <2>8, <2>9, <2>10, <2>11 DEF FillingOK
  <2>13. sub' \in Nat
    BY <1>1, <2>1
  <2> QED BY <1>1, <1>2, <2>1, <2>7, <2>8, <2>12, <2>13
          DEF QuoteInv, Filling, OnlyEmptyFillsThrow
<1> QED BY <1>4, <1>5

\* The loops end with the whole amount filled.
LEMMA AllFilled ==
  ASSUME QuoteInv, Filling, sub = 0, AllOrdersFilled
  PROVE  Info(result) = BestInfo(route) /\ IsRoute(route) /\ route.kind = "path"
<1>1. /\ IsRoute(route) /\ route.kind = "path" /\ FillingOK /\ remaining \in Nat
      /\ result \in Results(route) /\ route.amount \in Nat
      /\ order \in 1..(Len(route.orders) + 1)
      /\ order > Len(route.orders) \/ remaining <= 0
  BY RouteFacts DEF QuoteInv, Filling, FillingOK, CursorOK, AllOrdersFilled, Exhausted, IsRoute
<1>2. result.input \in Nat /\ result.input + remaining = route.amount
  BY <1>1 DEF Results, FillingOK
<1>3. remaining = 0
  <2> SUFFICES ASSUME remaining > 0 PROVE FALSE
    BY <1>1
  <2>1. Len(route.orders) \in Nat
    BY <1>1, RouteFacts
  <2>2. order = Len(route.orders) + 1
    BY <1>1, <2>1
  <2>3. result.input = InputBefore(route, Len(route.orders) + 1, 0)
    BY <1>1, <2>2 DEF FillingOK, ProgressOK
  <2>4. result.input = Inputs(route.orders)
    BY <1>1, <2>3, CursorMoves
  <2>5. Inputs(route.orders) \in Nat /\ Inputs(route.orders) >= route.amount
    BY <1>1, PathFacts
  <2> QED BY <1>1, <1>2, <2>4, <2>5
<1>4. result.output = FilledOutputOf(route) /\ result.gas = TotalGas(route)
  BY <1>1, <1>3 DEF FillingOK, ProgressOK
<1>5. result.input = route.amount
  BY <1>1, <1>2, <1>3
<1> QED BY <1>1, <1>4, <1>5 DEF Info, BestInfo

LEMMA FinishBestKeepsInv ==
  ASSUME QuoteInv, FinishBest
  PROVE  QuoteInv'
<1>1. /\ stage = "best" /\ sub = 0 /\ AllOrdersFilled /\ Filling /\ worst = NoInfo
      /\ best' = Info(result) /\ stage' = "worst"
      /\ order' = 1 /\ remaining' = route.amount /\ result' = EmptyResult(route)
      /\ UNCHANGED <<route, slippage, sub, worst, slipped>>
      /\ slippage \in 0..Whole /\ worst \in Infos /\ slipped = <<>>
  BY DEF FinishBest, Filling, QuoteInv
<1>2. Info(result) = BestInfo(route) /\ IsRoute(route) /\ route.kind = "path"
  BY <1>1, AllFilled
<1>3. BestInfo(route) \in Infos /\ route.amount \in Nat
  BY <1>1, <1>2, InfoTypes, RouteFacts
<1>4. FillingOK'
  BY <1>1, <1>2, StartFilling
<1>5. EmptyResult(route) \in Results(route)
  BY <1>2, EmptyFacts
<1> QED BY <1>1, <1>2, <1>3, <1>4, <1>5 DEF QuoteInv, Filling, OnlyEmptyFillsThrow

LEMMA FinishWorstKeepsInv ==
  ASSUME QuoteInv, FinishWorst
  PROVE  QuoteInv'
<1>1. /\ stage = "worst" /\ sub = 0 /\ AllOrdersFilled /\ Filling /\ best = BestInfo(route)
      /\ worst' = [input  |-> result.input,
                    output |-> Slip(route.side, result.output, slippage),
                    gas    |-> TotalGas(route)]
      /\ stage' = "slip"
      /\ UNCHANGED <<route, slippage, order, sub, remaining, result, best, slipped>>
      /\ slippage \in 0..Whole /\ best \in Infos /\ slipped = <<>>
  BY DEF FinishWorst, Filling, QuoteInv
<1>2. Info(result) = BestInfo(route) /\ IsRoute(route) /\ route.kind = "path"
  BY <1>1, AllFilled
<1>3. worst' = WorstInfo(route, slippage)
  <2>1. /\ result.input = route.amount /\ result.output = FilledOutputOf(route)
    BY <1>2 DEF Info, BestInfo
  <2> QED BY <1>1, <1>2, <2>1 DEF WorstInfo, BestInfo
<1>4. WorstInfo(route, slippage) \in Infos
  BY <1>1, <1>2, InfoTypes
<1> QED BY <1>1, <1>2, <1>3, <1>4 DEF QuoteInv, Filling, OnlyEmptyFillsThrow

LEMMA SlipOrdersKeepsInv ==
  ASSUME QuoteInv, SlipOrders
  PROVE  QuoteInv'
<1>1. /\ stage = "slip" /\ IsRoute(route) /\ best = BestInfo(route)
      /\ worst = WorstInfo(route, slippage)
      /\ UNCHANGED <<route, slippage, order, sub, remaining, result, best, worst>>
      /\ slippage \in 0..Whole
  BY DEF SlipOrders, QuoteInv
<1>2. best.output # 0
  BY <1>1, InfoTypes
<1>3. /\ stage' = "quoted"
      /\ slipped' = [i \in DOMAIN OrderOutputs |-> SlipOrder(OrderOutputs[i])]
  BY <1>2 DEF SlipOrders
<1>4. slipped' = [i \in DOMAIN OrderOutputs |-> SlipOrder(OrderOutputs[i])]'
  BY <1>1, <1>3 DEF OrderOutputs, SlipOrder
<1> QED BY <1>1, <1>3, <1>4 DEF QuoteInv, Filling, OnlyEmptyFillsThrow

LEMMA StutterKeepsInv ==
  ASSUME QuoteInv, UNCHANGED quoteVars
  PROVE  QuoteInv'
BY DEF quoteVars, QuoteInv, Filling, FillingOK, CursorOK, ProgressOK, OnlyEmptyFillsThrow,
       OrderOutputs, SlipOrder

\* Every step of a quote keeps the invariant, whatever route it started from.
LEMMA StepKeepsInv ==
  ASSUME QuoteInv, QuoteStep
  PROVE  QuoteInv'
BY EnterOrderKeepsInv, FillSubKeepsInv, LeaveOrderKeepsInv, FinishBestKeepsInv,
   FinishWorstKeepsInv, SlipOrdersKeepsInv DEF QuoteStep

\* The inductive invariant of the quote.
THEOREM QuoteInvariant == QuoteSpec => []QuoteInv
<1>1. QuoteInit => QuoteInv
  BY InvInit
<1>2. QuoteInv /\ [QuoteNext]_quoteVars => QuoteInv'
  <2> SUFFICES ASSUME QuoteInv, [QuoteNext]_quoteVars PROVE QuoteInv'
    OBVIOUS
  <2>1. ASSUME stage = "idle", NEW r \in Routes, NEW s \in Slippages, Receive(r, s)
        PROVE  QuoteInv'
    <3>1. IsRoute(r) /\ s \in 0..Whole
      BY RoutesAssumption, SlippagesAssumption
    <3> QED BY <2>1, <3>1, ReceiveKeepsInv
  <2>2. CASE QuoteStep
    BY <2>2, StepKeepsInv
  <2>3. CASE UNCHANGED quoteVars
    BY <2>3, StutterKeepsInv
  <2> QED BY <2>1, <2>2, <2>3 DEF QuoteNext, QuoteDone
<1> QED BY <1>1, <1>2, PTL DEF QuoteSpec

-----------------------------------------------------------------------------
(* Quotients *)

\* Products with the same factor are in the order of the others.
LEMMA ProductUp ==
  ASSUME NEW a \in Int, NEW b \in Int, NEW c \in Nat, a <= b
  PROVE  a * c <= b * c
<1>1. (b - a) * c >= 0
  <2>1. b - a \in Nat
    OBVIOUS
  <2> QED BY <2>1
<1>2. (b - a) * c = b * c - a * c
  OBVIOUS
<1> QED BY <1>1, <1>2

LEMMA ProductDown ==
  ASSUME NEW a \in Int, NEW b \in Int, NEW c \in Nat \ {0}, a * c <= b * c
  PROVE  a <= b
<1> SUFFICES ASSUME b + 1 <= a PROVE FALSE
  OBVIOUS
<1>1. (b + 1) * c <= a * c
  BY ProductUp
<1>2. (b + 1) * c = b * c + c
  OBVIOUS
<1> QED BY <1>1, <1>2

\* A quotient is the last multiple that fits.
LEMMA QuotientBounds ==
  ASSUME NEW n \in Int, NEW d \in Nat \ {0}
  PROVE  /\ n \div d \in Int
         /\ (n \div d) * d <= n /\ n < (n \div d) * d + d
<1>1. d > 0 /\ d \in Int
  OBVIOUS
<1>2. n = d * (n \div d) + (n % d) /\ n % d \in 0..(d - 1) /\ n \div d \in Int
  BY <1>1
<1> DEFINE q == n \div d
           m == n % d
<1> HIDE DEF q, m
<1>3. d * q = q * d
  BY <1>2 DEF q
<1> QED BY <1>2, <1>3 DEF q, m

\* A share of at most one, cut to an integer, is no more than the whole.
LEMMA ScaleDown ==
  ASSUME NEW x \in Nat, NEW w \in Nat, NEW b \in Nat \ {0}, w <= b
  PROVE  Truncate(x * w, b) \in Nat /\ Truncate(x * w, b) <= x
<1>1. x * w \in Nat /\ x * w <= x * b
  <2>1. w * x <= b * x
    BY ProductUp
  <2> QED BY <2>1
<1> DEFINE n == x * w
           q == n \div b
<1>2. n \in Nat /\ q \in Int /\ q * b <= n /\ n < q * b + b
  BY <1>1, QuotientBounds
<1>3. Truncate(n, b) = q
  BY <1>1 DEF Truncate
<1> HIDE DEF n, q
<1>4. q * b <= x * b
  BY <1>1, <1>2 DEF n
<1>5. q <= x
  BY <1>2, <1>4, ProductDown
<1>6. q >= 0
  <2>1. 0 * b <= (q + 1) * b
    <3>1. (q + 1) * b = q * b + b /\ 0 * b = 0
      BY <1>2
    <3> QED BY <1>2, <3>1
  <2>2. 0 <= q + 1
    BY <1>2, <2>1, ProductDown
  <2>3. q # -1
    <3> SUFFICES ASSUME q = -1 PROVE FALSE
      OBVIOUS
    <3>1. q * b = -b
      OBVIOUS
    <3> QED BY <1>2, <3>1
  <2> QED BY <1>2, <2>2, <2>3
<1> QED BY <1>2, <1>3, <1>5, <1>6 DEF n

\* A share of at least one, rounded up, is no less than the whole.
LEMMA ScaleUp ==
  ASSUME NEW x \in Nat, NEW w \in Nat, NEW b \in Nat \ {0}, b <= w
  PROVE  RoundUp(x * w, b) \in Nat /\ RoundUp(x * w, b) >= x
<1>1. x * w \in Nat /\ x * b <= x * w
  <2>1. b * x <= w * x
    BY ProductUp
  <2> QED BY <2>1
<1> DEFINE n == x * w
           k == n + b - 1
           q == k \div b
<1>2. RoundUp(n, b) = q
  BY <1>1 DEF RoundUp
<1>3. k \in Int /\ k = n + b - 1 /\ n \in Nat
  BY <1>1
<1>4. q \in Int /\ k < q * b + b
  BY <1>3, QuotientBounds
<1> HIDE DEF q, k
<1>5. x * b <= q * b
  BY <1>1, <1>3, <1>4
<1>6. x <= q
  BY <1>4, <1>5, ProductDown
<1> QED BY <1>2, <1>4, <1>6

LEMMA SlipIsAgainst ==
  ASSUME NEW side \in {"Sell", "Buy"}, NEW output \in Nat, NEW s \in 0..Whole
  PROVE  /\ Slip(side, output, s) \in Nat
         /\ SlipsAgainst(side, output, Slip(side, output, s))
<1>1. /\ Whole \in Nat \ {0} /\ Whole - s \in Nat /\ Whole + s \in Nat
      /\ Whole - s <= Whole /\ Whole <= Whole + s
  BY DEF Whole
<1>2. CASE side = "Sell"
  BY <1>1, <1>2, ScaleDown DEF Slip, SlipsAgainst
<1>3. CASE side = "Buy"
  BY <1>1, <1>3, ScaleUp DEF Slip, SlipsAgainst
<1> QED BY <1>2, <1>3

-----------------------------------------------------------------------------
(* What the quote promises *)

LEMMA QuotedOutputs ==
  ASSUME NEW r, IsRoute(r), NEW s \in 0..Whole
  PROVE  /\ r.side \in {"Sell", "Buy"}
         /\ BestInfo(r).output \in Nat \ {0} /\ WorstInfo(r, s).output \in Nat
         /\ SlipsAgainst(r.side, BestInfo(r).output, WorstInfo(r, s).output)
<1>1. r.side \in {"Sell", "Buy"}
  BY DEF IsRoute
<1> QED BY <1>1, InfoTypes, SlipIsAgainst

\* The orders of a route slip like its output.
LEMMA OrdersSlipAgainst ==
  ASSUME IsRoute(route), slippage \in 0..Whole,
         best = BestInfo(route), worst = WorstInfo(route, slippage)
  PROVE  \A i \in DOMAIN OrderOutputs :
           /\ SlipOrder(OrderOutputs[i]) \in Int
           /\ SlipsAgainst(route.side, OrderOutputs[i], SlipOrder(OrderOutputs[i]))
<1>1. /\ route.side \in {"Sell", "Buy"}
      /\ best.output \in Nat \ {0} /\ worst.output \in Nat
      /\ SlipsAgainst(route.side, best.output, worst.output)
  BY QuotedOutputs
<1>2. ASSUME NEW i \in DOMAIN OrderOutputs PROVE OrderOutputs[i] \in Nat
  <2>1. CASE route.kind = "path"
    <3>1. OrderOutputs = [j \in DOMAIN route.orders |-> route.orders[j].output]
      BY <2>1 DEF OrderOutputs
    <3>2. i \in DOMAIN route.orders /\ OrderOutputs[i] = route.orders[i].output
      BY <3>1
    <3> QED BY <2>1, <3>2, OrderFacts
  <2>2. CASE route.kind # "path"
    <3>1. OrderOutputs = <<0, route.output>> /\ route.output \in Nat
      BY <2>2 DEF OrderOutputs, IsRoute
    <3> QED BY <3>1
  <2> QED BY <2>1, <2>2
<1>3. ASSUME NEW x \in Nat
      PROVE  SlipOrder(x) \in Int /\ SlipsAgainst(route.side, x, SlipOrder(x))
  <2>1. CASE worst.output = best.output
    BY <1>1, <2>1 DEF SlipOrder, SlipsAgainst
  <2>2. CASE worst.output # best.output /\ route.side = "Sell"
    <3>1. worst.output <= best.output
      BY <1>1, <2>2 DEF SlipsAgainst
    <3>2. SlipOrder(x) = Truncate(x * worst.output, best.output)
      BY <2>2 DEF SlipOrder
    <3>3. Truncate(x * worst.output, best.output) \in Nat
          /\ Truncate(x * worst.output, best.output) <= x
      BY <1>1, <3>1, ScaleDown
    <3> QED BY <2>2, <3>2, <3>3 DEF SlipsAgainst
  <2>3. CASE worst.output # best.output /\ route.side = "Buy"
    <3>1. best.output <= worst.output
      BY <1>1, <2>3 DEF SlipsAgainst
    <3>2. SlipOrder(x) = RoundUp(x * worst.output, best.output)
      BY <2>3 DEF SlipOrder
    <3>3. RoundUp(x * worst.output, best.output) \in Nat
          /\ RoundUp(x * worst.output, best.output) >= x
      BY <1>1, <3>1, ScaleUp
    <3> QED BY <2>3, <3>2, <3>3 DEF SlipsAgainst
  <2> QED BY <1>1, <2>1, <2>2, <2>3
<1> QED BY <1>2, <1>3

LEMMA InvWorstIsNoBetter == QuoteInv => WorstIsNoBetter
<1> SUFFICES ASSUME QuoteInv PROVE WorstIsNoBetter
  OBVIOUS
<1>1. ASSUME stage \in {"slip", "quoted"}
      PROVE  /\ IsRoute(route) /\ slippage \in 0..Whole
             /\ best = BestInfo(route) /\ worst = WorstInfo(route, slippage)
  BY <1>1 DEF QuoteInv
<1>2. ASSUME stage \in {"slip", "quoted"}
      PROVE  SlipsAgainst(route.side, best.output, worst.output) /\ worst.gas >= best.gas
  <2>1. best.gas \in Nat
    BY DEF QuoteInv, Infos
  <2> QED BY <1>1, <1>2, <2>1, QuotedOutputs, InfoTypes
<1>3. ASSUME stage = "quoted", NEW i \in DOMAIN slipped
      PROVE  SlipsAgainst(route.side, OrderOutputs[i], slipped[i])
  <2>1. slipped = [j \in DOMAIN OrderOutputs |-> SlipOrder(OrderOutputs[j])]
    BY <1>3 DEF QuoteInv
  <2>2. i \in DOMAIN OrderOutputs /\ slipped[i] = SlipOrder(OrderOutputs[i])
    BY <1>3, <2>1
  <2> QED BY <1>1, <1>3, <2>2, OrdersSlipAgainst
<1> QED BY <1>2, <1>3 DEF WorstIsNoBetter

LEMMA InvQuoteWithinLastFill == QuoteInv => QuoteWithinLastFill
<1> SUFFICES ASSUME QuoteInv, stage \in {"slip", "quoted"}, route.kind = "path"
             PROVE  LET miss == route.num - best.output * route.den
                        last == LastFill(route).output * route.den
                    IN  (0 <= miss /\ miss <= last) \/ (last <= miss /\ miss <= 0)
  BY DEF QuoteWithinLastFill
<1> DEFINE f == LastFill(route)
           b == OutputBeforeLast(route)
           left == LeftForLast(route)
           whole == f.output * route.den
           miss == route.num - best.output * route.den
<1>1. IsRoute(route) /\ best.output = b + IF left < f.input THEN 0 ELSE f.output
  BY DEF QuoteInv, BestInfo, FilledOutputOf
<1>2. /\ f.input \in Nat \ {0} /\ f.output \in Int /\ b \in Int /\ left \in 1..f.input
      /\ b = Outputs(route.orders) - f.output /\ Outputs(route.orders) \in Int
  <2>1. /\ f.input \in 1..route.amount /\ f.output \in Int /\ b \in Int /\ left \in 1..f.input
        /\ b = Outputs(route.orders) - f.output /\ Outputs(route.orders) \in Int
    BY <1>1, PathFacts DEF OutputBeforeLast
  <2>2. f.input \in Nat \ {0}
    BY <1>1, <2>1, RouteFacts
  <2> QED BY <2>1, <2>2
<1>3. route.num \in Int /\ route.den \in Nat \ {0} /\ IsOutputOfPath(route)
  BY <1>1, RouteFacts DEF IsPathRoute
<1>4. IF f.input > left
      THEN route.num * f.input = route.den * (b * f.input + f.output * left)
      ELSE route.num = route.den * Outputs(route.orders)
  BY <1>3 DEF IsOutputOfPath
<1>5. whole = f.output * route.den /\ miss = route.num - best.output * route.den
  OBVIOUS
<1> HIDE DEF f, b, left, whole, miss
<1>6. CASE f.input > left
  <2>1. best.output = b /\ miss \in Int /\ whole \in Int
    BY <1>1, <1>2, <1>3, <1>5, <1>6
  <2>2. miss * f.input = whole * left
    <3>1. miss * f.input = route.num * f.input - b * route.den * f.input
      BY <1>2, <1>3, <1>5, <2>1
    <3>2. route.den * (b * f.input + f.output * left)
            = b * route.den * f.input + f.output * route.den * left
      BY <1>2, <1>3
    <3>3. whole * left = f.output * route.den * left
      BY <1>5
    <3>4. /\ b * route.den * f.input \in Int /\ f.output * route.den * left \in Int
          /\ route.num * f.input \in Int
      BY <1>2, <1>3
    <3> QED BY <1>4, <1>6, <3>1, <3>2, <3>3, <3>4
  <2>3. CASE whole >= 0
    <3>1. left * whole <= f.input * whole /\ 0 * left <= whole * left
      BY <1>2, <2>1, <2>3, ProductUp
    <3>2. miss * f.input <= whole * f.input /\ 0 * f.input <= miss * f.input
      BY <1>2, <2>1, <2>2, <3>1
    <3>3. miss <= whole /\ 0 <= miss
      BY <1>2, <2>1, <3>2, ProductDown
    <3> QED BY <3>3 DEF f, miss, whole
  <2>4. CASE whole < 0
    <3>1. left * (-whole) <= f.input * (-whole) /\ whole * left <= 0 * left
      <4>1. -whole \in Nat
        BY <2>1, <2>4
      <4> QED BY <1>2, <2>1, <2>4, <4>1, ProductUp
    <3>2. whole * f.input <= miss * f.input /\ miss * f.input <= 0 * f.input
      BY <1>2, <2>1, <2>2, <3>1
    <3>3. whole <= miss /\ miss <= 0
      BY <1>2, <2>1, <3>2, ProductDown
    <3> QED BY <3>3 DEF f, miss, whole
  <2> QED BY <2>1, <2>3, <2>4
<1>7. CASE ~(f.input > left)
  <2>1. best.output = Outputs(route.orders)
    BY <1>1, <1>2, <1>7
  <2>2. miss = 0 /\ whole \in Int
    BY <1>2, <1>3, <1>4, <1>5, <1>7, <2>1
  <2> QED BY <2>2 DEF f, miss, whole
<1> QED BY <1>6, <1>7

LEMMA InvSlippedType == QuoteInv => slipped \in Seq(Int)
<1> SUFFICES ASSUME QuoteInv PROVE slipped \in Seq(Int)
  OBVIOUS
<1>1. CASE stage # "quoted"
  BY <1>1 DEF QuoteInv
<1>2. CASE stage = "quoted"
  <2>1. /\ IsRoute(route) /\ slippage \in 0..Whole
        /\ best = BestInfo(route) /\ worst = WorstInfo(route, slippage)
        /\ slipped = [j \in DOMAIN OrderOutputs |-> SlipOrder(OrderOutputs[j])]
    BY <1>2 DEF QuoteInv
  <2>2. \E n \in Nat : DOMAIN OrderOutputs = 1..n
    <3>1. CASE route.kind = "path"
      BY <2>1, <3>1, RouteFacts DEF OrderOutputs
    <3>2. CASE route.kind # "path"
      BY <3>2 DEF OrderOutputs
    <3> QED BY <3>1, <3>2
  <2>3. PICK n \in Nat : DOMAIN OrderOutputs = 1..n
    BY <2>2
  <2>4. \A j \in 1..n : SlipOrder(OrderOutputs[j]) \in Int
    BY <2>1, <2>3, OrdersSlipAgainst
  <2>5. slipped \in [1..n -> Int]
    BY <2>1, <2>3, <2>4
  <2> QED BY <2>5
<1> QED BY <1>1, <1>2

\* The variables of the quote hold what their declarations say.
THEOREM QuoteTypes == QuoteSpec => []QuoteTypeOK
<1> DEFINE FromRoutes == stage # "idle" => route \in Routes
<1>1. QuoteInit => FromRoutes
  BY DEF QuoteInit
<1>2. FromRoutes /\ [QuoteNext]_quoteVars => FromRoutes'
  BY DEF QuoteNext, QuoteStep, QuoteDone, quoteVars, Receive, EnterOrder, FillSub, LeaveOrder,
         FinishBest, FinishWorst, SlipOrders, Filling
<1>3. QuoteInv /\ FromRoutes => QuoteTypeOK
  BY InvSlippedType DEF QuoteInv, QuoteTypeOK
<1> QED BY <1>1, <1>2, <1>3, QuoteInvariant, PTL DEF QuoteSpec

\* Filling neither loses nor invents input.
THEOREM InputIsConserved == QuoteSpec => []InputConserved
<1>1. QuoteInv => InputConserved
  BY DEF QuoteInv, FillingOK, InputConserved
<1> QED BY <1>1, QuoteInvariant, PTL

\* Every route is quoted for exactly the amount of its order.
THEOREM WholeAmountQuoted == QuoteSpec => []QuotesWholeAmount
<1>1. QuoteInv => QuotesWholeAmount
  <2> SUFFICES ASSUME QuoteInv, stage \in {"slip", "quoted"}
               PROVE  best.input = route.amount /\ worst.input = route.amount
    BY DEF QuotesWholeAmount
  <2>1. /\ IsRoute(route) /\ slippage \in 0..Whole
        /\ best = BestInfo(route) /\ worst = WorstInfo(route, slippage)
    BY DEF QuoteInv
  <2> QED BY <2>1, InfoTypes
<1> QED BY <1>1, QuoteInvariant, PTL

\* Slippage never works for the taker, neither in the quote nor in an order.
THEOREM SlippageIsAgainst == QuoteSpec => []WorstIsNoBetter
BY InvWorstIsNoBetter, QuoteInvariant, PTL

\* The quote misses the output of its route by its last fill at most.
THEOREM QuoteMissesLastFill == QuoteSpec => []QuoteWithinLastFill
BY InvQuoteWithinLastFill, QuoteInvariant, PTL

\* The simulation divides by zero only for a sub-fill without input.
THEOREM OnlyEmptyFills == QuoteSpec => []OnlyEmptyFillsThrow
<1>1. QuoteInv => OnlyEmptyFillsThrow
  BY DEF QuoteInv
<1> QED BY <1>1, QuoteInvariant, PTL
=============================================================================
