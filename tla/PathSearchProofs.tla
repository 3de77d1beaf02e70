-------------------------- MODULE PathSearchProofs --------------------------
(***************************************************************************)
(* Proofs about PathSearch, for every set of markets, every number of      *)
(* groups and every budget.                                                *)
(***************************************************************************)
EXTENDS BestMixture, TLAPS

\* The operators the folds of the search repeat; the market is the one searched.
AddFillHere(z, f) == AddFillSize(market, z, f)

ExtendHere(mixtures, f) == Extended(market, pool, mixtures)

Size  == INSTANCE FoldFacts WITH Op <- AddFillHere, Base <- EmptySize
In    == INSTANCE FoldFacts WITH Op <- AddInput, Base <- 0
Out   == INSTANCE FoldFacts WITH Op <- AddOutput, Base <- 0
Order == INSTANCE FoldFacts WITH Op <- CollapseFill, Base <- <<>>
Power == INSTANCE FoldFacts WITH Op <- Double, Base <- 1
Mix   == INSTANCE FoldFacts WITH Op <- ExtendHere, Base <- {EmptyPath}

LEMMA SearchFolds ==
  /\ \A s : CreatePath(market, s).size = Size!Fold(s)
  /\ \A s : TotalInput(s) = In!Fold(s)
  /\ \A s : TotalOutput(s) = Out!Fold(s)
  /\ \A s : Collapse(s) = Order!Fold(s)
  /\ \A n : Power2(n) = Power!Fold([i \in 1..n |-> i])
  /\ MixturesOf(market, pool) = Mix!Fold(pool)
<1>1. \A s : CreatePath(market, s).size = Size!Fold(s)
  BY DEF CreatePath, AddFillHere, FoldLeft, MapThenFoldSet, Max,
         Size!Fold, Size!FoldLeft, Size!MapThenFoldSet, Size!Max
<1>2. \A s : TotalInput(s) = In!Fold(s)
  BY DEF TotalInput, FoldLeft, MapThenFoldSet, Max,
         In!Fold, In!FoldLeft, In!MapThenFoldSet, In!Max
<1>3. \A s : TotalOutput(s) = Out!Fold(s)
  BY DEF TotalOutput, FoldLeft, MapThenFoldSet, Max,
         Out!Fold, Out!FoldLeft, Out!MapThenFoldSet, Out!Max
<1>4. \A s : Collapse(s) = Order!Fold(s)
  BY DEF Collapse, FoldLeft, MapThenFoldSet, Max,
         Order!Fold, Order!FoldLeft, Order!MapThenFoldSet, Order!Max
<1>5. \A n : Power2(n) = Power!Fold([i \in 1..n |-> i])
  BY DEF Power2, FoldLeft, MapThenFoldSet, Max,
         Power!Fold, Power!FoldLeft, Power!MapThenFoldSet, Power!Max
<1>6. MixturesOf(market, pool) = Mix!Fold(pool)
  BY DEF MixturesOf, ExtendHere, FoldLeft, MapThenFoldSet, Max,
         Mix!Fold, Mix!FoldLeft, Mix!MapThenFoldSet, Mix!Max
<1> QED BY <1>1, <1>2, <1>3, <1>4, <1>5, <1>6

\* A sequence over a set is one over any larger set.
LEMMA SeqMonotonic ==
  ASSUME NEW S, NEW T, S \subseteq T, NEW s \in Seq(S)
  PROVE  s \in Seq(T)
<1>1. s \in [1..Len(s) -> S] /\ Len(s) \in Nat
  OBVIOUS
<1>2. s \in [1..Len(s) -> T]
  BY <1>1
<1> QED BY <1>1, <1>2

-----------------------------------------------------------------------------
(* Chains and paths *)

\* The fills of a group are valid as a path of their own, and name the group.
LEMMA ChainFacts ==
  ASSUME NEW m \in Markets, NEW id \in Groups
  PROVE  /\ m.fills[id] \in Seq(Fill)
         /\ \A i \in DOMAIN m.fills[id] : m.fills[id][i].id = id
         /\ IsValid(m.fills[id])
<1> DEFINE fills == m.fills[id]
<1>1. IsChain(m, id, fills)
  BY MarketsAssumption
<1> DEFINE R == [id : {id}, index : Nat, input : Nat, output : Int, adjusted : Int]
<1>2. fills \in Seq(R) /\ \A i \in DOMAIN fills : fills[i].index = i - 1
  BY <1>1 DEF IsChain
<1>21. R \subseteq Fill /\ \A f \in R : f.id = id
  BY DEF Fill
<1> HIDE DEF fills, R
<1>3. fills \in Seq(Fill)
  BY <1>2, <1>21, SeqMonotonic
<1>4. \A i \in DOMAIN fills : fills[i].id = id
  BY <1>2, <1>21
<1>5. IsValid(fills)
  <2>1. \A i \in DOMAIN fills :
          HasParent(fills[i]) => i # 1 /\ IsParentOf(fills[i - 1], fills[i])
    BY <1>2, <1>4 DEF HasParent, IsParentOf
  <2>2. \A i, j \in DOMAIN fills : fills[i] = fills[j] => i = j
    BY <1>2
  <2> QED BY <2>1, <2>2 DEF IsValid
<1> QED BY <1>3, <1>4, <1>5 DEF fills

\* Appending an unused fill that may follow keeps a path valid.
LEMMA AppendIsValid ==
  ASSUME NEW p, p.fills \in Seq(Fill), IsValid(p.fills),
         NEW f \in Fill, IsValidNextFill(p, f),
         \A i \in DOMAIN p.fills : p.fills[i] # f
  PROVE  IsValid(Append(p.fills, f))
<1> DEFINE fills == p.fills
           longer == Append(fills, f)
<1>1. /\ fills \in Seq(Fill)
      /\ \A i \in DOMAIN fills : fills[i] # f
      /\ \A i \in DOMAIN fills :
           HasParent(fills[i]) => i # 1 /\ IsParentOf(fills[i - 1], fills[i])
      /\ \A i, j \in DOMAIN fills : fills[i] = fills[j] => i = j
      /\ HasParent(f) => fills # <<>> /\ IsParentOf(fills[Len(fills)], f)
  BY DEF IsValid, IsValidNextFill
<1> HIDE DEF fills
<1>2. /\ Len(fills) \in Nat
      /\ DOMAIN fills = 1..Len(fills)
      /\ DOMAIN longer = 1..(Len(fills) + 1)
      /\ \A i \in 1..Len(fills) : longer[i] = fills[i]
      /\ longer[Len(fills) + 1] = f
      /\ fills # <<>> => Len(fills) > 0
  BY <1>1
<1> HIDE DEF longer
<1>3. \A i \in DOMAIN longer :
        HasParent(longer[i]) => i # 1 /\ IsParentOf(longer[i - 1], longer[i])
  <2> SUFFICES ASSUME NEW i \in DOMAIN longer, HasParent(longer[i])
               PROVE  i # 1 /\ IsParentOf(longer[i - 1], longer[i])
    OBVIOUS
  <2>1. CASE i = Len(fills) + 1
    BY <1>1, <1>2, <2>1
  <2>2. CASE i # Len(fills) + 1
    <3>1. i \in 1..Len(fills) /\ longer[i] = fills[i]
      BY <1>2, <2>2
    <3>2. i # 1 /\ IsParentOf(fills[i - 1], fills[i])
      BY <1>1, <1>2, <3>1
    <3>3. longer[i - 1] = fills[i - 1]
      BY <1>2, <3>1, <3>2
    <3> QED BY <3>1, <3>2, <3>3
  <2> QED BY <2>1, <2>2
<1>4. \A i, j \in DOMAIN longer : longer[i] = longer[j] => i = j
  BY <1>1, <1>2
<1> QED BY <1>3, <1>4 DEF IsValid, longer, fills

LEMMA PositiveProduct ==
  ASSUME NEW a \in Nat \ {0}, NEW b \in Nat \ {0}
  PROVE  a * b \in Nat \ {0}
OBVIOUS

\* Adding a fill keeps the size within the amount.
LEMMA AddFillSizeType ==
  ASSUME NEW m, m.amount \in Nat, NEW z \in Sizes(m.amount), NEW f \in Fill
  PROVE  AddFillSize(m, z, f) \in Sizes(m.amount)
<1> DEFINE left == m.amount - z.input
<1>1. /\ z.input \in Nat /\ z.input <= m.amount
      /\ z.num \in Int /\ z.adj \in Int /\ z.den \in Nat \ {0}
      /\ f.input \in Nat /\ f.output \in Int /\ f.adjusted \in Int
      /\ left \in Nat
  BY DEF Sizes, Fill
<1>2. CASE f.input > left
  <2>1. f.input \in Nat \ {0}
    BY <1>1, <1>2
  <2>2. z.den * f.input \in Nat \ {0}
    BY <1>1, <2>1, PositiveProduct
  <2>3. z.num * f.input + f.output * left * z.den \in Int
    BY <1>1
  <2>4. (z.adj + (f.adjusted - f.output) * z.den) * f.input
          + f.output * left * z.den \in Int
    BY <1>1
  <2> QED BY <1>2, <2>2, <2>3, <2>4 DEF AddFillSize, Sizes
<1>3. CASE ~(f.input > left)
  <2>1. z.input + f.input \in 0..m.amount
    BY <1>1, <1>3
  <2>2. z.num + f.output * z.den \in Int /\ z.adj + f.adjusted * z.den \in Int
    BY <1>1
  <2> QED BY <1>1, <1>3, <2>1, <2>2 DEF AddFillSize, Sizes
<1> QED BY <1>2, <1>3

LEMMA CreatedSizeType ==
  ASSUME market.amount \in Nat, NEW s \in Seq(Fill)
  PROVE  CreatePath(market, s).size \in Sizes(market.amount)
<1>1. EmptySize \in Sizes(market.amount)
  BY DEF EmptySize, Sizes
<1>2. \A z \in Sizes(market.amount), f \in Fill : AddFillHere(z, f) \in Sizes(market.amount)
  BY AddFillSizeType DEF AddFillHere
<1> QED BY <1>1, <1>2, SearchFolds, Size!FoldType

LEMMA SourcePathType ==
  ASSUME market \in Markets, NEW id \in Groups
  PROVE  /\ SourcePath(market, id).fills = market.fills[id]
         /\ SourcePath(market, id) \in Path
<1>1. market.fills[id] \in Seq(Fill) /\ market.amount \in Nat
  BY ChainFacts, MarketsAssumption
<1>2. CreatePath(market, market.fills[id]).size \in Sizes(market.amount)
  BY <1>1, CreatedSizeType
<1> QED BY <1>1, <1>2 DEF SourcePath, CreatePath, Path

LEMMA EmptyPathType ==
  ASSUME NEW amount \in Nat
  PROVE  /\ EmptyPath \in [fills : Seq(Fill), size : Sizes(amount)]
         /\ EmptyPath.fills = <<>>
         /\ IsValid(<<>>)
BY DEF EmptyPath, EmptySize, Sizes, IsValid

LEMMA GroupsOfReduced ==
  ASSUME NEW m \in Markets
  PROVE  ReducePaths(m, LiveGroups(m)) \subseteq Groups
BY DEF ReducePaths, LiveGroups

-----------------------------------------------------------------------------
(* The inductive invariant *)

LEMMA InitSearchInv == Init => SearchInv
<1> SUFFICES ASSUME Init PROVE SearchInv
  OBVIOUS
<1>1. market.amount \in Nat
  BY MarketsAssumption DEF Init
<1>2. best \in Path /\ best.fills = <<>> /\ IsValid(best.fills)
  BY <1>1, EmptyPathType DEF Init, Path
<1> QED BY <1>2 DEF Init, SearchInv, TypeOK, BestOK, NoResult, Result, OutcomeKinds

LEMMA BuildPathsInv == SearchInv /\ BuildPaths => SearchInv'
<1> SUFFICES ASSUME SearchInv, BuildPaths PROVE SearchInv'
  OBVIOUS
<1> USE DEF SearchInv, TypeOK
<1>1. stack = <<>> /\ stack' = <<>> /\ pool' = pool /\ market' = market
  BY DEF BuildPaths
<1>2. UNCHANGED <<round, steps>>
  BY DEF BuildPaths
<1> DEFINE ids == ReducePaths(market, LiveGroups(market))
<1>3. ids \subseteq Groups
  BY GroupsOfReduced
<1>4. CASE /\ phase' = "done"
           /\ outcome' = Result("TypeError", <<>>)
           /\ UNCHANGED <<pending, rates, best>>
  BY <1>1, <1>2, <1>4 DEF BestOK, Path, Result, OutcomeKinds
<1>5. CASE \E first \in ids :
             /\ best' = SourcePath(market, first)
             /\ pending' = ids \ {first}
             /\ phase' = "mix"
             /\ UNCHANGED outcome
  <2>1. PICK first \in ids : /\ best' = SourcePath(market, first)
                            /\ pending' = ids \ {first}
                            /\ phase' = "mix"
                            /\ UNCHANGED outcome
    BY <1>5
  <2>2. first \in Groups
    BY <1>3
  <2>3. best' \in Path /\ best'.fills = market.fills[first]
    BY <2>1, <2>2, SourcePathType DEF Path
  <2>4. BestOK'
    BY <2>1, <2>2, <2>3, ChainFacts DEF BestOK
  <2> QED BY <1>1, <1>2, <1>3, <2>1, <2>3, <2>4 DEF Path
<1> QED BY <1>4, <1>5 DEF BuildPaths

\* The two paths of a mix have no fill in common: the best path uses only groups
\* that are not pending, the other one a group that still was.
LEMMA StartMixInv == SearchInv /\ StartMix => SearchInv'
<1> SUFFICES ASSUME SearchInv, StartMix PROVE SearchInv'
  OBVIOUS
<1> USE DEF SearchInv, TypeOK
<1>1. PICK s \in pending : /\ pending' = pending \ {s}
                          /\ pool' = best.fills \o SourcePath(market, s).fills
  BY DEF StartMix
<1>2. /\ stack' = <<Frame(EmptyPath, DOMAIN pool')>>
      /\ steps' = 1 /\ phase' = "walk"
      /\ best' = Better(EmptyPath, best)
      /\ UNCHANGED <<market, rates, round, outcome>>
  BY DEF StartMix
<1>3. s \in Groups /\ market \in Markets /\ market.amount \in Nat
  BY MarketsAssumption
<1> DEFINE a == best.fills
           b == market.fills[s]
<1>4. /\ pool' = a \o b
      /\ a \in Seq(Fill) /\ b \in Seq(Fill)
      /\ \A i \in DOMAIN b : b[i].id = s
      /\ \A i \in DOMAIN a : a[i].id \notin pending
      /\ \A i, j \in DOMAIN a : a[i] = a[j] => i = j
      /\ \A i, j \in DOMAIN b : b[i] = b[j] => i = j
  BY <1>1, <1>3, SourcePathType, ChainFacts DEF BestOK, Path, IsValid
<1>5. pool' \in Seq(Fill)
  BY <1>4
<1>6. PoolOK'
  <2> HIDE DEF a, b
  <2>1. /\ Len(a) \in Nat /\ Len(b) \in Nat
        /\ DOMAIN a = 1..Len(a) /\ DOMAIN b = 1..Len(b)
        /\ DOMAIN pool' = 1..(Len(a) + Len(b))
        /\ \A k \in DOMAIN pool' :
             pool'[k] = IF k <= Len(a) THEN a[k] ELSE b[k - Len(a)]
    BY <1>4
  <2>2. \A k \in DOMAIN pool' : pool'[k].id \notin pending'
    BY <1>1, <1>4, <2>1
  <2>3. \A j, k \in DOMAIN pool' : pool'[j] = pool'[k] => j = k
    <3> SUFFICES ASSUME NEW j \in DOMAIN pool', NEW k \in DOMAIN pool',
                        pool'[j] = pool'[k]
                 PROVE  j = k
      OBVIOUS
    <3>1. CASE j <= Len(a) /\ k <= Len(a)
      BY <1>4, <2>1, <3>1
    <3>2. CASE j > Len(a) /\ k > Len(a)
      <4>1. j - Len(a) \in DOMAIN b /\ k - Len(a) \in DOMAIN b
        BY <2>1, <3>2
      <4>2. b[j - Len(a)] = b[k - Len(a)]
        BY <2>1, <3>2
      <4>3. j - Len(a) = k - Len(a)
        BY <1>4, <4>1, <4>2
      <4> QED BY <2>1, <4>3
    <3>3. \A l \in DOMAIN pool' : (l <= Len(a)) <=> (pool'[l].id \notin pending)
      <4> SUFFICES ASSUME NEW l \in DOMAIN pool'
                   PROVE  (l <= Len(a)) <=> (pool'[l].id \notin pending)
        OBVIOUS
      <4>1. CASE l <= Len(a)
        BY <1>4, <2>1, <4>1
      <4>2. CASE l > Len(a)
        <5>1. l - Len(a) \in DOMAIN b /\ pool'[l] = b[l - Len(a)]
          BY <2>1, <4>2
        <5> QED BY <1>1, <1>4, <4>2, <5>1, <2>1
      <4> QED BY <2>1, <4>1, <4>2
    <3>4. CASE (j <= Len(a)) # (k <= Len(a))
      BY <3>3, <3>4
    <3> QED BY <2>1, <3>1, <3>2, <3>3, <3>4
  <2> QED BY <2>2, <2>3 DEF PoolOK
<1>7. EmptyPath \in Path /\ EmptyPath.fills = <<>> /\ IsValid(<<>>)
  BY <1>3, EmptyPathType DEF Path
<1>8. best' \in Path /\ BestOK'
  BY <1>1, <1>2, <1>7 DEF Better, BestOK, Path
<1>9. stack' \in Seq([path : Path', rest : SUBSET DOMAIN pool', walked : SUBSET DOMAIN pool'])
  BY <1>2, <1>7 DEF Frame, Path
<1>10. \A i \in DOMAIN stack' : FrameOK(stack[i])'
  BY <1>2, <1>7 DEF FrameOK, Frame
<1> QED BY <1>1, <1>2, <1>3, <1>5, <1>6, <1>8, <1>9, <1>10 DEF Path

\* A walked fill was remaining, so no fill of the path is equal to it.
LEMMA WalkInv == SearchInv /\ Walk => SearchInv'
<1> SUFFICES ASSUME SearchInv, Walk PROVE SearchInv'
  OBVIOUS
<1> USE DEF SearchInv, TypeOK
<1> DEFINE n == Len(stack)
           FrameSet == [path : Path, rest : SUBSET DOMAIN pool, walked : SUBSET DOMAIN pool]
           path(k) == AppendFill(market, Top.path, pool[k])
           marked(k) == [stack EXCEPT ![n].walked = @ \union {k}]
<1>1. PICK k \in Candidates : /\ stack' = Append(marked(k), Frame(path(k), Top.rest \ {k}))
                             /\ best' = Better(path(k), best)
  BY DEF Walk
<1>2. /\ phase = "walk" /\ stack # <<>> /\ steps' = steps + 1
      /\ UNCHANGED <<market, phase, pending, rates, round, pool, outcome>>
  BY DEF Walk
<1>3. n \in DOMAIN stack /\ Top = stack[n] /\ Top \in FrameSet /\ FrameOK(Top)
  <2> HIDE DEF FrameSet
  <2>1. stack \in Seq(FrameSet)
    BY DEF FrameSet
  <2>2. n \in DOMAIN stack /\ stack[n] \in FrameSet
    BY <1>2, <2>1
  <2> QED BY <2>2 DEF Top
<1>4. k \in Top.rest /\ k \in DOMAIN pool /\ IsValidNextFill(Top.path, pool[k])
  BY <1>3 DEF Candidates
<1>5. pool[k] \in Fill /\ market.amount \in Nat /\ PoolOK
  BY <1>2, <1>4, MarketsAssumption
<1>6. path(k) \in Path /\ path(k).fills = Append(Top.path.fills, pool[k])
  BY <1>3, <1>5, AddFillSizeType DEF Path, AppendFill
<1>7. /\ IsValid(path(k).fills)
      /\ \A i \in DOMAIN path(k).fills :
           \E j \in DOMAIN pool \ (Top.rest \ {k}) : pool[j] = path(k).fills[i]
  <2>1. \A i \in DOMAIN Top.path.fills : Top.path.fills[i] # pool[k]
    BY <1>3, <1>4, <1>5 DEF FrameOK, PoolOK
  <2>2. Top.path.fills \in Seq(Fill) /\ IsValid(Top.path.fills)
    BY <1>3 DEF FrameOK, Path
  <2>3. IsValid(path(k).fills)
    BY <1>4, <1>5, <1>6, <2>1, <2>2, AppendIsValid
  <2>4. ASSUME NEW i \in DOMAIN path(k).fills
        PROVE  \E j \in DOMAIN pool \ (Top.rest \ {k}) : pool[j] = path(k).fills[i]
    <3>1. \/ i \in DOMAIN Top.path.fills /\ path(k).fills[i] = Top.path.fills[i]
          \/ path(k).fills[i] = pool[k]
      BY <1>5, <1>6, <2>2
    <3> QED BY <1>3, <1>4, <3>1 DEF FrameOK
  <2> QED BY <2>3, <2>4
<1> HIDE DEF path
<1>8. Frame(path(k), Top.rest \ {k}) \in FrameSet
  BY <1>3, <1>6 DEF Frame
<1>9. marked(k) \in Seq(FrameSet) /\ Len(marked(k)) = n
  <2>1. [stack[n] EXCEPT !.walked = @ \union {k}] \in FrameSet
    BY <1>3, <1>4
  <2> HIDE DEF FrameSet
  <2>2. stack \in Seq(FrameSet)
    BY DEF FrameSet
  <2>3. marked(k) = [stack EXCEPT ![n] = [stack[n] EXCEPT !.walked = @ \union {k}]]
    BY <1>3
  <2> QED BY <1>3, <2>1, <2>2, <2>3
<1>10. stack' \in Seq(FrameSet)
  <2> HIDE DEF FrameSet, marked
  <2> QED BY <1>1, <1>8, <1>9
<1>11. \A i \in DOMAIN stack' : FrameOK(stack[i])'
  <2> SUFFICES ASSUME NEW i \in DOMAIN stack' PROVE FrameOK(stack[i])'
    OBVIOUS
  <2>1. \/ i = n + 1 /\ stack'[i] = Frame(path(k), Top.rest \ {k})
        \/ i \in DOMAIN stack /\ stack'[i] = marked(k)[i]
    BY <1>1, <1>8, <1>9
  <2>2. CASE i = n + 1 /\ stack'[i] = Frame(path(k), Top.rest \ {k})
    BY <1>2, <1>7, <2>2 DEF FrameOK, Frame
  <2>3. CASE i \in DOMAIN stack /\ stack'[i] = marked(k)[i]
    <3>1. stack'[i].path = stack[i].path /\ stack'[i].rest = stack[i].rest
      BY <1>3, <2>3
    <3> QED BY <1>2, <2>3, <3>1 DEF FrameOK
  <2> QED BY <2>1, <2>2, <2>3
<1>12. best' \in Path /\ BestOK'
  <2>1. CASE best' = best
    BY <1>2, <2>1 DEF BestOK
  <2>2. CASE best' = path(k)
    <3>1. \A i \in DOMAIN path(k).fills : path(k).fills[i].id \notin pending
      BY <1>5, <1>7 DEF PoolOK
    <3> QED BY <1>2, <1>6, <1>7, <2>2, <3>1 DEF BestOK
  <2> QED BY <1>1, <2>1, <2>2 DEF Better
<1>13. PoolOK'
  BY <1>2, <1>5 DEF PoolOK
<1> QED BY <1>2, <1>10, <1>11, <1>12, <1>13 DEF Path

LEMMA ReturnInv == SearchInv /\ Return => SearchInv'
<1> SUFFICES ASSUME SearchInv, Return PROVE SearchInv'
  OBVIOUS
<1> USE DEF SearchInv, TypeOK
<1> DEFINE FrameSet == [path : Path, rest : SUBSET DOMAIN pool, walked : SUBSET DOMAIN pool]
<1>1. /\ phase = "walk" /\ stack # <<>> /\ stack' = SubSeq(stack, 1, Len(stack) - 1)
      /\ UNCHANGED <<market, phase, pending, rates, round, best, pool, steps, outcome>>
  BY DEF Return
<1>2. stack' \in Seq(FrameSet) /\ \A i \in DOMAIN stack' : i \in DOMAIN stack /\ stack'[i] = stack[i]
  <2> HIDE DEF FrameSet
  <2>1. stack \in Seq(FrameSet)
    BY DEF FrameSet
  <2> QED BY <1>1, <2>1
<1>3. \A i \in DOMAIN stack' : FrameOK(stack[i])'
  BY <1>1, <1>2 DEF FrameOK
<1>4. PoolOK' /\ BestOK'
  BY <1>1 DEF PoolOK, BestOK
<1> QED BY <1>1, <1>2, <1>3, <1>4 DEF Path

LEMMA EndMixInv == SearchInv /\ EndMix => SearchInv'
<1> SUFFICES ASSUME SearchInv, EndMix PROVE SearchInv'
  OBVIOUS
<1> USE DEF SearchInv, TypeOK
<1>1. IsValid(best.fills)
  BY DEF BestOK
<1> QED BY <1>1 DEF EndMix, Path, PoolOK, BestOK

LEMMA ChooseInv == SearchInv /\ Choose => SearchInv'
<1> SUFFICES ASSUME SearchInv, Choose PROVE SearchInv'
  OBVIOUS
<1> USE DEF SearchInv, TypeOK
<1>1. stack = <<>> /\ stack' = <<>> /\ phase' = "done"
  BY DEF Choose
<1>2. outcome'.kind \in {"path", "twoHop", "NO_OPTIMAL_PATH"}
  BY DEF Choose, Choice, Result
<1> QED BY <1>1, <1>2 DEF Choose, Path, BestOK, OutcomeKinds

LEMMA StutterInv == SearchInv /\ UNCHANGED vars => SearchInv'
BY DEF SearchInv, TypeOK, vars, Path, PoolOK, BestOK, FrameOK

\* The invariant holds in every reachable state of every search.
THEOREM SearchInvariant == Spec => []SearchInv
<1>1. SearchInv /\ [Next]_vars => SearchInv'
  BY BuildPathsInv, StartMixInv, WalkInv, ReturnInv, EndMixInv, ChooseInv, StutterInv
  DEF Next, Done
<1> QED BY <1>1, InitSearchInv, PTL DEF Spec

\* Type correctness: the variables of a search stay in their types, and no path
\* exceeds the amount of the order.
THEOREM TypeCorrect == Spec => []TypeOK
<1>1. SearchInv => TypeOK
  BY DEF SearchInv
<1> QED BY <1>1, SearchInvariant, PTL

\* The assertion of mixPaths never fires: no walk builds a path with an orphan
\* or a repeated fill.
THEOREM PathsAreValid == Spec => []NoInvalidPath
<1>1. SearchInv => NoInvalidPath
  BY DEF SearchInv, NoInvalidPath, BestOK, FrameOK
<1> QED BY <1>1, SearchInvariant, PTL

-----------------------------------------------------------------------------
(* Totals and sizes *)

LEMMA Totals ==
  ASSUME NEW S, \A x \in S : x.input \in Nat /\ x.output \in Int
  PROVE  /\ TotalInput(<<>>) = 0 /\ TotalOutput(<<>>) = 0
         /\ \A s \in Seq(S) : TotalInput(s) \in Nat /\ TotalOutput(s) \in Int
         /\ \A s \in Seq(S), x \in S :
              /\ TotalInput(Append(s, x)) = TotalInput(s) + x.input
              /\ TotalOutput(Append(s, x)) = TotalOutput(s) + x.output
<1>1. TotalInput(<<>>) = 0 /\ TotalOutput(<<>>) = 0
  BY SearchFolds, In!FoldEmpty, Out!FoldEmpty
<1>2. \A s \in Seq(S) : TotalInput(s) \in Nat
  <2>1. 0 \in Nat /\ \A a \in Nat, x \in S : AddInput(a, x) \in Nat
    BY DEF AddInput
  <2> QED BY <2>1, SearchFolds, In!FoldType
<1>3. \A s \in Seq(S) : TotalOutput(s) \in Int
  <2>1. 0 \in Int /\ \A a \in Int, x \in S : AddOutput(a, x) \in Int
    BY DEF AddOutput
  <2> QED BY <2>1, SearchFolds, Out!FoldType
<1>4. \A s \in Seq(S), x \in S : TotalInput(Append(s, x)) = TotalInput(s) + x.input
  BY SearchFolds, In!FoldAppend DEF AddInput
<1>5. \A s \in Seq(S), x \in S : TotalOutput(Append(s, x)) = TotalOutput(s) + x.output
  BY SearchFolds, Out!FoldAppend DEF AddOutput
<1> QED BY <1>1, <1>2, <1>3, <1>4, <1>5

LEMMA FillTotals ==
  /\ TotalInput(<<>>) = 0 /\ TotalOutput(<<>>) = 0
  /\ \A s \in Seq(Fill) : TotalInput(s) \in Nat /\ TotalOutput(s) \in Int
  /\ \A s \in Seq(Fill), x \in Fill :
       /\ TotalInput(Append(s, x)) = TotalInput(s) + x.input
       /\ TotalOutput(Append(s, x)) = TotalOutput(s) + x.output
<1>1. \A x \in Fill : x.input \in Nat /\ x.output \in Int
  BY DEF Fill
<1> QED BY <1>1, Totals

LEMMA EmptyMeasured ==
  ASSUME market \in Markets
  PROVE  Measured(market, EmptyPath)
<1>1. market.amount \in Nat \ {0}
  BY MarketsAssumption
<1>2. TotalInput(<<>>) = 0 /\ TotalOutput(<<>>) = 0 /\ Len(<<>>) = 0
  BY FillTotals
<1> QED BY <1>1, <1>2 DEF Measured, EmptyPath, EmptySize

\* A path that is not complete is uncut, and the next fill is cut to what it leaves.
LEMMA AppendMeasured ==
  ASSUME market \in Markets, NEW p \in Path, Measured(market, p), ~IsComplete(market, p),
         NEW f \in Fill, OfMarket(market, f)
  PROVE  Measured(market, AppendFill(market, p, f))
<1> DEFINE s == p.fills
           z == p.size
           q == AppendFill(market, p, f)
           n == Len(s)
<1>1. /\ s \in Seq(Fill) /\ n \in Nat /\ market.amount \in Nat \ {0}
      /\ f.input \in Nat /\ f.output \in Int
      /\ z.input \in Nat /\ z.input < market.amount
  <2>1. z.input \in Nat /\ s \in Seq(Fill)
    BY DEF Path, Sizes
  <2> QED BY <2>1, MarketsAssumption DEF Fill, IsComplete
<1>2. /\ z.input = TotalInput(s) /\ z.num = TotalOutput(s) /\ z.den = 1
      /\ \A i \in 1..n : OfMarket(market, s[i])
  BY <1>1 DEF Measured
<1>3. /\ TotalInput(s) \in Nat /\ TotalOutput(s) \in Int
      /\ TotalInput(Append(s, f)) = TotalInput(s) + f.input
      /\ TotalOutput(Append(s, f)) = TotalOutput(s) + f.output
  BY <1>1, FillTotals
<1>4. /\ q.fills = Append(s, f) /\ Len(q.fills) = n + 1 /\ DOMAIN q.fills = 1..(n + 1)
      /\ q.fills[n + 1] = f /\ \A i \in 1..n : q.fills[i] = s[i]
      /\ SubSeq(q.fills, 1, n) = s /\ q.size = AddFillSize(market, z, f)
  BY <1>1 DEF AppendFill
<1> HIDE DEF s, z, q, n
<1>5. \A i \in DOMAIN q.fills : OfMarket(market, q.fills[i])
  <2> SUFFICES ASSUME NEW i \in DOMAIN q.fills PROVE OfMarket(market, q.fills[i])
    OBVIOUS
  <2>1. i = n + 1 \/ i \in 1..n
    BY <1>1, <1>4
  <2> QED BY <1>2, <1>4, <2>1
<1>6. (n + 1) - 1 = n
  BY <1>1
<1>7. IF TotalInput(q.fills) <= market.amount
      THEN /\ q.size.input = TotalInput(q.fills)
           /\ q.size.num = TotalOutput(q.fills) /\ q.size.den = 1
      ELSE /\ q.size.input = market.amount /\ q.size.den = f.input
           /\ q.size.num = TotalOutput(s) * f.input
                             + f.output * (market.amount - TotalInput(s))
  <2>1. CASE f.input > market.amount - z.input
    <3>1. /\ q.size.input = market.amount /\ q.size.den = z.den * f.input
          /\ q.size.num = z.num * f.input + f.output * (market.amount - z.input) * z.den
      BY <1>4, <2>1 DEF AddFillSize
    <3>2. f.output * (market.amount - z.input) * z.den = f.output * (market.amount - z.input)
      BY <1>1, <1>2
    <3>3. ~(TotalInput(q.fills) <= market.amount)
      BY <1>1, <1>2, <1>3, <1>4, <2>1
    <3> QED BY <1>1, <1>2, <3>1, <3>2, <3>3
  <2>2. CASE ~(f.input > market.amount - z.input)
    <3>1. /\ q.size.input = z.input + f.input /\ q.size.den = z.den
          /\ q.size.num = z.num + f.output * z.den
      BY <1>4, <2>2 DEF AddFillSize
    <3>2. TotalInput(q.fills) <= market.amount
      BY <1>1, <1>2, <1>3, <1>4, <2>2
    <3> QED BY <1>1, <1>2, <1>3, <1>4, <3>1, <3>2
  <2> QED BY <2>1, <2>2
<1>8. TotalInput(s) < market.amount
  BY <1>1, <1>2
<1> QED BY <1>4, <1>5, <1>6, <1>7, <1>8 DEF Measured, q

\* A chain never exceeds the amount, so that no fill of a source path is cut.
LEMMA SourceMeasured ==
  ASSUME market \in Markets, NEW id \in Groups
  PROVE  Measured(market, SourcePath(market, id))
<1> DEFINE s == market.fills[id]
           n == Len(s)
           u(k) == SubSeq(s, 1, k)
           z(k) == CreatePath(market, u(k)).size
           N == {k \in Nat : k <= n => /\ z(k).input = TotalInput(u(k))
                                      /\ z(k).num = TotalOutput(u(k)) /\ z(k).den = 1}
<1>1. /\ s \in Seq(Fill) /\ n \in Nat /\ DOMAIN s = 1..n /\ market.amount \in Nat \ {0}
      /\ \A i \in 1..n : s[i] \in Fill /\ s[i].id = id
  BY ChainFacts, MarketsAssumption
<1>2. \A i \in 1..n : /\ s[i].index = i - 1 /\ TotalInput(u(i)) <= market.amount
                      /\ i < n => TotalInput(u(i)) < market.amount
  <2>1. IsChain(market, id, s)
    BY MarketsAssumption
  <2> QED BY <1>1, <2>1 DEF IsChain
<1>3. \A i \in 1..n : OfMarket(market, s[i])
  BY <1>1, <1>2 DEF OfMarket
<1>4. u(0) = <<>> /\ u(n) = s
  BY <1>1
<1>5. \A k \in 0..(n - 1) : u(k) \in Seq(Fill) /\ u(k + 1) = Append(u(k), s[k + 1])
  BY <1>1
<1>6. 0 \in N
  <2>1. CreatePath(market, <<>>).size = EmptySize
    BY SearchFolds, Size!FoldEmpty
  <2>2. z(0) = EmptySize
    BY <1>4, <2>1
  <2>3. TotalInput(u(0)) = 0 /\ TotalOutput(u(0)) = 0
    BY <1>4, FillTotals
  <2> QED BY <2>2, <2>3 DEF EmptySize
<1> HIDE DEF s, n, u
<1>7. ASSUME NEW k \in Nat, k \in N PROVE k + 1 \in N
  <2> SUFFICES ASSUME k + 1 <= n
               PROVE  /\ z(k + 1).input = TotalInput(u(k + 1))
                      /\ z(k + 1).num = TotalOutput(u(k + 1)) /\ z(k + 1).den = 1
    OBVIOUS
  <2>1. k \in 0..(n - 1) /\ k + 1 \in 1..n
    BY <1>1
  <2> DEFINE f == s[k + 1]
  <2>2. /\ f \in Fill /\ f.input \in Nat /\ f.output \in Int /\ u(k) \in Seq(Fill)
        /\ u(k + 1) = Append(u(k), f) /\ TotalInput(u(k + 1)) <= market.amount
    BY <1>1, <1>2, <1>5, <2>1 DEF Fill
  <2>3. /\ z(k).input = TotalInput(u(k)) /\ z(k).num = TotalOutput(u(k)) /\ z(k).den = 1
    BY <1>1, <1>7
  <2>4. /\ TotalInput(u(k)) \in Nat /\ TotalOutput(u(k)) \in Int
        /\ TotalInput(u(k + 1)) = TotalInput(u(k)) + f.input
        /\ TotalOutput(u(k + 1)) = TotalOutput(u(k)) + f.output
    BY <2>2, FillTotals
  <2>5. z(k + 1) = AddFillSize(market, z(k), f)
    <3>1. CreatePath(market, Append(u(k), f)).size
            = AddFillHere(CreatePath(market, u(k)).size, f)
      BY <2>2, SearchFolds, Size!FoldAppend
    <3> QED BY <2>2, <3>1 DEF AddFillHere
  <2> HIDE DEF f, z
  <2>6. ~(f.input > market.amount - z(k).input)
    BY <1>1, <2>2, <2>3, <2>4
  <2>7. /\ z(k + 1).input = z(k).input + f.input /\ z(k + 1).den = z(k).den
        /\ z(k + 1).num = z(k).num + f.output * z(k).den
    BY <2>5, <2>6 DEF AddFillSize
  <2> QED BY <2>2, <2>3, <2>4, <2>7
<1>8. n \in N
  <2> HIDE DEF N
  <2> QED BY <1>1, <1>6, <1>7, In!NatSetInduction
<1>9. TotalInput(s) <= market.amount
  <2>1. CASE n = 0
    BY <1>1, <1>4, <2>1, FillTotals
  <2>2. CASE n # 0
    <3>1. n \in 1..n
      BY <1>1, <2>2
    <3> QED BY <1>2, <1>4, <3>1
  <2> QED BY <2>1, <2>2
<1>10. n > 0 => TotalInput(u(n - 1)) < market.amount
  <2> SUFFICES ASSUME n > 0 PROVE TotalInput(u(n - 1)) < market.amount
    OBVIOUS
  <2>1. CASE n = 1
    <3>1. n - 1 = 0
      BY <2>1
    <3> QED BY <1>1, <1>4, <3>1, FillTotals
  <2>2. CASE n # 1
    <3>1. n - 1 \in 1..n /\ n - 1 < n
      BY <1>1, <2>2
    <3> QED BY <1>2, <3>1
  <2> QED BY <2>1, <2>2
<1>11. /\ SourcePath(market, id).fills = s /\ SourcePath(market, id).size = z(n)
  BY <1>4 DEF SourcePath, CreatePath, s
<1>12. /\ z(n).input = TotalInput(s) /\ z(n).num = TotalOutput(s) /\ z(n).den = 1
  BY <1>1, <1>4, <1>8
<1> HIDE DEF z
<1> QED BY <1>1, <1>3, <1>9, <1>10, <1>11, <1>12 DEF Measured, n, u

LEMMA BudgetPositive == \A i \in Nat : Budget(i) \in Nat \ {0}
<1> SUFFICES ASSUME NEW i \in Nat PROVE Budget(i) \in Nat \ {0}
  OBVIOUS
<1>1. Power2(i) \in Nat \ {0}
  <2>1. [j \in 1..i |-> j] \in Seq(Nat)
    OBVIOUS
  <2>2. 1 \in Nat \ {0} /\ \A p \in Nat \ {0}, j \in Nat : Double(p, j) \in Nat \ {0}
    BY DEF Double
  <2> QED BY <2>1, <2>2, SearchFolds, Power!FoldType
<1>2. (RunLimit + Power2(i) - 1) \div Power2(i) \in Int
  BY <1>1, LimitsAssumption
<1> QED BY <1>2, LimitsAssumption DEF Budget

LEMMA InitMeasure == Init => MeasureInv
BY EmptyMeasured DEF Init, MeasureInv, WithinBudget, OutcomeOK, NoResult, Result

LEMMA BuildPathsMeasure == SearchInv /\ MeasureInv /\ BuildPaths => MeasureInv'
<1> SUFFICES ASSUME SearchInv, MeasureInv, BuildPaths PROVE MeasureInv'
  OBVIOUS
<1>1. /\ stack = <<>> /\ market \in Markets /\ phase = "fills" /\ outcome.kind = "none"
      /\ outcome.orders = <<>>
      /\ UNCHANGED <<market, round, pool, stack, steps>>
  BY DEF SearchInv, MeasureInv, OutcomeOK, TypeOK, BuildPaths
<1>2. \A k \in DOMAIN pool' : OfMarket(market, pool[k])'
  BY <1>1 DEF MeasureInv, OfMarket
<1>3. CASE phase' = "done" /\ outcome' = Result("TypeError", <<>>) /\ UNCHANGED best
  <2>1. OutcomeOK' /\ WithinBudget'
    BY <1>3 DEF OutcomeOK, Result, WithinBudget
  <2>2. Measured(market, best)'
    BY <1>1, <1>3 DEF MeasureInv, Measured, OfMarket
  <2> QED BY <1>1, <1>2, <2>1, <2>2 DEF MeasureInv
<1>4. CASE \E first \in ReducePaths(market, LiveGroups(market)) :
             best' = SourcePath(market, first) /\ phase' = "mix" /\ UNCHANGED outcome
  <2>1. PICK first \in Groups : /\ best' = SourcePath(market, first)
                               /\ phase' = "mix" /\ UNCHANGED outcome
    BY <1>1, <1>4, GroupsOfReduced
  <2>2. OutcomeOK' /\ WithinBudget'
    BY <1>1, <2>1 DEF OutcomeOK, WithinBudget
  <2>3. Measured(market, best)'
    BY <1>1, <2>1, SourceMeasured DEF Measured, OfMarket
  <2> QED BY <1>1, <1>2, <2>2, <2>3 DEF MeasureInv
<1> QED BY <1>3, <1>4 DEF BuildPaths

LEMMA StartMixMeasure == SearchInv /\ MeasureInv /\ StartMix => MeasureInv'
<1> SUFFICES ASSUME SearchInv, MeasureInv, StartMix PROVE MeasureInv'
  OBVIOUS
<1>1. PICK s \in pending : pool' = best.fills \o SourcePath(market, s).fills
  BY DEF StartMix
<1>2. /\ stack' = <<Frame(EmptyPath, DOMAIN pool')>>
      /\ steps' = 1 /\ phase' = "walk" /\ phase = "mix"
      /\ best' = Better(EmptyPath, best)
      /\ UNCHANGED <<market, rates, round, outcome>>
      /\ s \in Groups /\ market \in Markets /\ round \in Nat
      /\ best.fills \in Seq(Fill)
  BY DEF StartMix, SearchInv, TypeOK, Path
<1>3. \A k \in DOMAIN pool' : OfMarket(market, pool[k])'
  <2> DEFINE a == best.fills
             b == SourcePath(market, s).fills
  <2>1. /\ \A i \in DOMAIN a : OfMarket(market, a[i])
        /\ \A i \in DOMAIN b : OfMarket(market, b[i])
    BY <1>2, SourceMeasured DEF MeasureInv, Measured
  <2>2. a \in Seq(Fill) /\ b \in Seq(Fill) /\ pool' = a \o b
    BY <1>1, <1>2, SourcePathType, ChainFacts
  <2> HIDE DEF a, b
  <2> SUFFICES ASSUME NEW k \in DOMAIN pool' PROVE OfMarket(market, pool'[k])
    BY <1>2 DEF OfMarket
  <2>3. \/ k \in DOMAIN a /\ pool'[k] = a[k]
        \/ k - Len(a) \in DOMAIN b /\ pool'[k] = b[k - Len(a)]
    BY <2>2
  <2>4. CASE k \in DOMAIN a /\ pool'[k] = a[k]
    BY <2>1, <2>4
  <2>5. CASE k - Len(a) \in DOMAIN b /\ pool'[k] = b[k - Len(a)]
    <3> DEFINE l == k - Len(a)
    <3>1. l \in DOMAIN b /\ pool'[k] = b[l]
      BY <2>5
    <3> HIDE DEF l
    <3> QED BY <2>1, <3>1
  <2> QED BY <2>3, <2>4, <2>5
<1>4. Measured(market, best') /\ Measured(market, EmptyPath)
  BY <1>2, EmptyMeasured DEF Better, MeasureInv
<1>5. WithinBudget'
  <2>1. 1 <= Budget(round)
    BY <1>2, BudgetPositive
  <2> QED BY <1>2, <2>1 DEF WithinBudget, Budget
<1>6. OutcomeOK'
  BY <1>2 DEF OutcomeOK, MeasureInv
<1>7. Measured(market, best)' /\ \A i \in DOMAIN stack' : Measured(market, stack[i].path)'
  BY <1>2, <1>4 DEF Frame
<1> QED BY <1>3, <1>5, <1>6, <1>7 DEF MeasureInv

LEMMA WalkMeasure == SearchInv /\ MeasureInv /\ Walk => MeasureInv'
<1> SUFFICES ASSUME SearchInv, MeasureInv, Walk PROVE MeasureInv'
  OBVIOUS
<1> DEFINE n == Len(stack)
           FrameSet == [path : Path, rest : SUBSET DOMAIN pool, walked : SUBSET DOMAIN pool]
           path(k) == AppendFill(market, Top.path, pool[k])
           marked(k) == [stack EXCEPT ![n].walked = @ \union {k}]
<1>1. PICK k \in Candidates : /\ stack' = Append(marked(k), Frame(path(k), Top.rest \ {k}))
                             /\ best' = Better(path(k), best)
  BY DEF Walk
<1>2. /\ phase = "walk" /\ stack # <<>> /\ steps' = steps + 1 /\ steps \in Nat
      /\ market \in Markets /\ round \in Nat /\ stack \in Seq(FrameSet)
      /\ pool \in Seq(Fill)
      /\ UNCHANGED <<market, phase, pending, rates, round, pool, outcome>>
  BY DEF Walk, SearchInv, TypeOK
<1>3. n \in DOMAIN stack /\ Top = stack[n] /\ Top \in FrameSet
  <2> HIDE DEF FrameSet
  <2>1. n \in DOMAIN stack /\ stack[n] \in FrameSet
    BY <1>2
  <2> QED BY <2>1 DEF Top
<1>4. /\ k \in DOMAIN pool /\ ~IsComplete(market, Top.path) /\ ~(steps >= Budget(round))
  BY <1>3 DEF Candidates
<1>5. /\ Top.path \in Path /\ Measured(market, Top.path) /\ pool[k] \in Fill /\ OfMarket(market, pool[k])
  BY <1>2, <1>3, <1>4 DEF MeasureInv
<1>6. Measured(market, path(k))
  BY <1>2, <1>4, <1>5, AppendMeasured
<1> HIDE DEF path
<1>7. Measured(market, best')
  BY <1>1, <1>6 DEF Better, MeasureInv
<1>8. \A i \in DOMAIN stack' : Measured(market, stack'[i].path)
  <2> SUFFICES ASSUME NEW i \in DOMAIN stack' PROVE Measured(market, stack'[i].path)
    OBVIOUS
  <2>1. marked(k) \in Seq([path : Path, rest : SUBSET DOMAIN pool, walked : SUBSET Nat])
        /\ Len(marked(k)) = n
        /\ \A j \in 1..n : marked(k)[j].path = stack[j].path
    <3> DEFINE S == [path : Path, rest : SUBSET DOMAIN pool, walked : SUBSET Nat]
    <3>1. DOMAIN pool \subseteq Nat
      BY <1>2
    <3>2. FrameSet \subseteq S
      BY <3>1
    <3>3. [stack[n] EXCEPT !.walked = @ \union {k}] \in S
      BY <1>3, <1>4, <3>1
    <3>4. marked(k) = [stack EXCEPT ![n] = [stack[n] EXCEPT !.walked = @ \union {k}]]
      BY <1>3
    <3>5. \A j \in 1..n : marked(k)[j].path = stack[j].path
      BY <1>2, <1>3
    <3> HIDE DEF FrameSet, S
    <3>6. stack \in Seq(S)
      BY <1>2, <3>2, SeqMonotonic
    <3> QED BY <1>3, <3>3, <3>4, <3>5, <3>6 DEF S
  <2> HIDE DEF marked, FrameSet
  <2>2. \/ i = n + 1 /\ stack'[i] = Frame(path(k), Top.rest \ {k})
        \/ i \in 1..n /\ stack'[i] = marked(k)[i]
    BY <1>1, <2>1
  <2>3. CASE i = n + 1 /\ stack'[i] = Frame(path(k), Top.rest \ {k})
    BY <1>6, <2>3 DEF Frame
  <2>4. CASE i \in 1..n /\ stack'[i] = marked(k)[i]
    <3>1. i \in DOMAIN stack /\ stack'[i].path = stack[i].path
      BY <1>2, <2>1, <2>4
    <3> QED BY <3>1 DEF MeasureInv
  <2> QED BY <2>2, <2>3, <2>4
<1>9. WithinBudget'
  <2>1. Budget(round) \in Nat
    BY <1>2, BudgetPositive
  <2>2. steps + 1 <= Budget(round)
    BY <1>2, <1>4, <2>1
  <2> QED BY <1>2, <2>2 DEF WithinBudget, Budget
<1>10. OutcomeOK'
  BY <1>2 DEF OutcomeOK, MeasureInv
<1> QED BY <1>2, <1>7, <1>8, <1>10, <1>9 DEF MeasureInv, Measured, OfMarket

LEMMA ReturnMeasure == SearchInv /\ MeasureInv /\ Return => MeasureInv'
<1> SUFFICES ASSUME SearchInv, MeasureInv, Return PROVE MeasureInv'
  OBVIOUS
<1> DEFINE FrameSet == [path : Path, rest : SUBSET DOMAIN pool, walked : SUBSET DOMAIN pool]
<1>1. /\ phase = "walk" /\ stack # <<>> /\ stack' = SubSeq(stack, 1, Len(stack) - 1)
      /\ stack \in Seq(FrameSet)
      /\ UNCHANGED <<market, phase, pending, rates, round, best, pool, steps, outcome>>
  BY DEF Return, SearchInv, TypeOK
<1>2. \A i \in DOMAIN stack' : i \in DOMAIN stack /\ stack'[i] = stack[i]
  <2> HIDE DEF FrameSet
  <2> QED BY <1>1
<1>3. Measured(market, best)' /\ \A i \in DOMAIN stack' : Measured(market, stack[i].path)'
  BY <1>1, <1>2 DEF MeasureInv
<1>4. WithinBudget' /\ OutcomeOK'
  BY <1>1 DEF MeasureInv, WithinBudget, Budget, OutcomeOK
<1> QED BY <1>1, <1>3, <1>4 DEF MeasureInv, OfMarket

LEMMA EndMixMeasure == SearchInv /\ MeasureInv /\ EndMix => MeasureInv'
<1> SUFFICES ASSUME SearchInv, MeasureInv, EndMix PROVE MeasureInv'
  OBVIOUS
<1>1. /\ phase = "walk" /\ phase' = "mix" /\ UNCHANGED outcome
      /\ UNCHANGED <<market, pending, rates, best, pool, stack, steps>>
  BY DEF EndMix, SearchInv, BestOK
<1>2. WithinBudget' /\ OutcomeOK'
  BY <1>1 DEF MeasureInv, WithinBudget, OutcomeOK
<1> QED BY <1>1, <1>2 DEF MeasureInv, Measured, OfMarket

LEMMA ChooseMeasure == SearchInv /\ MeasureInv /\ Choose => MeasureInv'
<1> SUFFICES ASSUME SearchInv, MeasureInv, Choose PROVE MeasureInv'
  OBVIOUS
<1>1. /\ phase = "mix" /\ phase' = "done" /\ outcome' = Choice(market, best)
      /\ UNCHANGED <<market, pending, rates, round, best, pool, stack, steps>>
  BY DEF Choose
<1>2. WithinBudget'
  BY <1>1 DEF WithinBudget
<1>3. OutcomeOK'
  <2>1. /\ outcome'.kind \in {"path", "twoHop", "NO_OPTIMAL_PATH"}
        /\ outcome'.kind = "path" => IsComplete(market, best)
        /\ outcome'.kind = "twoHop" => UsableTwoHops(market) # {}
        /\ outcome'.orders = IF outcome'.kind = "path" THEN Collapse(best.fills) ELSE <<>>
    BY <1>1 DEF Choice, Result
  <2> QED BY <1>1, <2>1 DEF OutcomeOK
<1> QED BY <1>1, <1>2, <1>3 DEF MeasureInv, Measured, OfMarket

LEMMA StutterMeasure == MeasureInv /\ UNCHANGED vars => MeasureInv'
<1> SUFFICES ASSUME MeasureInv, UNCHANGED vars PROVE MeasureInv'
  OBVIOUS
<1>1. UNCHANGED <<market, phase, round, best, pool, stack, steps, outcome>>
  BY DEF vars
<1>2. WithinBudget' /\ OutcomeOK'
  BY <1>1 DEF MeasureInv, WithinBudget, Budget, OutcomeOK
<1> QED BY <1>1, <1>2 DEF MeasureInv, Measured, OfMarket

\* The sizes, the budget and the orders of every reachable state of a search.
THEOREM MeasureInvariant == Spec => []MeasureInv
<1>1. SearchInv /\ MeasureInv /\ [Next]_vars => MeasureInv'
  BY StutterMeasure, BuildPathsMeasure, StartMixMeasure, WalkMeasure, ReturnMeasure,
     EndMixMeasure, ChooseMeasure DEF Next, Done
<1> QED BY <1>1, InitMeasure, SearchInvariant, PTL DEF Spec

-----------------------------------------------------------------------------
(* The orders of a path *)

GroupOrder == [id : Groups, input : Nat, output : Int, subFills : Seq(Fill)]

\* An order takes the fills of its group from the first one on.
TakesPrefix(m, o) ==
  /\ o.subFills = SubSeq(m.fills[o.id], 1, Len(o.subFills))
  /\ Len(o.subFills) \in DOMAIN m.fills[o.id]
  /\ o.input = TotalInput(o.subFills) /\ o.output = TotalOutput(o.subFills)

\* What the orders os have to do with the fills s of the path.
CollapsedFrom(m, s, os) ==
  /\ os \in Seq(GroupOrder)
  /\ os = <<>> <=> s = <<>>
  /\ os # <<>> => Last(Last(os).subFills) = Last(s)
  /\ TotalInput(os) = TotalInput(s) /\ TotalOutput(os) = TotalOutput(s)
  /\ \A i \in DOMAIN os : TakesPrefix(m, os[i])
  /\ \A i \in DOMAIN os : \E j \in DOMAIN s : s[j] = m.fills[os[i].id][1]
  /\ \A i, j \in DOMAIN os : os[i].id = os[j].id => i = j

Collapsible(m, s) == IsValid(s) /\ \A i \in DOMAIN s : OfMarket(m, s[i])

LEMMA OrderTotals ==
  /\ TotalInput(<<>>) = 0 /\ TotalOutput(<<>>) = 0
  /\ \A s \in Seq(GroupOrder) : TotalInput(s) \in Nat /\ TotalOutput(s) \in Int
  /\ \A s \in Seq(GroupOrder), x \in GroupOrder :
       /\ TotalInput(Append(s, x)) = TotalInput(s) + x.input
       /\ TotalOutput(Append(s, x)) = TotalOutput(s) + x.output
<1>1. \A x \in GroupOrder : x.input \in Nat /\ x.output \in Int
  BY DEF GroupOrder
<1> QED BY <1>1, Totals

\* The chain of a group, fill by fill.
LEMMA ChainFills ==
  ASSUME NEW m \in Markets, NEW id \in Groups
  PROVE  /\ m.fills[id] \in Seq(Fill) /\ Len(m.fills[id]) \in Nat
         /\ \A i \in DOMAIN m.fills[id] :
              /\ i \in Nat \ {0} /\ m.fills[id][i] \in Fill
              /\ m.fills[id][i].id = id /\ m.fills[id][i].index = i - 1
<1>1. IsChain(m, id, m.fills[id])
  BY MarketsAssumption
<1>2. \A i \in DOMAIN m.fills[id] : m.fills[id][i].index = i - 1
  BY <1>1 DEF IsChain
<1> QED BY <1>2, ChainFacts

\* All but the last fill of a path is such a path, and the last one is new and
\* follows its parent.
LEMMA CollapsibleFront ==
  ASSUME NEW m \in Markets, NEW s \in Seq(Fill), NEW f \in Fill,
         Collapsible(m, Append(s, f))
  PROVE  /\ Collapsible(m, s) /\ OfMarket(m, f)
         /\ \A i \in DOMAIN s : s[i] # f
         /\ HasParent(f) => s # <<>> /\ IsParentOf(Last(s), f)
<1> DEFINE l == Append(s, f)
           n == Len(s)
<1>1. /\ n \in Nat /\ DOMAIN s = 1..n /\ DOMAIN l = 1..(n + 1)
      /\ l[n + 1] = f /\ \A i \in 1..n : l[i] = s[i]
      /\ n # 0 => s # <<>>
  OBVIOUS
<1>2. /\ \A i \in DOMAIN l : OfMarket(m, l[i])
      /\ \A i \in DOMAIN l : HasParent(l[i]) => i # 1 /\ IsParentOf(l[i - 1], l[i])
      /\ \A i, j \in DOMAIN l : l[i] = l[j] => i = j
  BY DEF Collapsible, IsValid
<1> HIDE DEF l, n
<1>3. \A i \in 1..n : i \in 1..(n + 1) /\ i # n + 1
  BY <1>1
<1>4. \A i \in DOMAIN s : OfMarket(m, s[i]) /\ s[i] # f
  BY <1>1, <1>2, <1>3
<1>5. ASSUME NEW i \in DOMAIN s, HasParent(s[i])
      PROVE  i # 1 /\ IsParentOf(s[i - 1], s[i])
  <2>1. i \in 1..n /\ i \in DOMAIN l /\ HasParent(l[i])
    BY <1>1, <1>5
  <2>2. i # 1 /\ IsParentOf(l[i - 1], l[i])
    BY <1>2, <2>1
  <2>3. i - 1 \in 1..n
    BY <1>1, <2>1, <2>2
  <2> QED BY <1>1, <2>1, <2>2, <2>3
<1>6. \A i, j \in DOMAIN s : s[i] = s[j] => i = j
  BY <1>1, <1>2, <1>3
<1>7. n + 1 \in DOMAIN l /\ (n + 1) - 1 = n
  BY <1>1
<1>8. OfMarket(m, f)
  BY <1>1, <1>2, <1>7
<1>9. ASSUME HasParent(f) PROVE s # <<>> /\ IsParentOf(s[n], f)
  <2>1. n + 1 # 1 /\ IsParentOf(l[n], l[n + 1])
    BY <1>1, <1>2, <1>7, <1>9
  <2>2. n \in 1..n /\ n # 0
    BY <1>1, <2>1
  <2> QED BY <1>1, <2>1, <2>2
<1> QED BY <1>4, <1>5, <1>6, <1>8, <1>9 DEF Collapsible, IsValid, Last, n

\* A sequence with one element more, and what a sequence is without its last one.
LEMMA Appended ==
  ASSUME NEW S, NEW s \in Seq(S), NEW x \in S
  PROVE  LET l == Append(s, x)
         IN  /\ l \in Seq(S) /\ l # <<>> /\ Len(s) \in Nat /\ Len(l) = Len(s) + 1
             /\ DOMAIN s = 1..Len(s) /\ DOMAIN l = 1..(Len(s) + 1)
             /\ \A i \in DOMAIN s : i \in DOMAIN l /\ l[i] = s[i]
             /\ l[Len(s) + 1] = x /\ Last(l) = x
<1> DEFINE l == Append(s, x)
<1>1. /\ l \in Seq(S) /\ Len(s) \in Nat /\ Len(l) = Len(s) + 1
      /\ DOMAIN s = 1..Len(s) /\ DOMAIN l = 1..(Len(s) + 1)
      /\ \A i \in 1..Len(s) : l[i] = s[i]
      /\ l[Len(s) + 1] = x
  OBVIOUS
<1> HIDE DEF l
<1>2. l # <<>>
  BY <1>1
<1> QED BY <1>1, <1>2 DEF Last, l

LEMMA WithoutLast ==
  ASSUME NEW S, NEW s \in Seq(S), s # <<>>
  PROVE  /\ Len(s) \in Nat \ {0} /\ DOMAIN s = 1..Len(s)
         /\ Last(s) = s[Len(s)] /\ Last(s) \in S
         /\ Front(s) \in Seq(S) /\ Len(Front(s)) = Len(s) - 1
         /\ \A i \in DOMAIN Front(s) : i \in DOMAIN s /\ Front(s)[i] = s[i]
         /\ s = Append(Front(s), Last(s))
<1> DEFINE n == Len(s)
           f == SubSeq(s, 1, n - 1)
<1>1. n \in Nat \ {0} /\ DOMAIN s = 1..n /\ s[n] \in S
  OBVIOUS
<1>2. /\ f \in Seq(S) /\ Len(f) = n - 1 /\ DOMAIN f = 1..(n - 1)
      /\ \A i \in 1..(n - 1) : f[i] = s[i]
  BY <1>1
<1>3. s = Append(f, s[n])
  BY <1>1
<1> HIDE DEF f, n
<1>4. \A i \in DOMAIN f : i \in DOMAIN s /\ f[i] = s[i]
  BY <1>1, <1>2
<1>5. Front(s) = f /\ Last(s) = s[n]
  BY DEF Front, Last, f, n
<1> QED BY <1>1, <1>2, <1>3, <1>4, <1>5 DEF n

\* A fill either goes on with the last order or begins one of its own.
LEMMA CollapseOne ==
  ASSUME NEW m \in Markets, NEW s \in Seq(Fill), NEW f \in Fill,
         Collapsible(m, Append(s, f)), NEW os, CollapsedFrom(m, s, os)
  PROVE  CollapsedFrom(m, Append(s, f), CollapseFill(os, f))
<1> DEFINE l     == Append(s, f)
           n     == Len(os)
           front == Front(os)
           last  == Last(os)
           chain == m.fills[f.id]
<1>1. /\ \A i \in DOMAIN s : s[i] # f
      /\ HasParent(f) => s # <<>> /\ IsParentOf(Last(s), f)
      /\ f.index + 1 \in DOMAIN chain /\ f = chain[f.index + 1]
  BY CollapsibleFront DEF OfMarket
<1>2. /\ os \in Seq(GroupOrder)
      /\ os = <<>> <=> s = <<>>
      /\ os # <<>> => Last(last.subFills) = Last(s)
      /\ TotalInput(os) = TotalInput(s) /\ TotalOutput(os) = TotalOutput(s)
      /\ \A i \in DOMAIN os : TakesPrefix(m, os[i])
      /\ \A i \in DOMAIN os : \E j \in DOMAIN s : s[j] = m.fills[os[i].id][1]
      /\ \A i, j \in DOMAIN os : os[i].id = os[j].id => i = j
  BY DEF CollapsedFrom
<1>3. /\ f.id \in Groups /\ f.index \in Nat /\ f.input \in Nat /\ f.output \in Int
  BY DEF Fill
<1>4. /\ chain \in Seq(Fill) /\ Len(chain) \in Nat
      /\ \A i \in DOMAIN chain : /\ i \in Nat \ {0} /\ chain[i] \in Fill
                                /\ chain[i].id = f.id /\ chain[i].index = i - 1
  BY <1>3, ChainFills
<1>5. /\ l \in Seq(Fill) /\ l # <<>> /\ Last(l) = f
      /\ f \in {l[i] : i \in DOMAIN l}
      /\ \A j \in DOMAIN s : s[j] \in {l[i] : i \in DOMAIN l}
  <2>1. /\ l \in Seq(Fill) /\ l # <<>> /\ Last(l) = f /\ Len(s) \in Nat
        /\ DOMAIN l = 1..(Len(s) + 1) /\ l[Len(s) + 1] = f
        /\ \A j \in DOMAIN s : j \in DOMAIN l /\ l[j] = s[j]
    BY Appended
  <2> HIDE DEF l
  <2>2. Len(s) + 1 \in DOMAIN l
    BY <2>1
  <2> QED BY <2>1, <2>2
<1>6. /\ TotalInput(l) = TotalInput(s) + f.input /\ TotalOutput(l) = TotalOutput(s) + f.output
      /\ TotalInput(s) \in Nat /\ TotalOutput(s) \in Int
  BY FillTotals
<1>7. /\ \A i \in DOMAIN os : os[i] \in GroupOrder
      /\ n \in Nat /\ DOMAIN os = 1..n
      /\ os # <<>> => /\ n \in DOMAIN os /\ last = os[n]
                      /\ front \in Seq(GroupOrder) /\ Len(front) = n - 1
                      /\ \A i \in DOMAIN front : i \in DOMAIN os /\ front[i] = os[i]
                      /\ os = Append(front, last)
  <2>1. n \in Nat /\ DOMAIN os = 1..n /\ \A i \in DOMAIN os : os[i] \in GroupOrder
    BY <1>2
  <2>2. ASSUME os # <<>>
        PROVE  /\ n \in Nat \ {0} /\ last = os[n] /\ os = Append(front, last)
               /\ front \in Seq(GroupOrder) /\ Len(front) = n - 1
               /\ \A i \in DOMAIN front : i \in DOMAIN os /\ front[i] = os[i]
    BY <1>2, <2>2, WithoutLast
  <2> HIDE DEF n, front, last
  <2> QED BY <2>1, <2>2
<1> HIDE DEF l, n, front, last, chain
<1>8. CASE os # <<>> /\ last.id = f.id
  <2> DEFINE k   == Len(last.subFills)
             new == [last EXCEPT !.input = @ + f.input, !.output = @ + f.output,
                                 !.subFills = Append(@, f)]
  <2>1. /\ last \in GroupOrder /\ TakesPrefix(m, last)
        /\ \E j \in DOMAIN s : s[j] = chain[1]
    BY <1>2, <1>7, <1>8 DEF chain
  <2>2. /\ last.subFills = SubSeq(chain, 1, k) /\ k \in DOMAIN chain
        /\ last.input = TotalInput(last.subFills)
        /\ last.output = TotalOutput(last.subFills)
        /\ last.subFills \in Seq(Fill) /\ last.input \in Nat /\ last.output \in Int
    BY <1>8, <2>1 DEF TakesPrefix, GroupOrder, chain
  <2>3. HasParent(f)
    BY <1>1, <1>3, <2>1 DEF HasParent
  <2>4. Last(s) = chain[k]
    <3>1. Last(last.subFills) = chain[k]
      <4> HIDE DEF k
      <4>1. k \in 1..Len(chain) /\ Len(SubSeq(chain, 1, k)) = k
            /\ SubSeq(chain, 1, k)[k] = chain[k]
        BY <1>4, <2>2
      <4> QED BY <2>2, <4>1 DEF Last
    <3> QED BY <1>2, <1>8, <3>1
  <2>5. f.index = k /\ k + 1 \in DOMAIN chain /\ f = chain[k + 1]
    <3>1. chain[k].index + 1 = f.index
      BY <1>1, <2>3, <2>4 DEF IsParentOf
    <3> QED BY <1>1, <1>4, <2>2, <3>1
  <2>6. /\ new.id = f.id /\ new.input = last.input + f.input
        /\ new.output = last.output + f.output /\ new.subFills = Append(last.subFills, f)
        /\ new \in GroupOrder
    <3>1. Append(last.subFills, f) \in Seq(Fill)
      BY <2>2
    <3> DEFINE more == Append(last.subFills, f)
    <3>2. new = [last EXCEPT !.input = @ + f.input, !.output = @ + f.output,
                             !.subFills = more]
      OBVIOUS
    <3> HIDE DEF more, new
    <3>3. last.input + f.input \in Nat /\ last.output + f.output \in Int
      BY <1>3, <2>2
    <3> QED BY <1>8, <2>1, <3>1, <3>2, <3>3 DEF GroupOrder, more
  <2>7. CollapseFill(os, f) = Append(front, new)
    BY <1>8 DEF CollapseFill, front, last
  <2> HIDE DEF new, k
  <2>8. /\ new.subFills = SubSeq(chain, 1, k + 1) /\ Len(new.subFills) = k + 1
        /\ Last(new.subFills) = f
    <3>1. k \in 1..Len(chain) /\ k + 1 \in 1..Len(chain)
      BY <1>4, <2>2, <2>5
    <3>2. /\ SubSeq(chain, 1, k + 1) = Append(SubSeq(chain, 1, k), chain[k + 1])
          /\ Len(SubSeq(chain, 1, k + 1)) = k + 1
          /\ SubSeq(chain, 1, k + 1)[k + 1] = chain[k + 1]
      BY <1>4, <3>1
    <3> QED BY <2>2, <2>5, <2>6, <3>2 DEF Last
  <2>9. TakesPrefix(m, new)
    <3>1. /\ new.input = TotalInput(new.subFills) /\ new.output = TotalOutput(new.subFills)
      BY <2>2, <2>6, FillTotals
    <3> QED BY <2>5, <2>6, <2>8, <3>1 DEF TakesPrefix, chain
  <2> DEFINE all == Append(front, new)
  <2>10. /\ all \in Seq(GroupOrder) /\ all # <<>> /\ Last(all) = new
         /\ \A i \in DOMAIN all : i \in DOMAIN os /\ all[i].id = os[i].id
         /\ \A i \in DOMAIN all : all[i] = new \/ all[i] = os[i]
    <3>1. /\ all \in Seq(GroupOrder) /\ all # <<>> /\ Last(all) = new
          /\ DOMAIN front = 1..(n - 1) /\ DOMAIN all = 1..n /\ all[n] = new
          /\ \A i \in DOMAIN front : all[i] = front[i]
      <4>1. (n - 1) + 1 = n /\ front \in Seq(GroupOrder) /\ Len(front) = n - 1
        BY <1>7, <1>8
      <4> HIDE DEF new
      <4> QED BY <2>6, <4>1, Appended
    <3> HIDE DEF all
    <3>2. \A i \in DOMAIN all : i # n => i \in DOMAIN front
      BY <1>7, <3>1
    <3> QED BY <1>7, <1>8, <2>6, <3>1, <3>2
  <2>11. TotalInput(all) = TotalInput(l) /\ TotalOutput(all) = TotalOutput(l)
    <3>1. /\ TotalInput(os) = TotalInput(front) + last.input
          /\ TotalOutput(os) = TotalOutput(front) + last.output
          /\ TotalInput(all) = TotalInput(front) + new.input
          /\ TotalOutput(all) = TotalOutput(front) + new.output
          /\ TotalInput(front) \in Nat /\ TotalOutput(front) \in Int
      BY <1>7, <1>8, <2>1, <2>6, OrderTotals
    <3> DEFINE a == TotalInput(front)
               b == TotalOutput(front)
    <3>2. /\ TotalInput(os) = a + last.input /\ TotalOutput(os) = b + last.output
          /\ TotalInput(all) = a + new.input /\ TotalOutput(all) = b + new.output
          /\ a \in Nat /\ b \in Int
      BY <3>1
    <3> HIDE DEF all, a, b
    <3>3. /\ TotalInput(os) = TotalInput(s) /\ TotalOutput(os) = TotalOutput(s)
          /\ new.input = last.input + f.input /\ new.output = last.output + f.output
          /\ last.input \in Nat /\ last.output \in Int
      BY <1>2, <2>2, <2>6
    <3> HIDE DEF new
    <3>4. TotalInput(all) = TotalInput(l)
      BY <1>3, <1>6, <3>2, <3>3
    <3>5. TotalOutput(all) = TotalOutput(l)
      BY <1>3, <1>6, <3>2, <3>3
    <3> QED BY <3>4, <3>5
  <2> HIDE DEF all
  <2>12. \A i \in DOMAIN all : \E j \in DOMAIN l : l[j] = m.fills[all[i].id][1]
    <3> SUFFICES ASSUME NEW i \in DOMAIN all
                 PROVE  \E j \in DOMAIN l : l[j] = m.fills[all[i].id][1]
      OBVIOUS
    <3>1. i \in DOMAIN os /\ all[i].id = os[i].id
      BY <2>10
    <3>2. \E j \in DOMAIN s : s[j] = m.fills[os[i].id][1]
      BY <1>2, <3>1
    <3>3. PICK j \in DOMAIN s : s[j] = m.fills[all[i].id][1]
      BY <3>1, <3>2
    <3> QED BY <1>5, <3>3
  <2>13. \A i \in DOMAIN all : TakesPrefix(m, all[i])
    BY <1>2, <2>9, <2>10
  <2>14. \A i, j \in DOMAIN all : all[i].id = all[j].id => i = j
    BY <1>2, <2>10
  <2>15. CollapsedFrom(m, l, all)
    BY <1>5, <2>8, <2>10, <2>11, <2>12, <2>13, <2>14 DEF CollapsedFrom
  <2> QED BY <2>7, <2>15 DEF all, l
<1>9. CASE ~(os # <<>> /\ last.id = f.id)
  <2> DEFINE new == [id |-> f.id, input |-> f.input, output |-> f.output, subFills |-> <<f>>]
             all == Append(os, new)
  <2>1. ASSUME HasParent(f) PROVE FALSE
    <3>1. s # <<>> /\ Last(s).id = f.id
      BY <1>1, <2>1 DEF IsParentOf
    <3>2. os # <<>> /\ last \in GroupOrder /\ TakesPrefix(m, last)
      BY <1>2, <1>7, <3>1
    <3> DEFINE k == Len(last.subFills)
               c == m.fills[last.id]
    <3>3. /\ last.subFills = SubSeq(c, 1, k) /\ k \in DOMAIN c /\ last.id \in Groups
      BY <3>2 DEF TakesPrefix, GroupOrder
    <3>4. c \in Seq(Fill) /\ k \in Nat \ {0} /\ c[k].id = last.id
      BY <3>3, ChainFills
    <3>5. Last(last.subFills) = c[k]
      <4> HIDE DEF k, c
      <4>1. k \in 1..Len(c) /\ Len(SubSeq(c, 1, k)) = k /\ SubSeq(c, 1, k)[k] = c[k]
        BY <3>3, <3>4
      <4> QED BY <3>3, <4>1 DEF Last
    <3> QED BY <1>2, <1>9, <3>1, <3>2, <3>4, <3>5
  <2>2. f.index = 0 /\ 1 \in DOMAIN chain /\ f = chain[1]
    BY <1>1, <1>3, <2>1 DEF HasParent
  <2>3. /\ new.id = f.id /\ new.input = f.input /\ new.output = f.output
        /\ new.subFills = <<f>> /\ new \in GroupOrder
    BY <1>3 DEF GroupOrder
  <2>4. CollapseFill(os, f) = all
    BY <1>9 DEF CollapseFill, last
  <2>5. /\ <<f>> = SubSeq(chain, 1, 1) /\ Len(<<f>>) = 1 /\ Last(<<f>>) = f
        /\ <<f>> = Append(<<>>, f)
    <3>1. Len(chain) >= 1
      BY <1>4, <2>2
    <3> QED BY <1>4, <2>2, <3>1 DEF Last
  <2>6. TakesPrefix(m, new)
    <3>1. TotalInput(<<f>>) = f.input /\ TotalOutput(<<f>>) = f.output
      <4>1. <<>> \in Seq(Fill)
        OBVIOUS
      <4>2. /\ TotalInput(Append(<<>>, f)) = 0 + f.input
            /\ TotalOutput(Append(<<>>, f)) = 0 + f.output
        BY <4>1, FillTotals
      <4> QED BY <1>3, <2>5, <4>2
    <3> HIDE DEF new
    <3> QED BY <2>2, <2>3, <2>5, <3>1 DEF TakesPrefix, chain
  <2> HIDE DEF new
  <2>7. /\ all \in Seq(GroupOrder) /\ all # <<>> /\ Last(all) = new
        /\ \A i \in DOMAIN all : \/ i = n + 1 /\ all[i] = new
                                 \/ i \in DOMAIN os /\ all[i] = os[i]
    <3>1. /\ all \in Seq(GroupOrder) /\ all # <<>> /\ Last(all) = new
          /\ DOMAIN all = 1..(n + 1) /\ all[n + 1] = new
          /\ \A i \in DOMAIN os : all[i] = os[i]
      BY <1>2, <2>3, Appended DEF n
    <3> HIDE DEF all
    <3>2. \A i \in DOMAIN all : i = n + 1 \/ i \in DOMAIN os
      BY <1>7, <3>1
    <3> QED BY <3>1, <3>2
  <2>8. TotalInput(all) = TotalInput(l) /\ TotalOutput(all) = TotalOutput(l)
    <3>1. /\ TotalInput(all) = TotalInput(os) + new.input
          /\ TotalOutput(all) = TotalOutput(os) + new.output
      BY <1>2, <2>3, OrderTotals
    <3> QED BY <1>2, <1>6, <2>3, <3>1
  <2> HIDE DEF all
  <2>9. \A i \in DOMAIN all : \E j \in DOMAIN l : l[j] = m.fills[all[i].id][1]
    <3> SUFFICES ASSUME NEW i \in DOMAIN all
                 PROVE  \E j \in DOMAIN l : l[j] = m.fills[all[i].id][1]
      OBVIOUS
    <3>1. CASE i = n + 1 /\ all[i] = new
      BY <1>5, <2>2, <2>3, <3>1 DEF chain
    <3>2. CASE i \in DOMAIN os /\ all[i] = os[i]
      <4>1. PICK j \in DOMAIN s : s[j] = m.fills[all[i].id][1]
        BY <1>2, <3>2
      <4> QED BY <1>5, <4>1
    <3> QED BY <2>7, <3>1, <3>2
  <2>10. \A i \in DOMAIN os : os[i].id # f.id
    BY <1>1, <1>2, <2>2 DEF chain
  <2>11. \A i, j \in DOMAIN all : all[i].id = all[j].id => i = j
    BY <1>2, <2>3, <2>7, <2>10
  <2>12. \A i \in DOMAIN all : TakesPrefix(m, all[i])
    BY <1>2, <2>6, <2>7
  <2>13. CollapsedFrom(m, l, all)
    BY <1>5, <2>3, <2>5, <2>7, <2>8, <2>9, <2>11, <2>12 DEF CollapsedFrom
  <2> QED BY <2>4, <2>13 DEF l
<1> QED BY <1>8, <1>9

\* What collapsing a path makes of it.
THEOREM CollapseFacts ==
  \A m \in Markets : \A s \in Seq(Fill) :
    Collapsible(m, s) => CollapsedFrom(m, s, Collapse(s))
<1> SUFFICES ASSUME NEW m \in Markets
             PROVE  \A s \in Seq(Fill) :
                      Collapsible(m, s) => CollapsedFrom(m, s, Collapse(s))
  OBVIOUS
<1> DEFINE T == {s \in Seq(Fill) : Collapsible(m, s) => CollapsedFrom(m, s, Collapse(s))}
<1>1. <<>> \in T
  <2>1. Collapse(<<>>) = <<>>
    BY SearchFolds, Order!FoldEmpty
  <2>2. CollapsedFrom(m, <<>>, <<>>)
    BY DEF CollapsedFrom
  <2> QED BY <2>1, <2>2
<1>2. ASSUME NEW s \in Seq(Fill), NEW f \in Fill, s \in T PROVE Append(s, f) \in T
  <2> SUFFICES ASSUME Collapsible(m, Append(s, f))
               PROVE  CollapsedFrom(m, Append(s, f), Collapse(Append(s, f)))
    OBVIOUS
  <2>1. CollapsedFrom(m, s, Collapse(s))
    BY <1>2, CollapsibleFront
  <2>2. Collapse(Append(s, f)) = CollapseFill(Collapse(s), f)
    BY SearchFolds, Order!FoldAppend
  <2> QED BY <2>1, <2>2, CollapseOne
<1> HIDE DEF T
<1>3. Seq(Fill) \subseteq T
  BY <1>1, <1>2, In!SeqInduction
<1> QED BY <1>3 DEF T

-----------------------------------------------------------------------------
(* What follows from the invariants *)

\* No mix makes more calls than its budget allows.
THEOREM CallsWithinBudget == Spec => []WithinBudget
<1>1. MeasureInv => WithinBudget
  BY DEF MeasureInv
<1> QED BY <1>1, MeasureInvariant, PTL

LEMMA MeasuredTotals ==
  ASSUME market \in Markets, NEW p \in Path, Measured(market, p)
  PROVE  /\ p.size.input = IF TotalInput(p.fills) > market.amount
                           THEN market.amount ELSE TotalInput(p.fills)
         /\ Len(p.fills) > 0 =>
              TotalInput(SubSeq(p.fills, 1, Len(p.fills) - 1)) < market.amount
<1>1. market.amount \in Nat /\ p.fills \in Seq(Fill)
  BY MarketsAssumption DEF Path
<1>2. TotalInput(p.fills) \in Nat
  BY <1>1, FillTotals
<1> QED BY <1>1, <1>2 DEF Measured

\* Only the last fill of a path is cut, and the size of the path is that of its
\* fills up to the amount.
THEOREM OnlyTheLastIsClipped == Spec => []ClippedOnlyAtTheEnd
<1>1. SearchInv /\ MeasureInv => ClippedOnlyAtTheEnd
  <2> SUFFICES ASSUME SearchInv, MeasureInv PROVE ClippedOnlyAtTheEnd
    OBVIOUS
  <2>1. market \in Markets /\ best \in Path /\ Measured(market, best)
    BY DEF SearchInv, TypeOK, MeasureInv
  <2>2. \A i \in DOMAIN stack : stack[i].path \in Path /\ Measured(market, stack[i].path)
    <3> DEFINE FrameSet == [path : Path, rest : SUBSET DOMAIN pool, walked : SUBSET DOMAIN pool]
    <3>1. stack \in Seq(FrameSet)
      BY DEF SearchInv, TypeOK
    <3>2. \A x \in FrameSet : x.path \in Path
      OBVIOUS
    <3> HIDE DEF FrameSet
    <3>3. \A i \in DOMAIN stack : stack[i] \in FrameSet
      BY <3>1
    <3> QED BY <3>2, <3>3 DEF MeasureInv
  <2> QED BY <2>1, <2>2, MeasuredTotals DEF ClippedOnlyAtTheEnd
<1> QED BY <1>1, SearchInvariant, MeasureInvariant, PTL

\* Each source of a route is called by one order.
THEOREM SourcesAreCalledOnce == Spec => []OneOrderPerGroup
<1>1. SearchInv /\ MeasureInv => OneOrderPerGroup
  <2> SUFFICES ASSUME SearchInv, MeasureInv PROVE OneOrderPerGroup
    OBVIOUS
  <2>1. /\ market \in Markets /\ best.fills \in Seq(Fill)
        /\ Collapsible(market, best.fills)
    BY DEF SearchInv, TypeOK, BestOK, Path, MeasureInv, Measured, Collapsible
  <2>2. CollapsedFrom(market, best.fills, Collapse(best.fills))
    BY <2>1, CollapseFacts
  <2>3. outcome.orders = Collapse(best.fills) \/ outcome.orders = <<>>
    BY DEF MeasureInv, OutcomeOK
  <2> QED BY <2>2, <2>3 DEF OneOrderPerGroup, CollapsedFrom
<1> QED BY <1>1, SearchInvariant, MeasureInvariant, PTL

-----------------------------------------------------------------------------
(* The order of the paths *)

LEMMA OverheadType == \A kinds : ExchangeOverhead(kinds) \in Nat
<1> SUFFICES ASSUME NEW kinds PROVE ExchangeOverhead(kinds) \in Nat
  OBVIOUS
<1>1. \A k \in DOMAIN VipGas : VipGas[k] \in Nat
  BY DEF VipGas
<1>2. ASSUME NEW k \in DOMAIN VipGas, kinds = {k}
      PROVE  (CHOOSE c \in kinds : TRUE) = k
  BY <1>2
<1> QED BY <1>1, <1>2 DEF ExchangeOverhead

LEMMA TruncateType ==
  ASSUME NEW n \in Int, NEW d \in Nat \ {0}
  PROVE  Truncate(n, d) \in Int
BY DEF Truncate

LEMMA NonzeroProduct ==
  ASSUME NEW a \in Int, a # 0, NEW b \in Nat \ {0}
  PROVE  a * b \in Int /\ a * b # 0
OBVIOUS

\* The rates of complete paths are fractions of integers, with positive denominators.
LEMMA CompleteRateType ==
  ASSUME market \in Markets, NEW p \in Path, IsComplete(market, p)
  PROVE  /\ AdjustedCompleteRate(market, p)[1] \in Int
         /\ AdjustedCompleteRate(market, p)[2] \in Nat \ {0}
<1> DEFINE z == p.size
           overhead == ExchangeOverhead(SourceFlags(market, p))
           out == AdjustedOutput(market, p)
<1>1. /\ market.amount \in Nat \ {0} /\ market.outPerEth \in Nat /\ market.inPerEth \in Nat
      /\ z.input \in Nat \ {0} /\ z.adj \in Int /\ z.den \in Nat \ {0}
      /\ overhead \in Nat
  <2>1. /\ market.amount \in Nat \ {0} /\ market.outPerEth \in Nat /\ market.inPerEth \in Nat
    BY MarketsAssumption
  <2>2. z.input \in Nat /\ z.adj \in Int /\ z.den \in Nat \ {0} /\ z.input >= market.amount
    BY <2>1 DEF Path, Sizes, IsComplete
  <2> QED BY <2>1, <2>2, OverheadType
<1>2. out \in Int
  <2> DEFINE share == Truncate(z.adj, z.den * z.input)
             penalty == IF market.outPerEth # 0
                        THEN market.outPerEth * overhead
                        ELSE market.inPerEth * overhead * share
  <2>1. share \in Int
    <3>1. z.den * z.input \in Nat \ {0}
      BY <1>1, PositiveProduct
    <3> QED BY <1>1, <3>1, TruncateType
  <2>2. out = Penalised(market, z.adj, penalty * z.den)
    BY DEF AdjustedOutput
  <2> HIDE DEF z, overhead, share, out
  <2>3. penalty \in Int
    BY <1>1, <2>1
  <2> HIDE DEF penalty
  <2>4. penalty * z.den \in Int
    BY <1>1, <2>3
  <2> QED BY <1>1, <2>2, <2>4 DEF Penalised
<1> HIDE DEF out
<1>3. AdjustedCompleteRate(market, p)
        = GetCompleteRate(market.side, z.input, out, z.den, market.amount)
  BY DEF AdjustedCompleteRate, out
<1> HIDE DEF z
<1> DEFINE a == z.den * market.amount
           b == z.input * z.input * z.den
           c == out * market.amount
<1>4. /\ a \in Nat \ {0}
      /\ b \in Int /\ -b \in Int /\ c \in Int /\ -c \in Int
      /\ out # 0 => c # 0
  <2>1. b \in Int /\ -b \in Int /\ c \in Int /\ -c \in Int
    BY <1>1, <1>2
  <2> QED BY <1>1, <1>2, <2>1, PositiveProduct, NonzeroProduct
<1>5. \/ GetCompleteRate(market.side, z.input, out, z.den, market.amount)
           \in {ZeroRate, Rate(out, a)}
      \/ /\ GetCompleteRate(market.side, z.input, out, z.den, market.amount) = Rate(b, c)
         /\ out # 0
  BY DEF GetCompleteRate
<1> HIDE DEF a, b, c
<1> QED BY <1>2, <1>3, <1>4, <1>5 DEF Rate, ZeroRate

\* A path that wins against another one does not lose against it.
LEMMA BetterIsAsymmetric ==
  ASSUME market \in Markets, NEW p \in Path, NEW q \in Path
  PROVE  /\ ~IsBetterThan(market, p, p)
         /\ IsBetterThan(market, p, q) => ~IsBetterThan(market, q, p)
<1>1. p.size.input \in Nat /\ q.size.input \in Nat
  BY DEF Path, Sizes
<1>2. \A a, b : /\ a[1] \in Int /\ a[2] \in Int /\ b[1] \in Int /\ b[2] \in Int
                => ~RateGT(a, a) /\ (RateGT(a, b) => ~RateGT(b, a))
  <2> SUFFICES ASSUME NEW a, NEW b, a[1] \in Int, a[2] \in Int, b[1] \in Int, b[2] \in Int
               PROVE  ~RateGT(a, a) /\ (RateGT(a, b) => ~RateGT(b, a))
    OBVIOUS
  <2>1. a[1] * a[2] \in Int /\ a[1] * b[2] \in Int /\ b[1] * a[2] \in Int
    OBVIOUS
  <2> QED BY <2>1 DEF RateGT
<1> QED BY <1>1, <1>2, CompleteRateType DEF IsBetterThan

\* The retained path stays or gives way to a better one.
LEMMA BestStaysOrImproves ==
  SearchInv /\ [Next]_vars /\ phase # "fills" =>
    market' = market /\ (best' = best \/ IsBetterThan(market, best', best))
<1> SUFFICES ASSUME SearchInv, [Next]_vars, phase # "fills"
             PROVE  market' = market /\ (best' = best \/ IsBetterThan(market, best', best))
  OBVIOUS
<1>1. CASE StartMix
  BY <1>1 DEF StartMix, Better
<1>2. CASE Walk
  BY <1>2 DEF Walk, Better
<1>3. CASE Return \/ EndMix \/ Choose
  BY <1>3 DEF Return, EndMix, Choose
<1>4. CASE UNCHANGED vars
  BY <1>4 DEF vars
<1> QED BY <1>1, <1>2, <1>3, <1>4 DEF Next, Done, BuildPaths

\* The path a search retains never loses against one it retained before.
THEOREM RetainedPathNeverWorsens == Spec => NeverWorsens
<1>1. SearchInv /\ SearchInv' /\ [Next]_vars
        => [phase # "fills" => ~IsBetterThan(market, best, best')]_vars
  <2> SUFFICES ASSUME SearchInv, SearchInv', [Next]_vars, phase # "fills"
               PROVE  ~IsBetterThan(market, best, best')
    OBVIOUS
  <2>1. market' = market /\ (best' = best \/ IsBetterThan(market, best', best))
    BY BestStaysOrImproves
  <2>2. market \in Markets /\ best \in Path /\ best' \in Path
    BY <2>1 DEF SearchInv, TypeOK, Path
  <2> QED BY <2>1, <2>2, BetterIsAsymmetric
<1> QED BY <1>1, SearchInvariant, PTL DEF Spec, NeverWorsens

-----------------------------------------------------------------------------
(* What a walk that ends before its budget has seen *)

\* Numbers that are compared after a multiplication by the same positive number.
LEMMA ScaledOrder ==
  ASSUME NEW a \in Int, NEW b \in Int, NEW c \in Nat \ {0}
  PROVE  /\ a * c > b * c <=> a > b
         /\ a * c \in Int /\ b * c \in Int
OBVIOUS

\* Fractions with positive denominators are ordered.
LEMMA RatesAreTransitive ==
  ASSUME NEW a, NEW b, NEW c, a[1] \in Int, b[1] \in Int, c[1] \in Int,
         a[2] \in Nat \ {0}, b[2] \in Nat \ {0}, c[2] \in Nat \ {0},
         RateGT(a, b), RateGT(b, c)
  PROVE  RateGT(a, c)
<1> DEFINE p == a[1]  q == a[2]  r == b[1]  s == b[2]  t == c[1]  u == c[2]
<1>1. /\ p \in Int /\ r \in Int /\ t \in Int
      /\ q \in Nat \ {0} /\ s \in Nat \ {0} /\ u \in Nat \ {0}
      /\ p * s > r * q /\ r * u > t * s
  BY DEF RateGT
<1> HIDE DEF p, q, r, s, t, u
<1>2. (p * s) * u > (r * q) * u /\ (r * u) * q > (t * s) * q
  <2>1. p * s \in Int /\ r * q \in Int /\ r * u \in Int /\ t * s \in Int
    BY <1>1
  <2> QED BY <1>1, <2>1, ScaledOrder
<1>3. (p * u) * s > (t * q) * s
  <2>1. (p * s) * u = (p * u) * s /\ (r * q) * u = (r * u) * q /\ (t * s) * q = (t * q) * s
    BY <1>1
  <2>2. /\ (p * u) * s \in Int /\ (r * u) * q \in Int /\ (t * q) * s \in Int
    BY <1>1
  <2> QED BY <1>2, <2>1, <2>2
<1>4. p * u > t * q
  <2>1. p * u \in Int /\ t * q \in Int
    BY <1>1
  <2> QED BY <1>1, <1>3, <2>1, ScaledOrder
<1> QED BY <1>4 DEF RateGT, p, q, t, u

\* A path that wins against the winner wins against the loser.
LEMMA BetterIsTransitive ==
  ASSUME market \in Markets, NEW p \in Path, NEW q \in Path, NEW r \in Path,
         IsBetterThan(market, p, q), IsBetterThan(market, q, r)
  PROVE  IsBetterThan(market, p, r)
<1>1. /\ p.size.input \in Nat /\ q.size.input \in Nat /\ r.size.input \in Nat
      /\ p.size.input <= market.amount /\ q.size.input <= market.amount
      /\ r.size.input <= market.amount /\ market.amount \in Nat
  BY MarketsAssumption DEF Path, Sizes
<1>2. CASE IsComplete(market, p) /\ IsComplete(market, q) /\ IsComplete(market, r)
  <2> DEFINE a == AdjustedCompleteRate(market, p)
             b == AdjustedCompleteRate(market, q)
             c == AdjustedCompleteRate(market, r)
  <2>1. RateGT(a, b) /\ RateGT(b, c)
    BY <1>2 DEF IsBetterThan
  <2>2. /\ a[1] \in Int /\ b[1] \in Int /\ c[1] \in Int
        /\ a[2] \in Nat \ {0} /\ b[2] \in Nat \ {0} /\ c[2] \in Nat \ {0}
    BY <1>2, CompleteRateType
  <2> HIDE DEF a, b, c
  <2>3. RateGT(a, c)
    BY <2>1, <2>2, RatesAreTransitive
  <2> QED BY <1>2, <2>3 DEF IsBetterThan, a, c
<1>3. CASE ~(IsComplete(market, p) /\ IsComplete(market, q) /\ IsComplete(market, r))
  BY <1>1, <1>3 DEF IsBetterThan, IsComplete
<1> QED BY <1>2, <1>3

\* What does not beat the best path does not beat the one that replaces it.
LEMMA BetterKeepsOut ==
  ASSUME market \in Markets, NEW p \in Path, NEW q \in Path, NEW r \in Path
  PROVE  /\ IsBetterThan(market, p, Better(q, r)) => IsBetterThan(market, p, r)
         /\ ~IsBetterThan(market, q, Better(q, r))
         /\ Better(q, r) \in Path
BY BetterIsAsymmetric, BetterIsTransitive DEF Better

\* What every path of MixturesOf is: each fill of it is one of the pool, not among
\* those before it, behind its parent, and those before it do not reach the amount.
IsMixture(p) ==
  /\ p \in Path /\ p = CreatePath(market, p.fills)
  /\ \A i \in DOMAIN p.fills :
       LET before == CreatePath(market, SubSeq(p.fills, 1, i - 1))
       IN  /\ p.fills[i] \in Range(pool) /\ p.fills[i] \notin Range(before.fills)
           /\ IsValidNextFill(before, p.fills[i]) /\ ~IsComplete(market, before)

\* Appending to a path that was created from its fills creates the longer one.
LEMMA AppendCreates ==
  ASSUME NEW p, p.fills \in Seq(Fill), p = CreatePath(market, p.fills), NEW f \in Fill
  PROVE  AppendFill(market, p, f) = CreatePath(market, Append(p.fills, f))
<1> DEFINE s == p.fills
<1>1. CreatePath(market, Append(s, f)).size = AddFillHere(CreatePath(market, s).size, f)
  BY SearchFolds, Size!FoldAppend
<1>2. p.size = CreatePath(market, s).size
  OBVIOUS
<1>3. CreatePath(market, Append(s, f)).size = AddFillSize(market, p.size, f)
  BY <1>1, <1>2 DEF AddFillHere
<1>4. CreatePath(market, Append(s, f))
        = [fills |-> Append(s, f), size |-> CreatePath(market, Append(s, f)).size]
  BY DEF CreatePath
<1> HIDE DEF s
<1> QED BY <1>3, <1>4 DEF AppendFill, s

\* A fill more keeps a mixture one.
LEMMA ExtensionIsMixture ==
  ASSUME market \in Markets, pool \in Seq(Fill), NEW p, IsMixture(p),
         NEW q \in Extensions(market, pool, p)
  PROVE  IsMixture(q)
<1> DEFINE s == p.fills
           n == Len(s)
<1>1. PICK f \in Range(pool) : /\ f \notin Range(s) /\ IsValidNextFill(p, f)
                              /\ ~IsComplete(market, p) /\ q = AppendFill(market, p, f)
  BY DEF Extensions
<1>2. f \in Fill /\ p \in Path /\ s \in Seq(Fill) /\ n \in Nat /\ market.amount \in Nat
      /\ p.size \in Sizes(market.amount) /\ p = CreatePath(market, s)
  BY <1>1, MarketsAssumption DEF Range, IsMixture, Path
<1>3. q = CreatePath(market, Append(s, f)) /\ q.fills = Append(s, f)
  <2>1. q = CreatePath(market, Append(s, f))
    BY <1>1, <1>2, AppendCreates
  <2> QED BY <2>1 DEF CreatePath
<1>4. q \in Path
  <2>1. q.size \in Sizes(market.amount) /\ q.fills \in Seq(Fill)
    BY <1>1, <1>2, AddFillSizeType DEF AppendFill
  <2> QED BY <1>1, <2>1 DEF AppendFill, Path
<1>5. /\ DOMAIN q.fills = 1..(n + 1) /\ q.fills[n + 1] = f
      /\ \A i \in 1..n : q.fills[i] = s[i]
      /\ \A i \in 1..(n + 1) : SubSeq(q.fills, 1, i - 1) = SubSeq(s, 1, i - 1)
      /\ SubSeq(s, 1, n) = s
  BY <1>2, <1>3
<1>6. ASSUME NEW i \in 1..(n + 1)
      PROVE  LET before == CreatePath(market, SubSeq(q.fills, 1, i - 1))
             IN  /\ q.fills[i] \in Range(pool) /\ q.fills[i] \notin Range(before.fills)
                 /\ IsValidNextFill(before, q.fills[i]) /\ ~IsComplete(market, before)
  <2>1. CASE i = n + 1
    <3>0. i - 1 = n
      BY <1>2, <2>1
    <3> HIDE DEF s, n
    <3>1. CreatePath(market, SubSeq(q.fills, 1, i - 1)) = p
      BY <1>2, <1>5, <3>0
    <3> QED BY <1>1, <1>5, <2>1, <3>1 DEF s
  <2>2. CASE i # n + 1
    <3>1. i \in 1..n /\ i \in DOMAIN s
      BY <1>2, <2>2
    <3>2. SubSeq(q.fills, 1, i - 1) = SubSeq(s, 1, i - 1) /\ q.fills[i] = s[i]
      BY <1>5, <3>1
    <3> QED BY <3>1, <3>2 DEF IsMixture
  <2> QED BY <2>1, <2>2
<1> HIDE DEF s, n
<1>7. q = CreatePath(market, q.fills)
  BY <1>3
<1> QED BY <1>4, <1>5, <1>6, <1>7 DEF IsMixture

LEMMA EmptyCreated == CreatePath(market, <<>>) = EmptyPath
<1>1. CreatePath(market, <<>>).size = EmptySize
  BY SearchFolds, Size!FoldEmpty
<1> QED BY <1>1 DEF CreatePath, EmptyPath

\* The reference holds mixtures only: the empty one, and those the rounds add.
LEMMA MixturesAreMixtures ==
  SearchInv => \A p \in MixturesOf(market, pool) : IsMixture(p)
<1> SUFFICES ASSUME SearchInv
             PROVE  \A p \in MixturesOf(market, pool) : IsMixture(p)
  OBVIOUS
<1>1. market \in Markets /\ pool \in Seq(Fill) /\ market.amount \in Nat
  BY MarketsAssumption DEF SearchInv, TypeOK
<1> DEFINE All == {p \in Path : IsMixture(p)}
<1>2. IsMixture(EmptyPath)
  <2>1. EmptyPath \in Path /\ EmptyPath.fills = <<>>
    BY <1>1, EmptyPathType DEF Path
  <2> QED BY <2>1, EmptyCreated DEF IsMixture
<1>3. {EmptyPath} \in SUBSET All
  BY <1>2 DEF IsMixture
<1>4. ASSUME NEW mixtures \in SUBSET All, NEW f \in Fill
      PROVE  ExtendHere(mixtures, f) \in SUBSET All
  <2> SUFFICES ASSUME NEW q \in ExtendHere(mixtures, f) PROVE IsMixture(q)
    BY DEF IsMixture
  <2>1. q \in mixtures \/ \E p \in mixtures : q \in Extensions(market, pool, p)
    BY DEF ExtendHere, Extended
  <2> QED BY <1>1, <2>1, ExtensionIsMixture
<1> HIDE DEF All
<1>5. Mix!Fold(pool) \in SUBSET All
  BY <1>1, <1>3, <1>4, Mix!FoldType
<1> QED BY <1>5, SearchFolds DEF All

LEMMA MixturesStayMixtures ==
  (SearchInv => \A p \in MixturesOf(market, pool) : IsMixture(p))'
BY MixturesAreMixtures, PTL

LEMMA StartMixMix == SearchInv /\ SearchInv' /\ StartMix => MixInv'
<1> SUFFICES ASSUME SearchInv, SearchInv', StartMix PROVE MixInv'
  OBVIOUS
<1>1. /\ stack' = <<Frame(EmptyPath, DOMAIN pool')>> /\ best' = Better(EmptyPath, best)
      /\ market' = market /\ market \in Markets /\ best \in Path
  BY DEF StartMix, SearchInv, TypeOK
<1>2. EmptyPath.fills = <<>> /\ Len(<<>>) = 0 /\ EmptyPath \in Path
  BY <1>1, MarketsAssumption, EmptyPathType DEF Path
<1>3. FrameIsFull(stack[1])'
  <2>1. CreatePath(market', <<>>) = EmptyPath
    BY <1>1, EmptyCreated
  <2>2. stack'[1] = [path |-> EmptyPath, rest |-> DOMAIN pool', walked |-> {}]
    BY <1>1 DEF Frame
  <2>3. {k \in DOMAIN pool' : pool'[k] \notin Range(<<>>)} = DOMAIN pool'
    BY DEF Range
  <2>4. stack'[1].path = EmptyPath /\ stack'[1].rest = DOMAIN pool'
    BY <2>2
  <2>5. stack'[1].path.fills = <<>>
    BY <1>2, <2>4
  <2>6. stack'[1].path = CreatePath(market', stack'[1].path.fills)
    BY <2>1, <2>4, <2>5
  <2>7. stack'[1].rest = {k \in DOMAIN pool' : pool'[k] \notin Range(stack'[1].path.fills)}
    BY <2>3, <2>4, <2>5
  <2> QED BY <2>6, <2>7 DEF FrameIsFull
<1>4. ASSUME NEW p \in MixturesOf(market', pool'), IsBetterThan(market, p, best')
      PROVE  Unwalked(stack[1], p)'
  <2>1. IsMixture(p)'
    BY MixturesStayMixtures
  <2>2. p \in Path' /\ p = CreatePath(market', p.fills)
    BY <2>1 DEF IsMixture
  <2>3. p \in Path /\ p = CreatePath(market, p.fills)
    BY <1>1, <2>2 DEF Path
  <2>4. p.fills # <<>>
    BY <1>1, <1>2, <1>4, <2>3, EmptyCreated, BetterKeepsOut
  <2>5. p.fills \in Seq(Fill) /\ Len(p.fills) \in Nat \ {0}
    BY <2>3, <2>4 DEF Path
  <2>6. p.fills[1] \in Range(pool')
    BY <2>1, <2>5 DEF IsMixture
  <2>7. SubSeq(p.fills, 1, 0) = <<>>
    BY <2>5
  <2>8. PICK k \in DOMAIN pool' : pool'[k] = p.fills[1]
    BY <2>6 DEF Range
  <2>9. stack'[1].path = EmptyPath /\ stack'[1].rest = DOMAIN pool' /\ stack'[1].walked = {}
    BY <1>1 DEF Frame
  <2>10. k \in stack'[1].rest \ stack'[1].walked /\ pool'[k] = p.fills[0 + 1]
    BY <2>8, <2>9
  <2>11. 0 < Len(p.fills)
    BY <2>5
  <2> QED BY <1>2, <2>7, <2>9, <2>10, <2>11 DEF Unwalked
<1>5. 1 \in DOMAIN stack' /\ \A i \in DOMAIN stack' : i = 1
  BY <1>1
<1> QED BY <1>1, <1>3, <1>4, <1>5 DEF MixInv

\* The call that is made covers the mixtures that begin with its path, and those that
\* do not are left to the calls that made it.
LEMMA WalkMix == SearchInv /\ MixInv /\ Walk => MixInv'
<1> SUFFICES ASSUME SearchInv, MixInv, Walk PROVE MixInv'
  OBVIOUS
<1>0. PICK n : n = Len(stack)
  OBVIOUS
<1> DEFINE FrameSet == [path : Path, rest : SUBSET DOMAIN pool, walked : SUBSET DOMAIN pool]
           path(k) == AppendFill(market, Top.path, pool[k])
           marked(k) == [stack EXCEPT ![n].walked = @ \union {k}]
<1>1. PICK k \in Candidates : /\ stack' = Append(marked(k), Frame(path(k), Top.rest \ {k}))
                             /\ best' = Better(path(k), best)
  BY <1>0 DEF Walk
<1>2. /\ phase = "walk" /\ stack # <<>> /\ steps' = steps + 1 /\ steps \in Nat
      /\ market \in Markets /\ round \in Nat /\ stack \in Seq(FrameSet)
      /\ pool \in Seq(Fill) /\ best \in Path
      /\ \A i, j \in DOMAIN pool : pool[i] = pool[j] => i = j
      /\ UNCHANGED <<market, phase, pending, rates, round, pool, outcome>>
  BY DEF Walk, SearchInv, TypeOK, PoolOK
<1>3. n \in Nat \ {0} /\ DOMAIN stack = 1..n /\ n \in DOMAIN stack
      /\ Top = stack[n] /\ Top \in FrameSet
  <2> HIDE DEF FrameSet
  <2> QED BY <1>0, <1>2 DEF Top
<1> DEFINE s == Top.path.fills
           f == pool[k]
<1>4. /\ k \in Top.rest /\ k \in DOMAIN pool /\ f \in Fill /\ s \in Seq(Fill)
      /\ FrameIsFull(Top)
  <2>1. k \in Top.rest
    BY DEF Candidates
  <2>2. Top.rest \subseteq DOMAIN pool /\ Top.path \in Path
    BY <1>3
  <2>3. FrameIsFull(Top)
    BY <1>2, <1>3 DEF MixInv
  <2> QED BY <1>2, <2>1, <2>2, <2>3 DEF Path
<1>5. path(k) = CreatePath(market, Append(s, f)) /\ path(k).fills = Append(s, f)
  <2> DEFINE top == Top.path
  <2>1. top.fills \in Seq(Fill) /\ top = CreatePath(market, top.fills)
    BY <1>4 DEF FrameIsFull
  <2> HIDE DEF f, top
  <2>2. AppendFill(market, top, f) = CreatePath(market, Append(top.fills, f))
    BY <1>4, <2>1, AppendCreates
  <2>3. CreatePath(market, Append(top.fills, f)).fills = Append(top.fills, f)
    BY DEF CreatePath
  <2> QED BY <2>2, <2>3 DEF top, f
<1>6. /\ Len(s) \in Nat /\ Len(Append(s, f)) = Len(s) + 1
      /\ Range(Append(s, f)) = Range(s) \union {f}
  <2> DEFINE l == Append(s, f)
  <2>1. /\ Len(s) \in Nat /\ Len(l) = Len(s) + 1 /\ DOMAIN l = 1..(Len(s) + 1)
        /\ DOMAIN s = 1..Len(s) /\ l[Len(s) + 1] = f /\ \A i \in 1..Len(s) : l[i] = s[i]
    BY <1>4
  <2> HIDE DEF s, f, l
  <2>2. Range(l) = Range(s) \union {f}
    <3>1. ASSUME NEW x \in Range(l) PROVE x \in Range(s) \union {f}
      <4>1. PICK i \in 1..(Len(s) + 1) : x = l[i]
        BY <2>1 DEF Range
      <4>2. i = Len(s) + 1 \/ i \in 1..Len(s)
        BY <2>1
      <4> QED BY <2>1, <4>1, <4>2 DEF Range
    <3>2. ASSUME NEW x \in Range(s) \union {f} PROVE x \in Range(l)
      <4>1. Len(s) + 1 \in DOMAIN l /\ \A i \in DOMAIN s : i \in DOMAIN l
        BY <2>1
      <4> QED BY <2>1, <4>1 DEF Range
    <3> QED BY <3>1, <3>2
  <2> QED BY <2>1, <2>2 DEF l
<1> DEFINE last == Frame(path(k), Top.rest \ {k})
<1>7. /\ last.path = path(k) /\ last.rest = Top.rest \ {k} /\ last.walked = {}
      /\ last.path.fills = Append(s, f)
  BY <1>5 DEF Frame
<1>8. last.rest = {j \in DOMAIN pool : pool[j] \notin Range(Append(s, f))}
  <2>1. Top.rest = {j \in DOMAIN pool : pool[j] \notin Range(s)}
    BY <1>4 DEF FrameIsFull
  <2> HIDE DEF s, last, path
  <2> QED BY <1>2, <1>4, <1>6, <1>7, <2>1
<1>9. /\ marked(k) \in Seq(FrameSet) /\ Len(marked(k)) = n
      /\ \A i \in 1..n : /\ marked(k)[i].path = stack[i].path
                         /\ marked(k)[i].rest = stack[i].rest
                         /\ marked(k)[i].walked \subseteq stack[i].walked \union {k}
                         /\ i # n => marked(k)[i] = stack[i]
  <2>1. [stack[n] EXCEPT !.walked = @ \union {k}] \in FrameSet
    BY <1>3, <1>4
  <2>2. marked(k) = [stack EXCEPT ![n] = [stack[n] EXCEPT !.walked = @ \union {k}]]
    BY <1>3
  <2>3. marked(k) \in Seq(FrameSet) /\ Len(marked(k)) = n
    <3> HIDE DEF FrameSet, marked
    <3> QED BY <1>2, <1>3, <2>1, <2>2
  <2>4. ASSUME NEW i \in 1..n
        PROVE  /\ marked(k)[i].path = stack[i].path
               /\ marked(k)[i].rest = stack[i].rest
               /\ marked(k)[i].walked \subseteq stack[i].walked \union {k}
               /\ i # n => marked(k)[i] = stack[i]
    <3>1. stack[i] \in FrameSet
      <4> HIDE DEF FrameSet
      <4> QED BY <1>2, <1>3
    <3>2. CASE i = n
      BY <1>3, <2>2, <3>1, <3>2
    <3>3. CASE i # n
      BY <1>3, <2>2, <3>3
    <3> QED BY <3>2, <3>3
  <2> QED BY <2>3, <2>4
<1> HIDE DEF last, marked, FrameSet, path
<1>10. /\ DOMAIN stack' = 1..(n + 1) /\ stack'[n + 1] = last
       /\ \A i \in 1..n : stack'[i] = marked(k)[i]
  <2>1. last \in {last} \union FrameSet /\ stack' = Append(marked(k), last)
    BY <1>1 DEF last
  <2>2. marked(k) \in Seq(FrameSet \union {last})
    BY <1>9, SeqMonotonic
  <2> DEFINE T == FrameSet \union {last}
             old == marked(k)
  <2>3. old \in Seq(T) /\ Len(old) = n /\ last \in T /\ stack' = Append(old, last)
    BY <1>9, <2>1, <2>2
  <2> HIDE DEF T, old
  <2>4. /\ Len(stack') = n + 1 /\ stack' \in Seq(T)
        /\ stack'[n + 1] = last /\ \A i \in 1..n : stack'[i] = old[i]
    BY <1>3, <2>3
  <2> QED BY <2>4 DEF old
<1>11. ASSUME NEW i \in DOMAIN stack' PROVE FrameIsFull(stack[i])'
  <2>1. CASE i = n + 1
    <3>1. last.path = CreatePath(market, last.path.fills)
      BY <1>5, <1>7
    <3> QED BY <1>2, <1>7, <1>8, <1>10, <2>1, <3>1 DEF FrameIsFull
  <2>2. CASE i # n + 1
    <3>1. i \in 1..n
      BY <1>3, <1>10, <2>2
    <3>2. FrameIsFull(stack[i])
      BY <1>2, <1>3, <3>1 DEF MixInv
    <3> QED BY <1>2, <1>9, <1>10, <3>1, <3>2 DEF FrameIsFull
  <2> QED BY <2>1, <2>2
<1>12. ASSUME NEW p \in MixturesOf(market, pool), IsBetterThan(market, p, best'),
              steps' < Budget(round)
       PROVE  \E i \in DOMAIN stack' : Unwalked(stack[i], p)'
  <2>1. IsMixture(p)
    BY MixturesAreMixtures
  <2>2. /\ p \in Path /\ p = CreatePath(market, p.fills) /\ p.fills \in Seq(Fill)
        /\ Len(p.fills) \in Nat
    BY <2>1 DEF IsMixture, Path
  <2>3. path(k) \in Path
    <3>1. market.amount \in Nat /\ Top.path \in Path
      BY <1>2, <1>3, MarketsAssumption DEF FrameSet
    <3> QED BY <1>4, <3>1, AddFillSizeType DEF path, AppendFill, Path
  <2>4. IsBetterThan(market, p, best) /\ p # path(k)
    BY <1>1, <1>2, <1>12, <2>2, <2>3, BetterKeepsOut
  <2>5. steps < Budget(round)
    <3>1. Budget(round) \in Nat
      BY <1>2, BudgetPositive
    <3> HIDE DEF Budget
    <3> QED BY <1>2, <1>12, <3>1
  <2>6. PICK i \in 1..n : Unwalked(stack[i], p)
    BY <1>2, <1>3, <2>4, <2>5 DEF MixInv
  <2>7. CASE i # n
    <3>1. stack'[i] = stack[i] /\ i \in DOMAIN stack'
      BY <1>3, <1>9, <1>10, <2>7
    <3> QED BY <1>2, <2>6, <3>1 DEF Unwalked
  <2>8. CASE i = n
    <3>1. /\ Len(s) < Len(p.fills) /\ SubSeq(p.fills, 1, Len(s)) = s
          /\ \E j \in Top.rest \ Top.walked : pool[j] = p.fills[Len(s) + 1]
      BY <1>3, <2>6, <2>8 DEF Unwalked
    <3>2. PICK j \in Top.rest \ Top.walked : pool[j] = p.fills[Len(s) + 1]
      BY <3>1
    <3>3. CASE j # k
      <4>1. j \in marked(k)[n].rest \ marked(k)[n].walked
        BY <1>3, <1>9, <3>2, <3>3
      <4>2. stack'[n] = marked(k)[n] /\ marked(k)[n].path = Top.path
        BY <1>3, <1>9, <1>10
      <4>3. /\ stack'[n].path.fills = s /\ j \in stack'[n].rest \ stack'[n].walked
            /\ pool'[j] = p.fills[Len(s) + 1]
        BY <1>2, <3>2, <4>1, <4>2
      <4>4. Unwalked(stack[n], p)'
        <5> HIDE DEF s
        <5> QED BY <3>1, <4>3 DEF Unwalked
      <4>5. n \in DOMAIN stack'
        BY <1>3, <1>10
      <4> QED BY <4>4, <4>5
    <3>4. CASE j = k
      <4> DEFINE l == Len(s) + 1
      <4>1. p.fills[l] = f /\ l \in 1..Len(p.fills)
        BY <1>6, <2>2, <3>1, <3>2, <3>4
      <4>2. SubSeq(p.fills, 1, l) = Append(SubSeq(p.fills, 1, Len(s)), p.fills[l])
        <5> DEFINE c == Len(s)
                   g == p.fills
        <5>1. c \in Nat /\ c + 1 <= Len(g) /\ g \in Seq(Fill) /\ l = c + 1
          BY <1>6, <2>2, <4>1
        <5> HIDE DEF c, g, l
        <5>2. SubSeq(g, 1, c + 1) = Append(SubSeq(g, 1, c), g[c + 1])
          BY <5>1
        <5> QED BY <5>1, <5>2 DEF c, g
      <4>3. SubSeq(p.fills, 1, l) = Append(s, f)
        BY <3>1, <4>1, <4>2
      <4>4. Len(p.fills) # l
        <5> SUFFICES ASSUME Len(p.fills) = l PROVE FALSE
          OBVIOUS
        <5>1. SubSeq(p.fills, 1, l) = p.fills
          BY <2>2
        <5> HIDE DEF s, f, l
        <5>2. p = path(k)
          BY <1>5, <2>2, <4>3, <5>1
        <5> QED BY <2>4, <5>2
      <4>5. l + 1 \in 1..Len(p.fills) /\ (l + 1) - 1 = l /\ l < Len(p.fills)
        <5>1. l \in Nat /\ Len(p.fills) \in Nat /\ 1 <= l /\ l <= Len(p.fills)
          BY <1>6, <2>2, <4>1
        <5> HIDE DEF l
        <5> QED BY <4>4, <5>1
      <4>6. CreatePath(market, Append(s, f)).fills = Append(s, f)
        BY DEF CreatePath
      <4> HIDE DEF s, f, l
      <4>7. p.fills[l + 1] \in Range(pool) /\ p.fills[l + 1] \notin Range(Append(s, f))
        <5>1. l + 1 \in DOMAIN p.fills
          BY <2>2, <4>5
        <5> QED BY <2>1, <4>3, <4>5, <4>6, <5>1 DEF IsMixture
      <4>8. PICK e \in DOMAIN pool : pool[e] = p.fills[l + 1]
        BY <4>7 DEF Range
      <4>9. e \in last.rest \ last.walked
        BY <1>7, <1>8, <4>7, <4>8
      <4>10. Len(last.path.fills) = l
        BY <1>6, <1>7 DEF l
      <4>11. SubSeq(p.fills, 1, l) = last.path.fills
        BY <1>7, <4>3
      <4>12. Unwalked(stack[n + 1], p)'
        BY <1>2, <1>10, <4>5, <4>8, <4>9, <4>10, <4>11 DEF Unwalked
      <4> QED BY <1>3, <1>10, <4>12
    <3> QED BY <3>3, <3>4
  <2> QED BY <2>7, <2>8
<1> QED BY <1>2, <1>11, <1>12 DEF MixInv, Budget

\* A call that returns has walked into the next fill of every mixture it was left with.
LEMMA ReturnMix == SearchInv /\ MixInv /\ Return => MixInv'
<1> SUFFICES ASSUME SearchInv, MixInv, Return PROVE MixInv'
  OBVIOUS
<1>0. PICK n : n = Len(stack)
  OBVIOUS
<1> DEFINE FrameSet == [path : Path, rest : SUBSET DOMAIN pool, walked : SUBSET DOMAIN pool]
<1>1. /\ phase = "walk" /\ stack # <<>> /\ Candidates = {} /\ stack \in Seq(FrameSet)
      /\ stack' = SubSeq(stack, 1, n - 1)
      /\ UNCHANGED <<market, phase, pending, rates, round, best, pool, steps, outcome>>
  BY <1>0 DEF Return, SearchInv, TypeOK
<1>2. /\ n \in Nat \ {0} /\ DOMAIN stack = 1..n /\ Top = stack[n] /\ Top \in FrameSet
      /\ DOMAIN stack' = 1..(n - 1) /\ \A i \in 1..(n - 1) : stack'[i] = stack[i]
  <2> HIDE DEF FrameSet
  <2> QED BY <1>0, <1>1 DEF Top
<1>3. ASSUME NEW i \in DOMAIN stack' PROVE FrameIsFull(stack[i])'
  <2>1. i \in DOMAIN stack /\ stack'[i] = stack[i]
    BY <1>2, <1>3
  <2>2. FrameIsFull(stack[i])
    BY <1>1, <2>1 DEF MixInv
  <2> QED BY <1>1, <2>1, <2>2 DEF FrameIsFull
<1>4. ASSUME NEW p \in MixturesOf(market, pool), IsBetterThan(market, p, best),
             steps < Budget(round)
      PROVE  \E i \in DOMAIN stack' : Unwalked(stack[i], p)'
  <2>1. IsMixture(p)
    BY MixturesAreMixtures
  <2>2. PICK i \in 1..n : Unwalked(stack[i], p)
    BY <1>1, <1>2, <1>4 DEF MixInv
  <2>3. i # n
    <3> SUFFICES ASSUME i = n PROVE FALSE
      OBVIOUS
    <3> DEFINE s == Top.path.fills
               l == Len(s) + 1
    <3>1. Top.path \in Path /\ Top.path = CreatePath(market, s)
      BY <1>1, <1>2 DEF MixInv, FrameIsFull
    <3>2. Len(s) \in Nat /\ l - 1 = Len(s) /\ Len(p.fills) \in Nat /\ DOMAIN p.fills = 1..Len(p.fills)
      BY <2>1, <3>1 DEF IsMixture, Path
    <3>3. /\ Len(s) < Len(p.fills) /\ SubSeq(p.fills, 1, Len(s)) = s
          /\ \E j \in Top.rest \ Top.walked : pool[j] = p.fills[l]
      BY <1>2, <2>2 DEF Unwalked
    <3>4. PICK j \in Top.rest \ Top.walked : pool[j] = p.fills[l]
      BY <3>3
    <3>5. l \in DOMAIN p.fills
      BY <3>2, <3>3
    <3>6. CreatePath(market, SubSeq(p.fills, 1, l - 1)) = Top.path
      <4> HIDE DEF s, l
      <4> QED BY <3>1, <3>2, <3>3
    <3> HIDE DEF s, l
    <3>7. IsValidNextFill(Top.path, pool[j]) /\ ~IsComplete(market, Top.path)
      BY <2>1, <3>4, <3>5, <3>6 DEF IsMixture
    <3>8. ~(steps >= Budget(round))
      <4>1. Budget(round) \in Nat /\ steps \in Nat
        BY BudgetPositive DEF SearchInv, TypeOK
      <4> HIDE DEF Budget
      <4> QED BY <1>4, <4>1
    <3>9. j \in Candidates
      BY <3>4, <3>7, <3>8 DEF Candidates
    <3> QED BY <1>1, <3>9
  <2>4. i \in DOMAIN stack' /\ stack'[i] = stack[i]
    BY <1>2, <2>3
  <2>5. Unwalked(stack[i], p)'
    BY <1>1, <2>2, <2>4 DEF Unwalked
  <2> QED BY <2>4, <2>5
<1> QED BY <1>1, <1>3, <1>4 DEF MixInv, Budget

\* While its budget lasts, a walk leaves no better mixture behind.
THEOREM MixInvariant == Spec => []MixInv
<1>1. Init => MixInv
  BY DEF Init, MixInv
<1>2. SearchInv /\ SearchInv' /\ MixInv /\ [Next]_vars => MixInv'
  <2> SUFFICES ASSUME SearchInv, SearchInv', MixInv, [Next]_vars PROVE MixInv'
    OBVIOUS
  <2>1. CASE BuildPaths
    BY <2>1 DEF BuildPaths, MixInv
  <2>2. CASE StartMix
    BY <2>2, StartMixMix
  <2>3. CASE Walk
    BY <2>3, WalkMix
  <2>4. CASE Return
    BY <2>4, ReturnMix
  <2>5. CASE EndMix
    BY <2>5 DEF EndMix, MixInv
  <2>6. CASE Choose
    BY <2>6 DEF Choose, MixInv
  <2>7. CASE Done \/ UNCHANGED vars
    <3>1. UNCHANGED vars
      BY <2>7 DEF Done
    <3> QED BY <3>1 DEF vars, MixInv, FrameIsFull, Unwalked, Budget
  <2> QED BY <2>1, <2>2, <2>3, <2>4, <2>5, <2>6, <2>7 DEF Next
<1> QED BY <1>1, <1>2, SearchInvariant, PTL DEF Spec

\* A mix that ended before its budget has found the best mixture of its pool.
THEOREM MixIsExhaustive == Spec => []ExhaustiveMix
<1>1. MixInv => ExhaustiveMix
  BY DEF MixInv, ExhaustiveMix
<1> QED BY <1>1, MixInvariant, PTL
=============================================================================
