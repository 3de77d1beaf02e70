--------------------------- MODULE RouteQuoteProofs ---------------------------
(***************************************************************************)
(* Proofs about RouteQuote: the search of PathSearchProofs hands over what  *)
(* the quote of QuoteProofs expects.                                        *)
(***************************************************************************)
EXTENDS RouteQuote, PathSearchProofs, FiniteSetTheorems

QP == INSTANCE QuoteProofs WITH Routes <- {}, best <- quoteBest, worst <- quoteWorst

-----------------------------------------------------------------------------
(* The quote of the request is the quote of the proofs *)

LEMMA SameTotals ==
  /\ \A s : Q!Inputs(s) = TotalInput(s) /\ Q!Outputs(s) = TotalOutput(s)
  /\ \A s : QP!Inputs(s) = TotalInput(s) /\ QP!Outputs(s) = TotalOutput(s)
<1>1. \A s : Q!Inputs(s) = TotalInput(s) /\ Q!Outputs(s) = TotalOutput(s)
  BY DEF TotalInput, TotalOutput, AddInput, AddOutput, FoldLeft, MapThenFoldSet, Max,
         Q!Inputs, Q!Outputs, Q!AddInput, Q!AddOutput, Q!FoldLeft, Q!MapThenFoldSet, Q!Max
<1>2. \A s : QP!Inputs(s) = TotalInput(s) /\ QP!Outputs(s) = TotalOutput(s)
  BY DEF TotalInput, TotalOutput, AddInput, AddOutput, FoldLeft, MapThenFoldSet, Max,
         QP!Inputs, QP!Outputs, QP!AddInput, QP!AddOutput, QP!FoldLeft,
         QP!MapThenFoldSet, QP!Max
<1> QED BY <1>1, <1>2

LEMMA SameRoutes == \A r : Q!IsRoute(r) <=> QP!IsRoute(r)
<1> SUFFICES ASSUME NEW r PROVE Q!IsRoute(r) <=> QP!IsRoute(r)
  OBVIOUS
<1>1. Q!LastFill(r) = QP!LastFill(r)
  BY DEF Q!LastFill, QP!LastFill, Q!Last, QP!Last
<1>2. Q!LeftForLast(r) = QP!LeftForLast(r) /\ Q!OutputBeforeLast(r) = QP!OutputBeforeLast(r)
  BY <1>1, SameTotals DEF Q!LeftForLast, QP!LeftForLast, Q!OutputBeforeLast, QP!OutputBeforeLast
<1>3. Q!IsOutputOfPath(r) <=> QP!IsOutputOfPath(r)
  BY <1>1, <1>2, SameTotals DEF Q!IsOutputOfPath, QP!IsOutputOfPath
<1>4. \A ids : Q!Order(ids) = QP!Order(ids)
  BY DEF Q!Order, QP!Order, Q!SubFill, QP!SubFill
<1>5. \A S : Q!IsFiniteSet(S) <=> QP!IsFiniteSet(S)
  BY DEF Q!IsFiniteSet, QP!IsFiniteSet
<1> QED BY <1>1, <1>3, <1>4, <1>5, SameTotals
        DEF Q!IsRoute, QP!IsRoute, Q!IsPathRoute, QP!IsPathRoute

LEMMA SameInit == Q!QuoteInit <=> QP!QuoteInit
BY DEF Q!QuoteInit, QP!QuoteInit, Q!NoRoute, QP!NoRoute, Q!NoInfo, QP!NoInfo,
       Q!EmptyResult, QP!EmptyResult, Q!Sources, QP!Sources

LEMMA SameReceive == \A r, s : Q!Receive(r, s) <=> QP!Receive(r, s)
BY DEF Q!Receive, QP!Receive, Q!EmptyResult, QP!EmptyResult, Q!Sources, QP!Sources,
       Q!Slip, QP!Slip, Q!RoundUp, QP!RoundUp, Q!Truncate, QP!Truncate, Q!Whole, QP!Whole

LEMMA SameStep == Q!QuoteStep <=> QP!QuoteStep
<1>1. Q!EnterOrder <=> QP!EnterOrder
  BY DEF Q!EnterOrder, QP!EnterOrder, Q!Filling, QP!Filling, Q!AllOrdersFilled,
         QP!AllOrdersFilled, Q!Exhausted, QP!Exhausted, Q!CurrentOrder, QP!CurrentOrder
<1>2. Q!FillSub <=> QP!FillSub
  BY DEF Q!FillSub, QP!FillSub, Q!Filling, QP!Filling, Q!Exhausted, QP!Exhausted,
         Q!CurrentOrder, QP!CurrentOrder, Q!FilledInput, QP!FilledInput, Q!AddFill, QP!AddFill,
         Q!FilledOutput, QP!FilledOutput, Q!Truncate, QP!Truncate
<1>3. Q!LeaveOrder <=> QP!LeaveOrder
  BY DEF Q!LeaveOrder, QP!LeaveOrder, Q!Filling, QP!Filling, Q!Exhausted, QP!Exhausted,
         Q!CurrentOrder, QP!CurrentOrder
<1>4. Q!FinishBest <=> QP!FinishBest
  BY DEF Q!FinishBest, QP!FinishBest, Q!AllOrdersFilled, QP!AllOrdersFilled, Q!Exhausted,
         QP!Exhausted, Q!Info, QP!Info, Q!EmptyResult, QP!EmptyResult, Q!Sources, QP!Sources
<1>5. Q!FinishWorst <=> QP!FinishWorst
  <2>1. Q!TotalGas(route) = QP!TotalGas(route)
    BY DEF Q!TotalGas, QP!TotalGas, Q!FoldLeft, QP!FoldLeft, Q!MapThenFoldSet,
           QP!MapThenFoldSet, Q!Max, QP!Max
  <2> QED BY <2>1
    DEF Q!FinishWorst, QP!FinishWorst, Q!AllOrdersFilled, QP!AllOrdersFilled, Q!Exhausted,
        QP!Exhausted, Q!Slip, QP!Slip, Q!RoundUp, QP!RoundUp, Q!Truncate, QP!Truncate,
        Q!Whole, QP!Whole
<1>6. Q!SlipOrders <=> QP!SlipOrders
  BY DEF Q!SlipOrders, QP!SlipOrders, Q!OrderOutputs, QP!OrderOutputs, Q!SlipOrder,
         QP!SlipOrder, Q!RoundUp, QP!RoundUp, Q!Truncate, QP!Truncate
<1> QED BY <1>1, <1>2, <1>3, <1>4, <1>5, <1>6 DEF Q!QuoteStep, QP!QuoteStep

-----------------------------------------------------------------------------
(* A path is a route *)

\* What a complete path and its orders have to do with the amount.
LEMMA CompletePathFacts ==
  ASSUME SearchInv, MeasureInv, outcome.kind = "path"
  PROVE  LET s == best.fills
             os == outcome.orders
             whole == SubSeq(s, 1, Len(s) - 1)
         IN  /\ market \in Markets /\ market.amount \in Nat \ {0}
             /\ s \in Seq(Fill) /\ s # <<>> /\ Last(s) \in Fill
             /\ CollapsedFrom(market, s, os)
             /\ TotalInput(s) = TotalInput(whole) + Last(s).input
             /\ TotalOutput(s) = TotalOutput(whole) + Last(s).output
             /\ TotalInput(whole) \in Nat /\ TotalOutput(whole) \in Int
             /\ TotalInput(s) >= market.amount /\ TotalInput(whole) < market.amount
             /\ best.size.num \in Int /\ best.size.den \in Nat \ {0}
             /\ IF TotalInput(s) <= market.amount
                THEN best.size.num = TotalOutput(s) /\ best.size.den = 1
                ELSE /\ best.size.den = Last(s).input
                     /\ best.size.num = TotalOutput(whole) * Last(s).input
                          + Last(s).output * (market.amount - TotalInput(whole))
<1> DEFINE s == best.fills
           os == outcome.orders
           n == Len(s)
           whole == SubSeq(s, 1, n - 1)
<1>1. /\ market \in Markets /\ market.amount \in Nat \ {0} /\ s \in Seq(Fill)
      /\ best.size.num \in Int /\ best.size.den \in Nat \ {0} /\ best.size.input \in Nat
      /\ IsComplete(market, best) /\ os = Collapse(s) /\ IsValid(s)
      /\ Measured(market, best)
  BY MarketsAssumption
  DEF SearchInv, TypeOK, Path, Sizes, MeasureInv, OutcomeOK, BestOK
<1>2. CollapsedFrom(market, s, os)
  BY <1>1, CollapseFacts DEF Collapsible, Measured
<1>3. /\ n > 0 => TotalInput(whole) < market.amount
      /\ IF TotalInput(s) <= market.amount
         THEN /\ best.size.input = TotalInput(s)
              /\ best.size.num = TotalOutput(s) /\ best.size.den = 1
         ELSE /\ best.size.input = market.amount /\ best.size.den = s[n].input
              /\ best.size.num = TotalOutput(whole) * s[n].input
                                   + s[n].output * (market.amount - TotalInput(whole))
  BY <1>1 DEF Measured
<1>4. TotalInput(s) \in Nat /\ TotalInput(s) >= market.amount
  BY <1>1, <1>3, FillTotals DEF IsComplete
<1>5. s # <<>>
  BY <1>1, <1>4, FillTotals
<1>6. /\ n \in Nat \ {0} /\ Last(s) = s[n] /\ Last(s) \in Fill
      /\ whole \in Seq(Fill) /\ s = Append(whole, Last(s))
  BY <1>1, <1>5, WithoutLast DEF Front
<1>7. /\ TotalInput(s) = TotalInput(whole) + Last(s).input
      /\ TotalOutput(s) = TotalOutput(whole) + Last(s).output
      /\ TotalInput(whole) \in Nat /\ TotalOutput(whole) \in Int
  BY <1>6, FillTotals
<1> HIDE DEF s, os, n, whole
<1>8. n > 0
  BY <1>6
<1> QED BY <1>1, <1>2, <1>3, <1>4, <1>5, <1>6, <1>7, <1>8 DEF s, os, n, whole

\* An order has fills, and any number of them from the first on buys something.
LEMMA OrderOfChain ==
  ASSUME NEW m \in Markets, m.amount \in Nat, NEW o \in GroupOrder, TakesPrefix(m, o)
  PROVE  /\ o.subFills # <<>>
         /\ \A k \in DOMAIN o.subFills :
              /\ TotalOutput(SubSeq(o.subFills, 1, k)) > 0
              /\ o.subFills[k].input <= m.amount
<1> DEFINE chain == m.fills[o.id]
           n == Len(o.subFills)
<1>1. /\ o.id \in Groups /\ o.subFills = SubSeq(chain, 1, n) /\ n \in DOMAIN chain
  BY DEF TakesPrefix, GroupOrder
<1>2. /\ chain \in Seq(Fill) /\ n \in Nat \ {0} /\ DOMAIN chain = 1..Len(chain)
      /\ Len(chain) \in Nat
  BY <1>1, ChainFills
<1>3. \A i \in DOMAIN chain : /\ TotalOutput(SubSeq(chain, 1, i)) > 0
                             /\ TotalInput(SubSeq(chain, 1, i)) <= m.amount
  BY <1>1, MarketsAssumption DEF IsChain
<1> HIDE DEF chain, n
<1>4. ASSUME NEW k \in 1..n
      PROVE  /\ TotalOutput(SubSeq(o.subFills, 1, k)) > 0
             /\ o.subFills[k].input <= m.amount
  <2>1. /\ k \in DOMAIN chain /\ k \in 1..Len(chain) /\ n \in 1..Len(chain)
    BY <1>1, <1>2
  <2>2. /\ SubSeq(SubSeq(chain, 1, n), 1, k) = SubSeq(chain, 1, k)
        /\ SubSeq(chain, 1, n)[k] = chain[k]
    BY <1>2, <2>1
  <2>3. /\ SubSeq(chain, 1, k) = Append(SubSeq(chain, 1, k - 1), chain[k])
        /\ SubSeq(chain, 1, k - 1) \in Seq(Fill) /\ chain[k] \in Fill
    BY <1>2, <2>1
  <2>4. /\ TotalInput(SubSeq(chain, 1, k)) = TotalInput(SubSeq(chain, 1, k - 1)) + chain[k].input
        /\ TotalInput(SubSeq(chain, 1, k - 1)) \in Nat
    BY <2>3, FillTotals
  <2>5. chain[k].input \in Nat
    BY <2>3 DEF Fill
  <2>6. /\ TotalOutput(SubSeq(chain, 1, k)) > 0
        /\ TotalInput(SubSeq(chain, 1, k)) <= m.amount
    BY <1>3, <2>1
  <2>7. chain[k].input <= m.amount
    BY <2>4, <2>5, <2>6
  <2>8. /\ SubSeq(o.subFills, 1, k) = SubSeq(chain, 1, k)
        /\ o.subFills[k] = chain[k]
    BY <1>1, <2>2
  <2> QED BY <2>6, <2>7, <2>8
<1>5. o.subFills \in Seq(Fill) /\ DOMAIN o.subFills = 1..n
  BY DEF GroupOrder, n
<1>6. o.subFills # <<>>
  BY <1>2, <1>5 DEF n
<1> QED BY <1>4, <1>5, <1>6

LEMMA PathIsRoute ==
  ASSUME SearchInv, MeasureInv, outcome.kind = "path"
  PROVE  Q!IsRoute(RouteOf(market, best, outcome))
<1> DEFINE r == RouteOf(market, best, outcome)
           s == best.fills
           os == outcome.orders
           whole == SubSeq(s, 1, Len(s) - 1)
           a == market.amount
           last == Last(s)
           num == best.size.num
           den == best.size.den
<1>1. /\ market \in Markets /\ a \in Nat \ {0}
      /\ s \in Seq(Fill) /\ s # <<>> /\ last \in Fill
      /\ CollapsedFrom(market, s, os)
      /\ TotalInput(s) = TotalInput(whole) + last.input
      /\ TotalOutput(s) = TotalOutput(whole) + last.output
      /\ TotalInput(whole) \in Nat /\ TotalOutput(whole) \in Int
      /\ TotalInput(s) >= a /\ TotalInput(whole) < a
      /\ num \in Int /\ den \in Nat \ {0}
      /\ IF TotalInput(s) <= a
         THEN num = TotalOutput(s) /\ den = 1
         ELSE /\ den = last.input
              /\ num = TotalOutput(whole) * last.input + last.output * (a - TotalInput(whole))
  BY CompletePathFacts
<1>2. /\ r.kind = "path" /\ r.side = market.side /\ r.amount = a /\ r.orders = os
      /\ r.source = market.kind /\ r.gas = GasOf
      /\ r.num = num /\ r.den = den
  BY DEF RouteOf
<1>3. /\ DOMAIN r.source = Groups /\ r.side \in {"Sell", "Buy"}
      /\ \A id \in Groups : r.gas[id] \in Nat
  BY <1>1, <1>2, MarketsAssumption, RequestAssumption
<1>4. Q!IsFiniteSet(Groups)
  <2>1. Groups \in SUBSET Groups /\ IsFiniteSet(Groups)
    BY LimitsAssumption, FS_Interval DEF Groups
  <2> QED BY <2>1 DEF IsFiniteSet, Q!IsFiniteSet
<1>5. Q!Order(Groups) = GroupOrder
  BY DEF Q!Order, Q!SubFill, GroupOrder, Fill
<1>6. /\ os \in Seq(GroupOrder) /\ os # <<>> /\ Last(Last(os).subFills) = last
      /\ TotalInput(os) = TotalInput(s) /\ TotalOutput(os) = TotalOutput(s)
      /\ \A i \in DOMAIN os : os[i] \in GroupOrder /\ TakesPrefix(market, os[i])
      /\ \A i, j \in DOMAIN os : os[i].id = os[j].id => i = j
  BY <1>1 DEF CollapsedFrom
<1>7. \A i \in DOMAIN os :
        /\ os[i].subFills # <<>>
        /\ os[i].input = TotalInput(os[i].subFills)
        /\ os[i].output = TotalOutput(os[i].subFills)
        /\ \A k \in DOMAIN os[i].subFills :
             /\ TotalOutput(SubSeq(os[i].subFills, 1, k)) > 0
             /\ os[i].subFills[k].input <= a
  BY <1>1, <1>6, OrderOfChain DEF TakesPrefix
<1>8. Q!LastFill(r) = last
  BY <1>2, <1>6 DEF Q!LastFill, Q!Last, Last
<1> HIDE DEF r, s, os, whole, a, last, num, den
<1>9. last.input \in Nat /\ last.output \in Int
  BY <1>1 DEF Fill
<1>10. /\ Q!LeftForLast(r) = a - TotalInput(whole)
       /\ Q!OutputBeforeLast(r) = TotalOutput(whole)
  BY <1>1, <1>2, <1>6, <1>8, <1>9, SameTotals DEF Q!LeftForLast, Q!OutputBeforeLast
<1>11. Q!IsOutputOfPath(r)
  <2> DEFINE left == a - TotalInput(whole)
  <2>0. left \in Nat
    BY <1>1
  <2>1. CASE TotalInput(s) <= a
    <3>1. ~(last.input > left) /\ num = den * TotalOutput(os)
      BY <1>1, <1>6, <1>9, <2>1
    <3> QED BY <1>2, <1>8, <1>10, <3>1, SameTotals DEF Q!IsOutputOfPath
  <2>2. CASE ~(TotalInput(s) <= a)
    <3>1. last.input > left /\ den = last.input
      BY <1>1, <1>9, <2>2
    <3> DEFINE x == TotalOutput(whole) * last.input + last.output * left
    <3>2. num = x /\ x \in Int
      BY <1>1, <1>9, <2>0, <2>2
    <3>3. num * last.input = den * x
      <4> HIDE DEF x
      <4> QED BY <1>9, <3>1, <3>2
    <3> QED BY <1>2, <1>8, <1>10, <3>1, <3>3 DEF Q!IsOutputOfPath
  <2> QED BY <2>1, <2>2
<1>12. /\ Q!Inputs(r.orders) >= r.amount
       /\ Q!Inputs(r.orders) - Q!LastFill(r).input < r.amount
  BY <1>1, <1>2, <1>6, <1>8, <1>9, SameTotals
<1>13. Q!IsPathRoute(r)
  BY <1>1, <1>2, <1>3, <1>4, <1>5, <1>6, <1>7, <1>11, <1>12, SameTotals DEF Q!IsPathRoute
<1> QED BY <1>1, <1>2, <1>3, <1>13 DEF Q!IsRoute, r

-----------------------------------------------------------------------------
(* A two-hop quote is a route *)

\* Some usable two-hop quote loses against none: the rates of a sale have one
\* denominator.
LEMMA TwoHopRates ==
  ASSUME NEW m \in Markets, NEW q \in UsableTwoHops(m)
  PROVE  /\ m.side = "Sell" /\ q.output \in Nat \ {0} /\ m.amount \in Nat \ {0}
         /\ TwoHopAdjustedRate(m, q)[1] \in Int
         /\ TwoHopAdjustedRate(m, q)[2] = m.amount
<1>1. /\ q \in m.twoHops /\ q.output > 0 /\ q.output \in Nat
      /\ m.side \in {"Sell", "Buy"} /\ (m.side = "Buy" => m.twoHops = {})
      /\ m.amount \in Nat \ {0} /\ m.outPerEth \in Nat
  BY MarketsAssumption DEF UsableTwoHops
<1> DEFINE overhead == ExchangeOverhead({"MultiHop"} \union q.kinds)
<1>2. overhead \in Nat
  BY OverheadType
<1> HIDE DEF overhead
<1>3. m.outPerEth * overhead \in Nat
  BY <1>1, <1>2
<1>4. q.output - m.outPerEth * overhead \in Int
  BY <1>1, <1>3
<1>5. TwoHopAdjustedRate(m, q) = <<q.output - m.outPerEth * overhead, m.amount>>
  <2> DEFINE output == q.output - m.outPerEth * overhead
  <2>1. m.side = "Sell" /\ q.output # 0 /\ ~(m.amount < 0)
    BY <1>1
  <2>2. TwoHopAdjustedRate(m, q) = Rate(output, m.amount)
    BY <2>1 DEF TwoHopAdjustedRate, Penalised, overhead
  <2> HIDE DEF output
  <2>3. Rate(output, m.amount) = <<output, m.amount>>
    BY <2>1 DEF Rate
  <2> QED BY <2>2, <2>3 DEF output
<1> QED BY <1>1, <1>4, <1>5

LEMMA BestTwoHopExists ==
  ASSUME NEW m \in Markets, UsableTwoHops(m) # {}
  PROVE  \E q \in UsableTwoHops(m) :
           \A r \in UsableTwoHops(m) :
             ~RateGT(TwoHopAdjustedRate(m, r), TwoHopAdjustedRate(m, q))
<1> DEFINE U == UsableTwoHops(m)
           v(q) == TwoHopAdjustedRate(m, q)[1]
           T == {t \in SUBSET U : t # {} => \E q \in t : \A r \in t : v(r) <= v(q)}
<1>1. In!IsFiniteSet(U)
  <2>1. IsFiniteSet(m.twoHops) /\ U \subseteq m.twoHops
    BY MarketsAssumption DEF UsableTwoHops
  <2>2. IsFiniteSet(U)
    BY <2>1, FS_Subset
  <2> HIDE DEF U
  <2> QED BY <2>2 DEF IsFiniteSet, In!IsFiniteSet
<1>2. \A q \in U : v(q) \in Int
  BY TwoHopRates
<1> HIDE DEF v, U
<1>3. {} \in T
  OBVIOUS
<1>4. ASSUME NEW t \in SUBSET U, t # {}, t \ {In!Picked(t)} \in T PROVE t \in T
  <2> DEFINE x == In!Picked(t)
             u == t \ {x}
  <2>1. x \in t
    BY <1>4 DEF In!Picked
  <2> HIDE DEF x
  <2>2. CASE u = {}
    <3>1. \A r \in t : r = x
      BY <2>2
    <3>2. v(x) <= v(x)
      BY <1>2, <2>1
    <3> QED BY <2>1, <3>1, <3>2
  <2>3. CASE u # {}
    <3>1. PICK q \in u : \A r \in u : v(r) <= v(q)
      BY <1>4, <2>3 DEF x
    <3>2. CASE v(x) <= v(q)
      BY <3>1, <3>2
    <3>3. CASE ~(v(x) <= v(q))
      <4>1. ASSUME NEW r \in t PROVE v(r) <= v(x)
        BY <1>2, <2>1, <3>1, <3>3
      <4> QED BY <2>1, <4>1
    <3> QED BY <3>2, <3>3
  <2> QED BY <2>2, <2>3
<1>5. U \in T
  <2> HIDE DEF T
  <2> QED BY <1>1, <1>3, <1>4, In!SubsetInduction
<1>6. PICK q \in U : \A r \in U : v(r) <= v(q)
  BY <1>5 DEF U
<1>7. ASSUME NEW r \in U PROVE ~RateGT(TwoHopAdjustedRate(m, r), TwoHopAdjustedRate(m, q))
  <2>1. /\ m.amount \in Nat \ {0} /\ TwoHopAdjustedRate(m, r)[2] = m.amount
        /\ TwoHopAdjustedRate(m, q)[2] = m.amount
    BY TwoHopRates DEF U
  <2>2. v(r) <= v(q) /\ v(r) \in Int /\ v(q) \in Int
    BY <1>2, <1>6
  <2>3. v(r) * m.amount <= v(q) * m.amount
    BY <2>1, <2>2
  <2> QED BY <2>1, <2>2, <2>3 DEF RateGT, v
<1> QED BY <1>6, <1>7 DEF U

LEMMA TwoHopIsRoute ==
  ASSUME SearchInv, MeasureInv, outcome.kind = "twoHop"
  PROVE  Q!IsRoute(RouteOf(market, best, outcome))
<1> DEFINE U == UsableTwoHops(market)
           r == RouteOf(market, best, outcome)
           c == CHOOSE q \in U : TwoHopAdjustedRate(market, q) = BestTwoHopRate(market)
<1>1. market \in Markets /\ U # {}
  BY DEF SearchInv, TypeOK, MeasureInv, OutcomeOK
<1>2. \E q \in U : TwoHopAdjustedRate(market, q) = BestTwoHopRate(market)
  BY <1>1, BestTwoHopExists DEF BestTwoHopRate
<1>3. c \in U
  BY <1>2
<1>4. /\ r.kind = "twoHop" /\ r.side = market.side /\ r.amount = market.amount
      /\ r.output = c.output
  BY DEF RouteOf
<1> HIDE DEF c, r
<1> QED BY <1>1, <1>3, <1>4, TwoHopRates DEF Q!IsRoute, r

-----------------------------------------------------------------------------
(* The request *)

\* Every route the search hands over is one that the quote expects.
LEMMA HandedOver == SearchInv /\ MeasureInv => HandsOverRoutes
BY PathIsRoute, TwoHopIsRoute DEF HandsOverRoutes, HandsOver

\* The quote starts only when the search is over, and then from its route.
RequestInv ==
  /\ SearchInv /\ MeasureInv /\ QP!QuoteInv
  /\ stage # "idle" => HandsOver /\ route = RouteOf(market, best, outcome)

\* The assumptions of the quote's proofs.
LEMMA QuoteAssumptions ==
  Slippages \subseteq 0..QP!Whole /\ \A r \in {} : QP!IsRoute(r)
BY RequestAssumption DEF Q!Whole, QP!Whole

LEMMA InitRequest == RequestInit => RequestInv
<1> SUFFICES ASSUME RequestInit PROVE RequestInv
  OBVIOUS
<1>1. SearchInv /\ MeasureInv
  BY InitSearchInv, InitMeasure DEF RequestInit
<1>2. QP!QuoteInv
  BY SameInit, QuoteAssumptions, QP!InvInit DEF RequestInit
<1>3. stage = "idle"
  BY DEF RequestInit, Q!QuoteInit
<1> QED BY <1>1, <1>2, <1>3 DEF RequestInv

LEMMA SearchKeepsInv == SearchInv /\ MeasureInv /\ [Next]_vars => SearchInv' /\ MeasureInv'
<1> QED BY BuildPathsInv, StartMixInv, WalkInv, ReturnInv, EndMixInv, ChooseInv,
           StutterInv, StutterMeasure, BuildPathsMeasure, StartMixMeasure, WalkMeasure, ReturnMeasure,
           EndMixMeasure, ChooseMeasure
    DEF Next, Done

LEMMA RequestStep == RequestInv /\ [RequestNext]_requestVars => RequestInv'
<1> SUFFICES ASSUME RequestInv, [RequestNext]_requestVars PROVE RequestInv'
  OBVIOUS
<1>1. SearchInv' /\ MeasureInv'
  <2>1. [Next]_vars
    BY DEF RequestNext, requestVars, Search, StartQuote, QuoteRoute, Answered, Next
  <2> QED BY <2>1, SearchKeepsInv DEF RequestInv
<1>2. CASE Search
  <2>0. /\ BuildPaths \/ StartMix \/ Walk \/ Return \/ EndMix \/ Choose
        /\ UNCHANGED quoteVars
    BY <1>2 DEF Search
  <2>1. UNCHANGED quoteVars /\ phase \in {"fills", "mix", "walk"}
    <3>1. phase \in {"fills", "mix", "walk"}
      <4>1. ASSUME BuildPaths PROVE phase = "fills"
        BY <4>1 DEF BuildPaths
      <4>2. ASSUME StartMix \/ Choose PROVE phase = "mix"
        BY <4>2 DEF StartMix, Choose
      <4>3. ASSUME Walk \/ Return \/ EndMix PROVE phase = "walk"
        BY <4>3 DEF Walk, Return, EndMix
      <4> QED BY <2>0, <4>1, <4>2, <4>3
    <3> QED BY <2>0, <3>1
  <2>2. stage' = "idle"
    BY <2>1 DEF RequestInv, HandsOver, quoteVars
  <2>3. QP!QuoteInv'
    BY <2>1, QuoteAssumptions, QP!StutterKeepsInv DEF RequestInv, quoteVars, QP!quoteVars
  <2> QED BY <1>1, <2>2, <2>3 DEF RequestInv
<1>3. CASE StartQuote
  <2>1. PICK s \in Slippages : Q!Receive(RouteOf(market, best, outcome), s)
    BY <1>3 DEF StartQuote
  <2> DEFINE r == RouteOf(market, best, outcome)
  <2>2. HandsOver /\ stage = "idle" /\ UNCHANGED vars
    BY <1>3 DEF StartQuote
  <2>3. QP!IsRoute(r)
    BY <2>2, HandedOver, SameRoutes DEF RequestInv, HandsOverRoutes
  <2>4. s \in 0..QP!Whole
    BY RequestAssumption DEF Q!Whole, QP!Whole
  <2>5. QP!Receive(r, s)
    BY <2>1, SameReceive
  <2>6. QP!QuoteInv'
    BY <2>2, <2>3, <2>4, <2>5, QuoteAssumptions, QP!ReceiveKeepsInv DEF RequestInv
  <2>7. route' = r /\ r' = r /\ HandsOver'
    BY <2>2, <2>5 DEF QP!Receive, HandsOver, vars, RouteOf
  <2> QED BY <1>1, <2>6, <2>7 DEF RequestInv
<1>4. CASE QuoteRoute
  <2>1. Q!QuoteStep /\ QP!QuoteStep /\ UNCHANGED vars
    BY <1>4, SameStep DEF QuoteRoute
  <2>2. QP!QuoteInv'
    BY <2>1, QuoteAssumptions, QP!StepKeepsInv DEF RequestInv
  <2>3. route' = route /\ stage # "idle"
    BY <2>1 DEF Q!QuoteStep, Q!EnterOrder, Q!FillSub, Q!LeaveOrder, Q!FinishBest,
                Q!FinishWorst, Q!SlipOrders, Q!Filling
  <2>4. RouteOf(market, best, outcome)' = RouteOf(market, best, outcome)
        /\ HandsOver' = HandsOver
    BY <2>1 DEF vars, HandsOver, RouteOf
  <2> QED BY <1>1, <2>2, <2>3, <2>4 DEF RequestInv
<1>5. CASE UNCHANGED requestVars
  <2>1. QP!QuoteInv'
    BY <1>5, QuoteAssumptions, QP!StutterKeepsInv DEF RequestInv, requestVars, quoteVars, QP!quoteVars
  <2> QED BY <1>1, <1>5, <2>1 DEF RequestInv, requestVars, vars, quoteVars, HandsOver, RouteOf
<1> QED BY <1>2, <1>3, <1>4, <1>5 DEF RequestNext, Answered

\* The invariant of the search, of the quote, and of what goes from one to the other.
THEOREM RequestInvariant == RequestSpec => []RequestInv
BY InitRequest, RequestStep, PTL DEF RequestSpec

\* The quote gets only routes it expects: whatever the search returns can be
\* filled for the amount, order by order.
THEOREM RoutesFitTheQuote == RequestSpec => []HandsOverRoutes
<1>1. RequestInv => HandsOverRoutes
  BY HandedOver DEF RequestInv
<1> QED BY <1>1, RequestInvariant, PTL

\* A request is quoted for the amount it asked for.
THEOREM RequestedAmountIsQuoted == RequestSpec => []QuotesRequestedAmount
<1>1. RequestInv => QuotesRequestedAmount
  <2> SUFFICES ASSUME RequestInv, stage \in {"slip", "quoted"}
               PROVE  quoteBest.input = market.amount /\ quoteWorst.input = market.amount
    BY DEF QuotesRequestedAmount
  <2>1. /\ quoteBest = QP!BestInfo(route) /\ quoteWorst = QP!WorstInfo(route, slippage)
        /\ route = RouteOf(market, best, outcome)
    BY DEF RequestInv, QP!QuoteInv
  <2>2. quoteBest.input = route.amount /\ quoteWorst.input = quoteBest.input
    BY <2>1 DEF QP!BestInfo, QP!WorstInfo
  <2>3. route.amount = market.amount
    BY <2>1 DEF RouteOf
  <2> QED BY <2>2, <2>3
<1> QED BY <1>1, RequestInvariant, PTL
=============================================================================
