-------------------------------- MODULE Quote --------------------------------
(***************************************************************************)
(* From a route to its quote: createSwapQuote simulates filling the orders *)
(* of the route for a best and a worst case, and slipOrders lowers (sells) *)
(* or raises (buys) the amounts of the orders by the slippage between the  *)
(* two.                                                                    *)
(*                                                                         *)
(* A route r of kind "path" is the collapsed path of the search:           *)
(*   side, amount   of the request                                         *)
(*   orders         a sequence of [id, input, output, subFills]            *)
(*   source, gas    [id -> source of the group], [id -> gas of a fill]     *)
(*   num, den       the output num/den the path was chosen for             *)
(* A route of kind "twoHop" has side, amount and output only.              *)
(*                                                                         *)
(* The output is what is bought in a sale and what is sold in a purchase.  *)
(* Slippage is counted in units of 1/10000.  Fees of orders are zero in    *)
(* this version of the code, and left out.                                 *)
(***************************************************************************)
EXTENDS Fees, Sequences, SequencesExt

CONSTANTS
  Routes,      \* the routes a search may hand over
  Slippages    \* the slippages a request may ask for

Whole == 10000

ASSUME SlippagesAssumption == Slippages \subseteq 0..Whole

AddInput(sum, f) == sum + f.input

AddOutput(sum, f) == sum + f.output

Inputs(s) == FoldLeft(AddInput, 0, s)

Outputs(s) == FoldLeft(AddOutput, 0, s)

SubFill(ids) == [id : ids, index : Nat, input : Nat, output : Int, adjusted : Int]

Order(ids) == [id : ids, input : Nat, output : Int, subFills : Seq(SubFill(ids))]

\* The last sub-fill of a route, the only one that may be cut.
LastFill(r) == Last(Last(r.orders).subFills)

\* What the orders leave for the last sub-fill.
LeftForLast(r) == r.amount - (Inputs(r.orders) - LastFill(r).input)

OutputBeforeLast(r) == Outputs(r.orders) - LastFill(r).output

\* The output of a path counts a cut fill in proportion.
IsOutputOfPath(r) ==
  LET last == LastFill(r)
  IN  IF last.input > LeftForLast(r)
      THEN r.num * last.input =
             r.den * (OutputBeforeLast(r) * last.input + last.output * LeftForLast(r))
      ELSE r.num = r.den * Outputs(r.orders)

\* What collapse() makes of a complete path: one order per group with fills from
\* the start of its chain, whose outputs add up to samples, and only the last
\* fill of all reaches beyond the amount.
IsPathRoute(r) ==
  LET ids == DOMAIN r.source
  IN  /\ IsFiniteSet(ids) /\ \A id \in ids : r.gas[id] \in Nat
      /\ r.orders \in Seq(Order(ids)) /\ r.orders # <<>>
      /\ \A i, j \in DOMAIN r.orders : r.orders[i].id = r.orders[j].id => i = j
      /\ \A i \in DOMAIN r.orders :
           LET o == r.orders[i]
           IN  /\ o.subFills # <<>>
               /\ o.input = Inputs(o.subFills) /\ o.output = Outputs(o.subFills)
               /\ \A k \in DOMAIN o.subFills :
                    /\ Outputs(SubSeq(o.subFills, 1, k)) > 0
                    /\ o.subFills[k].input <= r.amount
      /\ Inputs(r.orders) >= r.amount
      /\ Inputs(r.orders) - LastFill(r).input < r.amount
      /\ r.num \in Int /\ r.den \in Nat \ {0}
      /\ IsOutputOfPath(r)

IsRoute(r) ==
  /\ r.side \in {"Sell", "Buy"} /\ r.amount \in Nat \ {0}
  /\ \/ r.kind = "path" /\ IsPathRoute(r)
     \/ r.kind = "twoHop" /\ r.side = "Sell" /\ r.output \in Nat \ {0}

ASSUME RoutesAssumption == \A r \in Routes : IsRoute(r)

VARIABLES
  route,      \* the route quoted
  slippage,   \* the slippage asked for
  stage,      \* "idle", "best" or "worst" while filling, "slip", "quoted", "threw"
  order,      \* index of the outer loop of fillQuoteOrders
  sub,        \* index of its innermost loop, 0 between orders
  remaining,  \* remainingInput
  result,     \* the IntermediateSwapQuoteFillResult under construction
  best,       \* bestCaseQuoteInfo
  worst,      \* worstCaseQuoteInfo
  slipped     \* the slipped amount of each order

quoteVars ==
  <<route, slippage, stage, order, sub, remaining, result, best, worst, slipped>>

-----------------------------------------------------------------------------
Sources(r) == IF r.kind = "path" THEN {r.source[id] : id \in DOMAIN r.source} ELSE {}

EmptyResult(r) ==
  [input |-> 0, output |-> 0, gas |-> 0, bySource |-> [s \in Sources(r) |-> 0]]

NoRoute == [kind |-> "none"]

NoInfo == [input |-> 0, output |-> 0, gas |-> 0]

Info(res) == [input |-> res.input, output |-> res.output, gas |-> res.gas]

QuoteInit ==
  /\ route = NoRoute /\ slippage = 0 /\ stage = "idle"
  /\ order = 1 /\ sub = 0 /\ remaining = 0 /\ result = EmptyResult(NoRoute)
  /\ best = NoInfo /\ worst = NoInfo /\ slipped = <<>>

\* Big.js round(0, 3): a quotient away from zero, for d > 0.
RoundUp(n, d) == IF n >= 0 THEN (n + d - 1) \div d ELSE -((d - 1 - n) \div d)

\* Mutation of Slip: slippage raises the output of a sale too.
SlipUp(side, output, s) == RoundUp(output * (Whole + s), Whole)

\* The output after slippage, rounded against the trader who placed the order.
Slip(side, output, s) ==
  IF side = "Sell"
  THEN Truncate(output * (Whole - s), Whole)
  ELSE RoundUp(output * (Whole + s), Whole)

Filling == stage \in {"best", "worst"}

CurrentOrder == route.orders[order]

\* The loops over orders and sub-fills break when nothing remains.
Exhausted == remaining <= 0

AllOrdersFilled == order > Len(route.orders) \/ Exhausted

\* The gas of the worst case counts every order.
TotalGas(r) == FoldLeft(+, 0, [i \in DOMAIN r.orders |-> r.gas[r.orders[i].id]])

\* Mutation of FilledInput: the sub-fill is filled beyond the amount.
WholeInput(f) == f.input

\* How much of a sub-fill is filled.  Without fees the equation of
\* solveForInputFillAmount leaves the smaller of the two amounts.
FilledInput(f) == IF remaining < f.input THEN remaining ELSE f.input

\* Mutation of FilledOutput: a cut sub-fill counts in full.
WholeOutput(f) == f.output

\* Mutation of FilledOutput: the share is taken of the order.
OutputByOrder(f) == f.output * Truncate(FilledInput(f), CurrentOrder.input)

\* The share of a sub-fill that is filled is a Big, but toBigNumber cuts it to
\* an integer before it is multiplied: 1 for a whole sub-fill, else 0.
FilledOutput(f) == f.output * Truncate(FilledInput(f), f.input)

\* Mutation of AddFill: the share of the source is set to the fill.
SetFill(from, f) ==
  [result EXCEPT !.input  = @ + FilledInput(f),
                 !.output = @ + FilledOutput(f),
                 !.bySource[from] = FilledInput(f)]

\* The totals with one more sub-fill of this source.
AddFill(from, f) ==
  [result EXCEPT !.input  = @ + FilledInput(f),
                 !.output = @ + FilledOutput(f),
                 !.bySource[from] = @ + FilledInput(f)]

-----------------------------------------------------------------------------
\* createSwapQuote gets a route and the slippage of the request.
Receive(r, s) ==
  /\ route' = r /\ slippage' = s
  /\ IF r.kind = "path"
     THEN /\ stage' = "best"
          /\ UNCHANGED <<best, worst>>
     ELSE /\ stage' = "slip"
          /\ best' = [input |-> r.amount, output |-> r.output, gas |-> 0]
          /\ worst' = [input |-> r.amount, output |-> Slip(r.side, r.output, s), gas |-> 0]
  /\ remaining' = r.amount /\ result' = EmptyResult(r)
  /\ UNCHANGED <<order, sub, slipped>>

\* The next order: its gas counts once.
EnterOrder ==
  /\ Filling /\ sub = 0 /\ ~AllOrdersFilled
  /\ sub' = 1
  /\ result' = [result EXCEPT !.gas = @ + route.gas[CurrentOrder.id]]
  /\ UNCHANGED <<route, slippage, stage, order, remaining, best, worst, slipped>>

\* The next sub-fill.  The code divides by its input and by the totals of the
\* order, and a division by zero throws.
FillSub ==
  /\ Filling /\ sub # 0 /\ sub \in DOMAIN CurrentOrder.subFills /\ ~Exhausted
  /\ LET f == CurrentOrder.subFills[sub]
     IN  IF f.input = 0 \/ CurrentOrder.input = 0 \/ CurrentOrder.output = 0
         THEN stage' = "threw" /\ UNCHANGED <<sub, remaining, result>>
         ELSE /\ sub' = sub + 1
              /\ remaining' = remaining - FilledInput(f)
              /\ result' = AddFill(route.source[CurrentOrder.id], f)
              /\ UNCHANGED stage
  /\ UNCHANGED <<route, slippage, order, best, worst, slipped>>

LeaveOrder ==
  /\ Filling /\ sub # 0
  /\ sub \notin DOMAIN CurrentOrder.subFills \/ Exhausted
  /\ order' = order + 1 /\ sub' = 0
  /\ UNCHANGED <<route, slippage, stage, remaining, result, best, worst, slipped>>

\* simulateBestCaseFill returns, and the worst case starts the loops afresh.
FinishBest ==
  /\ stage = "best" /\ sub = 0 /\ AllOrdersFilled
  /\ best' = Info(result)
  /\ stage' = "worst"
  /\ order' = 1 /\ remaining' = route.amount /\ result' = EmptyResult(route)
  /\ UNCHANGED <<route, slippage, sub, worst, slipped>>

\* simulateWorstCaseFill slips the output and counts the gas of all orders.
FinishWorst ==
  /\ stage = "worst" /\ sub = 0 /\ AllOrdersFilled
  /\ worst' = [input  |-> result.input,
               output |-> Slip(route.side, result.output, slippage),
               gas    |-> TotalGas(route)]
  /\ stage' = "slip"
  /\ UNCHANGED <<route, slippage, order, sub, remaining, result, best, slipped>>

\* The output of an order changes like that of the quote, again rounded.
SlipOrder(output) ==
  IF worst.output = best.output
  THEN output
  ELSE IF route.side = "Sell"
       THEN Truncate(output * worst.output, best.output)
       ELSE RoundUp(output * worst.output, best.output)

\* Only the second hop of a two-hop route has an output; the first has none.
OrderOutputs ==
  IF route.kind = "path"
  THEN [i \in DOMAIN route.orders |-> route.orders[i].output]
  ELSE <<0, route.output>>

\* getMaxQuoteSlippageRate divides by the output of the best case.
SlipOrders ==
  /\ stage = "slip"
  /\ IF best.output = 0
     THEN stage' = "threw" /\ UNCHANGED slipped
     ELSE /\ stage' = "quoted"
          /\ slipped' = [i \in DOMAIN OrderOutputs |-> SlipOrder(OrderOutputs[i])]
  /\ UNCHANGED <<route, slippage, order, sub, remaining, result, best, worst>>

QuoteStep ==
  EnterOrder \/ FillSub \/ LeaveOrder \/ FinishBest \/ FinishWorst \/ SlipOrders

QuoteDone == stage \in {"quoted", "threw"} /\ UNCHANGED quoteVars

QuoteNext ==
  \/ stage = "idle" /\ \E r \in Routes, s \in Slippages : Receive(r, s)
  \/ QuoteStep \/ QuoteDone

QuoteSpec == QuoteInit /\ [][QuoteNext]_quoteVars

-----------------------------------------------------------------------------
(* Properties *)

\* What the sources fill together.
Shares(bySource) == FoldFunction(+, 0, bySource)

Results(r) ==
  [input : Nat, output : Int, gas : Nat, bySource : [Sources(r) -> Nat]]

Infos == [input : Nat, output : Int, gas : Nat]

\* The variables hold what their declarations say.
QuoteTypeOK ==
  /\ stage \in {"idle", "best", "worst", "slip", "quoted", "threw"}
  /\ stage # "idle" => route \in Routes
  /\ slippage \in 0..Whole
  /\ order \in Nat \ {0} /\ sub \in Nat /\ remaining \in Nat
  /\ result \in Results(route)
  /\ best \in Infos /\ worst \in Infos
  /\ slipped \in Seq(Int)

\* Simulating the fill neither loses nor invents input: what is filled and what
\* remains are together the amount of the order, and the shares of the sources
\* add up to what is filled.
InputConserved ==
  Filling =>
    /\ result.input + remaining = route.amount
    /\ result.input = Shares(result.bySource)

\* A route that fills the order is quoted for exactly the amount of the order, in
\* the best and in the worst case, although its last fill reaches beyond it.
QuotesWholeAmount ==
  stage \in {"slip", "quoted"} => best.input = route.amount /\ worst.input = route.amount

\* No output slips in favour of the taker.
SlipsAgainst(side, before, after) ==
  IF side = "Sell" THEN after <= before ELSE after >= before

\* The worst case is never better for the taker than the best case, in output, in
\* gas, or in the amount of any order: the bounds of the transaction are those of
\* the worst case.
WorstIsNoBetter ==
  /\ stage \in {"slip", "quoted"} =>
       SlipsAgainst(route.side, best.output, worst.output) /\ worst.gas >= best.gas
  /\ stage = "quoted" =>
       \A i \in DOMAIN slipped : SlipsAgainst(route.side, OrderOutputs[i], slipped[i])

\* The output quoted is that of the route to within its last fill, which may add
\* to the output or take from it: all the fills before it count in full.
QuoteWithinLastFill ==
  stage \in {"slip", "quoted"} /\ route.kind = "path" =>
    LET miss == route.num - best.output * route.den
        last == LastFill(route).output * route.den
    IN  (0 <= miss /\ miss <= last) \/ (last <= miss /\ miss <= 0)

\* The division by zero in the simulation is met only by a fill between two equal
\* samples, which has no input.
OnlyEmptyFillsThrow ==
  stage = "threw" =>
    \E i \in DOMAIN route.orders :
      \E k \in DOMAIN route.orders[i].subFills : route.orders[i].subFills[k].input = 0

\* The amount quoted is what the route was found to buy (for purchases: to cost),
\* up to the rounding to whole units.
QuotedAsRouted ==
  stage = "quoted" /\ route.kind = "path" =>
    best.output >= Truncate(route.num, route.den)

-----------------------------------------------------------------------------
(* The inductive invariant behind the properties *)

\* What the orders before the i-th, and the sub-fills before the k-th of the
\* i-th, add up to: the amounts the loops have filled as long as they fill whole
\* sub-fills.
InputBefore(r, i, k) ==
  Inputs(SubSeq(r.orders, 1, i - 1))
    + IF k = 0 THEN 0 ELSE Inputs(SubSeq(r.orders[i].subFills, 1, k - 1))

OutputBefore(r, i, k) ==
  Outputs(SubSeq(r.orders, 1, i - 1))
    + IF k = 0 THEN 0 ELSE Outputs(SubSeq(r.orders[i].subFills, 1, k - 1))

Gases(r) == [i \in DOMAIN r.orders |-> r.gas[r.orders[i].id]]

GasBefore(r, i, k) ==
  FoldLeft(+, 0, SubSeq(Gases(r), 1, IF k = 0 THEN i - 1 ELSE i))

\* The last sub-fill counts only when it is filled whole.
FilledOutputOf(r) ==
  OutputBeforeLast(r)
    + IF LeftForLast(r) < LastFill(r).input THEN 0 ELSE LastFill(r).output

BestInfo(r) ==
  IF r.kind = "path"
  THEN [input |-> r.amount, output |-> FilledOutputOf(r), gas |-> TotalGas(r)]
  ELSE [input |-> r.amount, output |-> r.output, gas |-> 0]

WorstInfo(r, s) == [BestInfo(r) EXCEPT !.output = Slip(r.side, @, s)]

CursorOK ==
  /\ order \in 1..(Len(route.orders) + 1)
  /\ sub # 0 => /\ order \in DOMAIN route.orders
               /\ sub \in 1..(Len(route.orders[order].subFills) + 1)

\* While something remains the loops have filled whole sub-fills only; what cuts
\* a sub-fill is the last one, and with it everything is filled.
ProgressOK ==
  IF remaining > 0
  THEN /\ result.input = InputBefore(route, order, sub)
       /\ result.output = OutputBefore(route, order, sub)
       /\ result.gas = GasBefore(route, order, sub)
  ELSE result.output = FilledOutputOf(route) /\ result.gas = TotalGas(route)

FillingOK ==
  /\ route.kind = "path" /\ CursorOK /\ ProgressOK
  /\ result.input + remaining = route.amount
  /\ result.input = Shares(result.bySource)

QuoteInv ==
  /\ stage \in {"idle", "best", "worst", "slip", "quoted", "threw"}
  /\ slippage \in 0..Whole
  /\ order \in Nat \ {0} /\ sub \in Nat /\ remaining \in Nat
  /\ result \in Results(route)
  /\ stage = "idle" => route = NoRoute /\ order = 1 /\ sub = 0
  /\ stage # "idle" => IsRoute(route)
  /\ Filling => FillingOK
  /\ stage \in {"idle", "best"} => best = NoInfo
  /\ stage \in {"worst", "slip", "quoted"} => best = BestInfo(route)
  /\ stage \in {"idle", "best", "worst"} => worst = NoInfo
  /\ stage \in {"slip", "quoted"} => worst = WorstInfo(route, slippage)
  /\ best \in Infos /\ worst \in Infos
  /\ slipped = IF stage = "quoted"
               THEN [i \in DOMAIN OrderOutputs |-> SlipOrder(OrderOutputs[i])]
               ELSE <<>>
  /\ OnlyEmptyFillsThrow

=============================================================================
