------------------------------ MODULE RouteQuote ------------------------------
(***************************************************************************)
(* A request from the samples to its quote: the search of PathSearch, and  *)
(* the quote of the route it returns (_getSwapQuote of the swap service).  *)
(***************************************************************************)
EXTENDS BestMixture

CONSTANTS
  GasOf,      \* [group -> gas of a fill]
  Slippages   \* the slippages a request may ask for

VARIABLES route, slippage, stage, order, sub, remaining, result, quoteBest, quoteWorst,
          slipped

\* The route that a finished search hands over.
RouteOf(m, p, out) ==
  IF out.kind = "path"
  THEN [kind |-> "path", side |-> m.side, amount |-> m.amount,
        orders |-> out.orders, source |-> m.kind, gas |-> GasOf,
        num |-> p.size.num, den |-> p.size.den]
  ELSE LET rate == BestTwoHopRate(m)
       IN  [kind |-> "twoHop", side |-> m.side, amount |-> m.amount,
            output |-> (CHOOSE q \in UsableTwoHops(m) :
                          TwoHopAdjustedRate(m, q) = rate).output]

HandsOver == phase = "done" /\ outcome.kind \in {"path", "twoHop"}

\* The routes come from the search, not from a constant.
Q == INSTANCE Quote WITH Routes <- {}, best <- quoteBest, worst <- quoteWorst

ASSUME RequestAssumption ==
  Slippages \subseteq 0..Q!Whole /\ \A id \in Groups : GasOf[id] \in Nat

quoteVars == <<route, slippage, stage, order, sub, remaining, result, quoteBest,
               quoteWorst, slipped>>

requestVars == <<vars, quoteVars>>

RequestInit == Init /\ Q!QuoteInit

\* The search runs before its quote.
Search ==
  /\ BuildPaths \/ StartMix \/ Walk \/ Return \/ EndMix \/ Choose
  /\ UNCHANGED quoteVars

\* The quote starts from the route the search returned.
StartQuote ==
  /\ HandsOver /\ stage = "idle"
  /\ \E s \in Slippages : Q!Receive(RouteOf(market, best, outcome), s)
  /\ UNCHANGED vars

QuoteRoute == Q!QuoteStep /\ UNCHANGED vars

\* The answer is given, or the request was refused.
Answered ==
  /\ phase = "done"
  /\ HandsOver => stage \in {"quoted", "threw"}
  /\ UNCHANGED requestVars

RequestNext == Search \/ StartQuote \/ QuoteRoute \/ Answered

RequestSpec == RequestInit /\ [][RequestNext]_requestVars

-----------------------------------------------------------------------------
(* Properties *)

\* Every route the search hands over is one that the quote expects: one order per
\* group with the totals of its fills, enough input, and only the last fill
\* reaching beyond the amount.
HandsOverRoutes == HandsOver => Q!IsRoute(RouteOf(market, best, outcome))

\* What a request gets is quoted for exactly the amount it asked for, whatever
\* route the search came to.
QuotesRequestedAmount ==
  stage \in {"slip", "quoted"} =>
    quoteBest.input = market.amount /\ quoteWorst.input = market.amount

\* The amount quoted is what the search chose the route for (for purchases: what
\* it costs), up to the rounding to whole units.
QuotedAsRouted == Q!QuotedAsRouted
=============================================================================
