---------------------------- MODULE MCRouteQuote ----------------------------
(***************************************************************************)
(* The markets of the search, two groups of them, carried on to the quote. *)
(***************************************************************************)
EXTENDS MCPathSearch, RouteQuote

QuotedCurves == Curves

RequestMarkets ==
  {SampledMarket(side, 10, <<1, 0>>, <<"UniswapV2", "Curve">>, <<90, 130>>, curve, hops) :
     side \in {"Sell", "Buy"}, curve \in [Groups -> QuotedCurves], hops \in TwoHopSets}

\* No two-hop route is quoted to a purchase.
QuotedMarkets == {m \in RequestMarkets : m.side = "Buy" => m.twoHops = {}}
=============================================================================
