------------------------------- MODULE MCSwap -------------------------------
(***************************************************************************)
(* Requests for a sale and a purchase with each end native or not, some    *)
(* that are refused, and routes for every feature of the exchange proxy on *)
(* three chains.                                                           *)
(***************************************************************************)
EXTENDS SwapService

MCTokens == {"A", "B", "U", "WETH", "ETH"}

Asked(chain, sell, buy, side, slippage) ==
  [chain |-> chain, sellToken |-> sell, buyToken |-> buy, side |-> side, amount |-> 6,
   taker |-> "taker", slippage |-> slippage, excluded |-> {"Kyber"}]

Pairs == {<<"A", "B">>, <<"NATIVE", "A">>, <<"A", "NATIVE">>, <<"A", "WETH">>,
          <<"NATIVE", "WETH">>, <<"WETH", "NATIVE">>, <<"NATIVE", "NATIVE">>}

Good == {Asked(chain, p[1], p[2], side, slippage) :
           chain \in {"MAINNET", "BSC", "MATIC"}, p \in Pairs, side \in {"Sell", "Buy"},
           slippage \in {0, 30, NoSlippage}}

Sale == Asked("MAINNET", "A", "B", "Sell", 0)

Refused ==
  {[Sale EXCEPT !.sellToken = BadAddress], [Sale EXCEPT !.buyToken = BadAddress],
   [Sale EXCEPT !.amount = BadAmount], [Sale EXCEPT !.taker = BadAddress], [Sale EXCEPT !.taker = NULL_ADDRESS],
   [Sale EXCEPT !.excluded = {"NoSource"}], [Sale EXCEPT !.buyToken = "A"],
   [Sale EXCEPT !.sellToken = NULL_ADDRESS], [Sale EXCEPT !.slippage = Whole + 1]}

MCRequests == Good \union Refused

Route(sources) == [sources |-> sources, isTwoHop |-> FALSE]

TwoHops(sources) == [sources |-> sources, isTwoHop |-> TRUE]

MCShapes ==
  [MAINNET |-> {Route(<<s>>) : s \in {"UniswapV2", "SushiSwap", "UniswapV3", "LiquidityProvider",
                                      "Curve", "Mooniswap", "Balancer", "Kyber"}}
               \union {Route(<<"UniswapV2", "SushiSwap">>), Route(<<"UniswapV2", "UniswapV3">>),
                       Route(<<"UniswapV2", "Curve">>),
                       TwoHops(<<"UniswapV2", "SushiSwap">>), TwoHops(<<"Balancer", "UniswapV3">>)},
   BSC     |-> {Route(<<s>>) : s \in {"PancakeSwap", "SushiSwap", "LiquidityProvider", "Nerve"}}
               \union {Route(<<"PancakeSwap", "SushiSwap">>), TwoHops(<<"PancakeSwap", "Nerve">>)},
   MATIC   |-> {Route(<<"QuickSwap">>), Route(<<"QuickSwap", "SushiSwap">>),
                TwoHops(<<"QuickSwap", "SushiSwap">>)}]
=============================================================================
