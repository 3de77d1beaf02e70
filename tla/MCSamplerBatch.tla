--------------------------- MODULE MCSamplerBatch ---------------------------
(***************************************************************************)
(* Requests that leave a few sources, so that all kinds of operations are  *)
(* decoded, on the three chains with sources and one without.              *)
(***************************************************************************)
EXTENDS SamplerBatch

MCTokens == {"0x0", "WETH", "stETH", "LINK", "A", "B", "U"}

MCWrapped == "WETH"
MCStEth == "stETH"
MCLink == "LINK"

MCNeighbours == [A |-> <<"U">>, B |-> <<"U">>]
MCIntermediates == <<"WETH">>

MCBadTokens == [Uniswap |-> {"A"}]

MCCurveLikePools == <<[tokens |-> {"A", "B"}, metaTokens |-> {}],
                      [tokens |-> {"U"}, metaTokens |-> {"B"}]>>
MCShellLikePools == <<{"A", "B"}, {"A", "U"}>>
MCProviders == <<{"A", "B", "WETH"}>>
MCClipperTokens == {"A", "WETH"}
MCCachedPools ==
  [Balancer   |-> <<[pool |-> "bal1", tokens |-> {"A", "B"}], [pool |-> "bal2", tokens |-> {"A", "B"}]>>,
   BalancerV2 |-> <<[pool |-> "v2", tokens |-> {"A", "WETH"}]>>,
   Cream      |-> <<[pool |-> "cream", tokens |-> {"A", "B"}]>>]

\* Both sides of a request for a pair, and the sources it leaves.
Requested(chain, sell, buy, kept) ==
  {[chain |-> chain, side |-> side, sell |-> sell, buy |-> buy,
    excluded |-> BridgeSource \ kept] : side \in {"Sell", "Buy"}}

MCRequests ==
  Requested("MAINNET", "A", "B", {"UniswapV2", "UniswapV3", "MultiHop"}) \union
  Requested("MAINNET", "A", "B", {"UniswapV2", "SushiSwap", "UniswapV3"}) \union
  Requested("MAINNET", "WETH", "A", {"Kyber", "MultiHop"}) \union
  Requested("MAINNET", "A", "B", {"Dodo", "KyberDmm", "Shell", "Curve"}) \union
  Requested("MAINNET", "A", "B", {"DodoV2", "Uniswap", "Linkswap"}) \union
  Requested("MAINNET", "A", "B", {"Smoothy", "Balancer", "Cream", "Component", "MStable"}) \union
  Requested("MAINNET", "A", "WETH", {"BalancerV2", "LiquidityProvider", "Clipper", "Mooniswap"}) \union
  Requested("MAINNET", "WETH", "stETH", {"Lido", "Eth2Dai", "MakerPsm", "Bancor"}) \union
  Requested("MAINNET", "A", "B", {"MultiHop"}) \union
  Requested("BSC", "A", "B", {"PancakeSwap", "Nerve", "MultiHop"}) \union
  Requested("MATIC", "B", "A", {"QuickSwap", "Dodo", "IronSwap"}) \union
  Requested("FANTOM", "A", "B", {"UniswapV2"})

MCBatches == {BatchOf(r) : r \in MCRequests}
=============================================================================
