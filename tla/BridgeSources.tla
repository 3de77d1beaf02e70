---------------------------- MODULE BridgeSources ----------------------------
(***************************************************************************)
(* The sources of liquidity a node knows, those it asks on each chain, and *)
(* those a request leaves out.  Sources keep their names in the code; the  *)
(* order of a list is the order in which the sources are asked.            *)
(***************************************************************************)
EXTENDS Sequences, SequencesExt

BridgeSource ==
  {"Uniswap", "UniswapV2", "Eth2Dai", "Kyber", "Curve",
   "LiquidityProvider", "MultiBridge", "Balancer", "BalancerV2", "Cream",
   "Bancor", "MakerPsm", "MStable", "Mooniswap", "MultiHop", "Shell",
   "Swerve", "SnowSwap", "SushiSwap", "Dodo", "DodoV2", "CryptoCom",
   "Linkswap", "KyberDmm", "Smoothy", "Component", "Saddle", "XSigma",
   "UniswapV3", "CurveV2", "Lido", "ShibaSwap", "Clipper", "PancakeSwap",
   "PancakeSwapV2", "BakerySwap", "Nerve", "Belt", "Ellipsis", "ApeSwap",
   "CafeSwap", "CheeseSwap", "JulSwap", "ACryptos", "QuickSwap",
   "ComethSwap", "Dfyn", "WaultSwap", "Polydex", "FirebirdOneSwap",
   "JetSwap", "IronSwap"}

Chains ==
  {"MAINNET", "ROPSTEN", "RINKEBY", "KOVAN", "BSC", "MATIC", "MATIC_MUMBAI",
   "AVALANCHE", "FANTOM", "CELO", "OPTIMISM"}

\* A row of a table of lists; what has no row has nothing.
Row(table, key) == IF key \in DOMAIN table THEN table[key] ELSE <<>>

\* SELL_SOURCE_FILTERS.
SellSources ==
  [MAINNET |-> <<
   "Uniswap", "UniswapV2", "Eth2Dai", "Kyber", "Curve",
   "Balancer", "BalancerV2", "Bancor", "MStable", "Mooniswap",
   "Swerve", "SnowSwap", "SushiSwap", "Shell", "MultiHop",
   "Dodo", "DodoV2", "Cream", "LiquidityProvider", "CryptoCom",
   "Linkswap", "Lido", "MakerPsm", "KyberDmm", "Smoothy",
   "Component", "Saddle", "XSigma", "UniswapV3", "CurveV2",
   "ShibaSwap", "Clipper">>,
   ROPSTEN |-> <<
   "Kyber", "SushiSwap", "Uniswap", "UniswapV2", "UniswapV3",
   "Curve", "Mooniswap">>,
   BSC |-> <<
   "BakerySwap", "Belt", "Dodo", "DodoV2", "Ellipsis",
   "Mooniswap", "MultiHop", "Nerve", "PancakeSwap",
   "PancakeSwapV2", "SushiSwap", "Smoothy", "ApeSwap",
   "CafeSwap", "CheeseSwap", "JulSwap", "LiquidityProvider",
   "WaultSwap", "FirebirdOneSwap", "JetSwap", "ACryptos">>,
   MATIC |-> <<
   "SushiSwap", "QuickSwap", "ComethSwap", "Dfyn", "MStable",
   "Curve", "DodoV2", "Dodo", "CurveV2", "WaultSwap", "Polydex",
   "ApeSwap", "FirebirdOneSwap", "BalancerV2", "KyberDmm",
   "LiquidityProvider", "MultiHop", "JetSwap", "IronSwap">>]

\* BUY_SOURCE_FILTERS.
BuySources ==
  [MAINNET |-> <<
   "Uniswap", "UniswapV2", "Eth2Dai", "Kyber", "Curve",
   "Balancer", "BalancerV2", "MStable", "Mooniswap", "Shell",
   "Swerve", "SnowSwap", "SushiSwap", "MultiHop", "Dodo",
   "DodoV2", "Cream", "Lido", "LiquidityProvider", "CryptoCom",
   "Linkswap", "MakerPsm", "KyberDmm", "Smoothy", "Component",
   "Saddle", "XSigma", "UniswapV3", "CurveV2", "ShibaSwap",
   "Clipper">>,
   ROPSTEN |-> SellSources.ROPSTEN,
   BSC |-> SellSources.BSC,
   MATIC |-> SellSources.MATIC]

\* FEE_SOURCE_FILTERS: what prices a token in the native one.
FeeSources ==
  [MAINNET |-> <<"UniswapV2", "SushiSwap", "UniswapV3">>,
   ROPSTEN |-> <<"UniswapV2", "SushiSwap">>,
   BSC |-> <<"PancakeSwap", "Mooniswap", "SushiSwap">>,
   MATIC |-> <<"QuickSwap", "SushiSwap">>]

\* The elements of a sequence that pass a test, in their order.  The provers know
\* nothing of SelectSeq.
Select(s, Passes(_)) ==
  FlattenSeq([i \in DOMAIN s |-> IF Passes(s[i]) THEN <<s[i]>> ELSE <<>>])

\* SourceFilter.getSources.
GetSources(sources, excluded) == Select(sources, LAMBDA s : s \notin excluded)

QuoteSources(side, chain, excluded) ==
  GetSources(Row(IF side = "Sell" THEN SellSources ELSE BuySources, chain), excluded)

\* getDefaultExcludedSources.
DefaultExcluded(chain) ==
  CASE chain \in {"MAINNET", "BSC", "MATIC", "AVALANCHE", "FANTOM"} -> {"MultiBridge"}
    [] chain = "KOVAN"   -> BridgeSource \ {"UniswapV2"}
    [] chain = "ROPSTEN" -> BridgeSource \ {"SushiSwap", "Uniswap", "UniswapV2", "UniswapV3",
                                            "Curve", "Mooniswap"}
    [] OTHER -> {}

\* parseLiquiditySources: the exclusions of a request add to the default ones.  An
\* unknown name in the list is refused.
ParseExcluded(names, chain) ==
  IF names \subseteq BridgeSource
  THEN [refused |-> FALSE, sources |-> names \union DefaultExcluded(chain)]
  ELSE [refused |-> TRUE, sources |-> {}]
=============================================================================
