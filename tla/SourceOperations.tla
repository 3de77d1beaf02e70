-------------------------- MODULE SourceOperations --------------------------
(***************************************************************************)
(* The calls by which the sampler asks each source: the two switches over  *)
(* the source in the sampler service, one for sales and one for purchases. *)
(*                                                                         *)
(* An operation keeps the source, the method of the sampler contract, what *)
(* it is asked of (a router, a pool, a registry, with an offset), the path *)
(* of tokens, and two sets of fill data: the fields the operation starts   *)
(* with, and those its callback adds when the call succeeds.               *)
(*                                                                         *)
(* MultiBridge, which no filter holds, has no arm in the switches: the     *)
(* code throws.                                                            *)
(***************************************************************************)
EXTENDS BridgeSources, Integers

CONSTANTS
  Tokens,          \* the addresses of tokens
  Wrapped,         \* the wrapped native token
  StEth,           \* the token of Lido
  Link,            \* the token Linkswap goes through, besides the wrapped one
  Neighbours,      \* [token -> tokens it is often traded through]
  Intermediates,   \* the tokens every pair may go through
  BadTokens,       \* [source -> tokens it does not trade]
  CurveLikePools,  \* a sequence of [tokens, metaTokens]
  ShellLikePools,  \* a sequence of sets of tokens
  Providers,       \* the registry of liquidity providers: sets of tokens
  ClipperTokens,
  CachedPools      \* [source -> sequence of [pool, tokens]]: what the cache holds

ETH == "0x0"

ASSUME TokensAssumption ==
  /\ {Wrapped, StEth, Link, ETH} \subseteq Tokens /\ Intermediates \in Seq(Tokens)
  /\ \A t \in DOMAIN Neighbours : Neighbours[t] \in Seq(Tokens)

ASSUME PoolsAssumption ==
  /\ CurveLikePools \in Seq([tokens : SUBSET Tokens, metaTokens : SUBSET Tokens])
  /\ ShellLikePools \in Seq(SUBSET Tokens) /\ Providers \in Seq(SUBSET Tokens)
  /\ \A s \in {"Balancer", "BalancerV2", "Cream"} :
       CachedPools[s] \in Seq(Range(CachedPools[s]))

UniswapV2Like ==
  {"UniswapV2", "SushiSwap", "CryptoCom", "PancakeSwap", "PancakeSwapV2", "BakerySwap",
   "ApeSwap", "CafeSwap", "CheeseSwap", "JulSwap", "QuickSwap", "ComethSwap", "Dfyn",
   "WaultSwap", "Polydex", "ShibaSwap", "JetSwap"}

CurveLike ==
  {"Curve", "CurveV2", "Swerve", "SnowSwap", "Nerve", "Belt", "Ellipsis", "Saddle",
   "XSigma", "FirebirdOneSwap", "IronSwap", "ACryptos"}

-----------------------------------------------------------------------------
(* Where a source is configured *)

\* The routers of a source, by chain.
RouterChains ==
  [Eth2Dai |-> {"MAINNET"}, Uniswap |-> {"MAINNET", "ROPSTEN"},
   UniswapV2 |-> {"MAINNET", "ROPSTEN"}, CryptoCom |-> {"MAINNET"},
   SushiSwap |-> {"MAINNET", "BSC", "ROPSTEN", "MATIC"},
   PancakeSwap |-> {"BSC"}, PancakeSwapV2 |-> {"BSC"}, BakerySwap |-> {"BSC"},
   ApeSwap |-> {"BSC", "MATIC"}, CafeSwap |-> {"BSC"}, CheeseSwap |-> {"BSC"},
   JulSwap |-> {"BSC"}, QuickSwap |-> {"MATIC"}, ComethSwap |-> {"MATIC"},
   Dfyn |-> {"MATIC"}, WaultSwap |-> {"BSC", "MATIC"}, Polydex |-> {"MATIC"},
   ShibaSwap |-> {"MAINNET"}, JetSwap |-> {"BSC", "MATIC"},
   UniswapV3 |-> {"MAINNET", "ROPSTEN"}, KyberDmm |-> {"MAINNET", "MATIC"},
   Kyber |-> {"MAINNET", "ROPSTEN"}]

\* The registries, vaults, factories and single pools of a source, by chain.
PoolChains ==
  [Mooniswap |-> {"MAINNET", "BSC"}, BalancerV2 |-> {"MAINNET", "MATIC"},
   Dodo |-> {"MAINNET", "BSC", "MATIC"}, DodoV2 |-> {"MAINNET", "BSC", "MATIC"},
   Linkswap |-> {"MAINNET"}, MakerPsm |-> {"MAINNET"}, Lido |-> {"MAINNET"},
   Clipper |-> {"MAINNET"}, LiquidityProvider |-> {"MAINNET"}]

\* The pools listed for a source, by chain.
ListedChains ==
  [Curve |-> {"MAINNET", "MATIC"}, CurveV2 |-> {"MAINNET", "MATIC"},
   Swerve |-> {"MAINNET"}, SnowSwap |-> {"MAINNET"}, Nerve |-> {"BSC"},
   Belt |-> {"BSC"}, Ellipsis |-> {"BSC"}, Smoothy |-> {"MAINNET", "BSC"},
   Saddle |-> {"MAINNET"}, XSigma |-> {"MAINNET"},
   FirebirdOneSwap |-> {"BSC", "MATIC"}, IronSwap |-> {"MATIC"}, ACryptos |-> {"BSC"},
   Shell |-> {"MAINNET"}, Component |-> {"MAINNET"}, MStable |-> {"MAINNET", "MATIC"}]

KYBER_MAX_RESERVES_QUERIED == 5

\* Mutation of ReserveOffsets: every call asks the first reserve.
FirstReserve == [k \in 1..KYBER_MAX_RESERVES_QUERIED |-> 0]

ReserveOffsets == [k \in 1..KYBER_MAX_RESERVES_QUERIED |-> k - 1]

DODO_V2_MAX_POOLS_QUERIED == 3

DodoV2Factories == 3

MooniswapRegistries(chain) == IF chain = "MAINNET" THEN 3 ELSE 1

-----------------------------------------------------------------------------
(* Tokens and pools of a pair *)

\* getIntermediateTokens.  A common neighbour of both tokens appears twice.
IntermediateTokens(sell, buy) ==
  Select(Row(Neighbours, buy) \o Row(Neighbours, sell) \o Intermediates,
         LAMBDA t : t \notin {sell, buy})

Paths(sell, buy, via) == <<<<sell, buy>>>> \o [i \in DOMAIN via |-> <<sell, via[i], buy>>]

\* Some sources know the native token, where the others know the wrapped one.
Native(t) == IF t = Wrapped THEN ETH ELSE t

\* The positions of a sequence that pass a test.
Where(s, Test(_)) == Select([i \in DOMAIN s |-> i], LAMBDA i : Test(s[i]))

\* findCurveLikePoolSettings: without meta tokens every pool of the source passes,
\* whatever its tokens; with them one of the pair has to be a meta token.
FindCurveLike(s, chain, sell, buy) ==
  LET passes(p) == p.metaTokens = {} \/ {sell, buy} \intersect p.metaTokens # {}
  IN  IF chain \in ListedChains[s] THEN Where(CurveLikePools, passes) ELSE <<>>

\* findShellLikePoolSettings.
FindShellLike(s, chain, sell, buy) ==
  LET trades(tokens) == {sell, buy} \subseteq tokens
  IN  IF chain \in ListedChains[s] THEN Where(ShellLikePools, trades) ELSE <<>>

CachedForPair(s, sell, buy) ==
  Select(CachedPools[s], LAMBDA p : p.tokens = {sell, buy})

-----------------------------------------------------------------------------
(* Operations *)

Operation(source, method, at, tokens, fields, decoded) ==
  [source |-> source, method |-> method, at |-> at, tokens |-> tokens,
   fields |-> fields, decoded |-> decoded]

\* One operation per position of a list of pools.
AtPools(side, s, name, pools, pair, fields) ==
  [k \in DOMAIN pools |-> Operation(s, <<side, name>>, <<s, pools[k]>>, pair, fields, {})]

\* Sources asked along paths: by their router, or Kyber by the offset of a reserve.
ByRouter(side, chain, s, sell, buy, via) ==
  LET paths   == Paths(sell, buy, via)
      call(name, at, path, fields, decoded) ==
        Operation(s, <<side, name>>, at, path, fields, decoded)
      onPaths(name, decoded) ==
        [i \in DOMAIN paths |->
           call(name, <<s, 0>>, paths[i], {"router", "tokenAddressPath"}, decoded)]
  IN  IF chain \notin RouterChains[s]
      THEN <<>>
      ELSE CASE s = "Eth2Dai" ->
                  <<call("Eth2Dai", <<s, 0>>, <<sell, buy>>, {"router"}, {})>>
             [] s = "Uniswap" ->
                  <<call("Uniswap", <<s, 0>>, <<Native(sell), Native(buy)>>, {"router"}, {})>>
             [] s \in UniswapV2Like -> onPaths("UniswapV2", {})
             [] s = "UniswapV3" -> onPaths("UniswapV3", {"pathAmounts"})
             [] s = "KyberDmm" ->
                  <<call("KyberDmm", <<s, 0>>, <<sell, buy>>,
                         {"router", "tokenAddressPath"}, {"poolsPath"})>>
             [] s = "Kyber" ->
                  [k \in DOMAIN ReserveOffsets |->
                     call("KyberNetwork", <<s, ReserveOffsets[k]>>, <<sell, buy>>,
                          {"networkProxy"}, {"hint", "reserveId"})]

\* Sources with a list of pools and the tokens each of them trades.
ByPool(side, chain, s, sell, buy) ==
  LET atPools(name, pools, fields) ==
        AtPools(side, s, name, pools, <<sell, buy>>, fields)
      trades(tokens) == {sell, buy} \subseteq tokens
  IN  CASE s \in CurveLike -> atPools("Curve", FindCurveLike(s, chain, sell, buy), {"pool"})
        [] s = "Smoothy"   -> atPools("Smoothy", FindCurveLike(s, chain, sell, buy), {"pool"})
        [] s \in {"Shell", "Component"} ->
             atPools("Shell", FindShellLike(s, chain, sell, buy), {"poolAddress"})
        [] s = "MStable" -> atPools("MStable", FindShellLike(s, chain, sell, buy), {"router"})
        [] s = "LiquidityProvider" ->
             IF chain \in PoolChains[s]
             THEN atPools("LiquidityProvider", Where(Providers, trades),
                          {"poolAddress", "gasCost"})
             ELSE <<>>

\* Sources whose pools the registries, the pools cache or the factories tell.
ByRegistry(side, chain, s, sell, buy) ==
  LET cached(name, fields) ==
        LET pools == CachedForPair(s, sell, buy)
        IN  [k \in DOMAIN pools |->
               Operation(s, <<side, name>>, <<pools[k].pool, 0>>, <<sell, buy>>, fields, {})]
  IN  CASE s = "Balancer" -> cached("Balancer", {"poolAddress"})
        [] s = "Cream"    -> cached("Balancer", {"poolAddress"})
        [] s = "BalancerV2" ->
             IF chain \in PoolChains[s] THEN cached("BalancerV2", {"poolId", "vault"}) ELSE <<>>
        [] s = "Mooniswap" ->
             [k \in 1..(IF chain \in PoolChains[s] THEN MooniswapRegistries(chain) ELSE 0) |->
                Operation(s, <<side, "Mooniswap">>, <<s, k>>, <<Native(sell), Native(buy)>>,
                          {}, {"poolAddress"})]
        [] s = "Dodo" ->
             IF chain \in PoolChains[s]
             THEN <<Operation(s, <<side, "DODO">>, <<s, 0>>, <<sell, buy>>,
                              {"helperAddress"}, {"isSellBase", "poolAddress"})>>
             ELSE <<>>
        [] s = "DodoV2" ->
             [k \in 1..(IF chain \in PoolChains[s]
                        THEN DodoV2Factories * DODO_V2_MAX_POOLS_QUERIED ELSE 0) |->
                Operation(s, <<side, "DODOV2">>, <<s, k>>, <<sell, buy>>,
                          {}, {"isSellBase", "poolAddress"})]

\* Sources with rules of their own, and those that are listed but not asked.
ByConfig(side, chain, s, sell, buy) ==
  LET call(name, path, fields) == Operation(s, <<side, name>>, <<s, 0>>, path, fields, {})
      paths == Paths(sell, buy, Select(<<Link, Wrapped>>, LAMBDA t : t \notin {sell, buy}))
      none == s \in {"Bancor", "MultiHop"} \/ chain \notin PoolChains[s]
  IN  IF none
      THEN <<>>
      ELSE CASE s = "Linkswap" ->
                  [i \in DOMAIN paths |->
                     call("UniswapV2", paths[i], {"router", "tokenAddressPath"})]
             [] s = "MakerPsm" ->
                  <<call("MakerPsm", <<sell, buy>>,
                         {"psmAddress", "ilkIdentifier", "gemTokenAddress",
                          "isSellOperation", "sellToken", "buyToken"})>>
             [] s = "Lido" /\ sell = Wrapped /\ buy = StEth ->
                  <<call("Lido", <<sell, buy>>,
                         {"stEthTokenAddress", "wstEthTokenAddress", "sellToken",
                          "buyToken"})>>
             [] s = "Clipper" /\ {sell, buy} \subseteq ClipperTokens ->
                  <<call("LiquidityProvider", <<Native(sell), Native(buy)>>,
                         {"poolAddress", "gasCost"})>>
             [] OTHER -> <<>>

\* The arms of the switch of the purchases ask the same pools with the methods that
\* sample purchases.
BuyByRouter(chain, s, sell, buy, via) == ByRouter("Buy", chain, s, sell, buy, via)

BuyByPool(chain, s, sell, buy) == ByPool("Buy", chain, s, sell, buy)

BuyByRegistry(chain, s, sell, buy) == ByRegistry("Buy", chain, s, sell, buy)

BuyByConfig(chain, s, sell, buy) == ByConfig("Buy", chain, s, sell, buy)

Pooled == DOMAIN ListedChains \union {"LiquidityProvider"}

Registered == {"Mooniswap", "Balancer", "BalancerV2", "Cream", "Dodo", "DodoV2"}

\* _getSellQuoteOperations.
SellQuoteOperations(chain, sources, sell, buy, via) ==
  LET bad(s) == s \in DOMAIN BadTokens /\ BadTokens[s] \intersect {sell, buy} # {}
      asked(s) == CASE s \in DOMAIN RouterChains -> ByRouter("Sell", chain, s, sell, buy, via)
                    [] s \in Pooled -> ByPool("Sell", chain, s, sell, buy)
                    [] s \in Registered -> ByRegistry("Sell", chain, s, sell, buy)
                    [] OTHER -> ByConfig("Sell", chain, s, sell, buy)
  IN  FlattenSeq([i \in DOMAIN sources |->
                    IF bad(sources[i]) THEN <<>> ELSE asked(sources[i])])

\* _getBuyQuoteOperations, which does not look at the bad tokens.
BuyQuoteOperations(chain, sources, sell, buy, via) ==
  LET of(s) == CASE s \in DOMAIN RouterChains -> BuyByRouter(chain, s, sell, buy, via)
                 [] s \in Pooled -> BuyByPool(chain, s, sell, buy)
                 [] s \in Registered -> BuyByRegistry(chain, s, sell, buy)
                 [] OTHER -> BuyByConfig(chain, s, sell, buy)
  IN  FlattenSeq([i \in DOMAIN sources |-> of(sources[i])])
=============================================================================
