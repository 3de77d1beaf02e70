---------------------------- MODULE SwapConsumer ----------------------------
(***************************************************************************)
(* getTxCalldata: which feature of the exchange proxy fills a quote, and   *)
(* what the call tells it to sell, to buy at least, and to send along.     *)
(*                                                                         *)
(* A quote names the wrapped token where a request names the native one;   *)
(* the options tell which end is native.  An order keeps its source, its   *)
(* amounts and the tokens of its path; how its bridge data is encoded is   *)
(* in BridgeData.                                                          *)
(***************************************************************************)
EXTENDS BridgeData

CONSTANTS
  Wrapped,    \* the wrapped native token
  Grain       \* what a rate is rounded to: one over this (2^51, see MaxQuoteSlippageRate)

ASSUME GrainAssumption == Grain \in Nat \ {0}

ETH_NATIVE_ADDRESS == "ETH"

\* Stands for 2^256 - 1: more than there is of any token.
MAX_UINT256 == 1073741824

NoCall == [feature |-> "none"]

Throws == [feature |-> "throws"]

-----------------------------------------------------------------------------
(* Amounts *)

CeilDiv(n, d) == (n + d - 1) \div d

\* The nearest integer, and of two the larger.
HalfUp(n, d) == (2 * n + d) \div (2 * d)

\* The slippage between the two cases of the quote, in grains.  The code rounds a quotient
\* to 20 decimals, makes it a double, takes that from one and writes the difference in
\* decimals again: together by less than half a grain for a sale.
MaxQuoteSlippageRate(q) ==
  IF q.side = "Sell"
  THEN HalfUp(Grain * (q.best.buys - q.worst.buys), q.best.buys)
  ELSE HalfUp(Grain * (q.worst.sells - q.best.sells), q.best.sells)

\* Rounded against the taker, but the rate may have been rounded either way: an order
\* may ask for less than the worst case, or for more.  Without slippage the orders stay
\* as they are.
SlipOrders(q) ==
  LET rate    == MaxQuoteSlippageRate(q)
      slip(o) == IF q.side = "Sell"
                 THEN [o EXCEPT !.buys = (@ * (Grain - rate)) \div Grain]
                 ELSE [o EXCEPT !.sells = CeilDiv(@ * (Grain + rate), Grain)]
  IN  [i \in DOMAIN q.orders |-> slip(q.orders[i])]

\* Mutation of SellAmount: the best case is sold.
BestSellAmount(q) == q.best.sells

\* The larger amount of the two cases.
SellAmount(q) == IF q.best.sells > q.worst.sells THEN q.best.sells ELSE q.worst.sells

\* Mutation of MinBuyAmount: the taker is promised the best case.
BestBuyAmount(q) == q.best.buys

MinBuyAmount(q) == q.worst.buys

\* What is sent along with a call that pays the protocol fee.
EthAmount(q, native) == q.worst.fee + (IF native.sell THEN SellAmount(q) ELSE 0)

-----------------------------------------------------------------------------
(* Quotes of one order: the direct features *)

PANCAKE_SWAP_FORKS ==
  <<"PancakeSwap", "PancakeSwapV2", "BakerySwap", "SushiSwap", "ApeSwap", "CafeSwap",
    "CheeseSwap", "JulSwap">>

\* The call of a direct feature: it pulls what it sells and pays what it buys.
Direct(feature, q, native, input, output) ==
  [feature |-> feature, input |-> input, output |-> output,
   sells |-> SellAmount(q), minBuy |-> MinBuyAmount(q),
   value |-> IF native.sell THEN SellAmount(q) ELSE 0]

InputToken(q, native) == IF native.sell THEN ETH_NATIVE_ADDRESS ELSE q.sell

OutputToken(q, native) == IF native.buy THEN ETH_NATIVE_ADDRESS ELSE q.buy

\* The ends of the path an order was sampled along, native where they have to be.
AlongPath(feature, q, native) ==
  LET path == q.orders[1].path
  IN  Direct(feature, q, native,
             IF native.sell THEN ETH_NATIVE_ADDRESS ELSE Head(path),
             IF native.buy THEN ETH_NATIVE_ADDRESS ELSE path[Len(path)])

UniswapV3Feature(native) ==
  IF native.sell THEN "sellEthForTokenToUniswapV3"
  ELSE IF native.buy THEN "sellTokenForEthToUniswapV3" ELSE "sellTokenForTokenToUniswapV3"

\* The output token of Curve and Mooniswap depends on the side that is sold.
AtProvider(q, native) ==
  Direct("sellToLiquidityProvider", q, native, InputToken(q, native),
         IF native.sell THEN ETH_NATIVE_ADDRESS ELSE q.buy)

DirectCall(chain, q, native) ==
  LET source  == q.orders[1].source
      mainnet == chain = "MAINNET"
  IN  CASE Len(q.orders) # 1 -> NoCall
        [] Len(q.orders) = 1 /\ mainnet /\ source \in {"UniswapV2", "SushiSwap"} ->
             AlongPath("sellToUniswap", q, native)
        [] Len(q.orders) = 1 /\ mainnet /\ source = "UniswapV3" ->
             Direct(UniswapV3Feature(native), q, native,
                    InputToken(q, native), OutputToken(q, native))
        [] Len(q.orders) = 1 /\ chain = "BSC" /\ Contains(PANCAKE_SWAP_FORKS, source) ->
             AlongPath("sellToPancakeSwap", q, native)
        [] Len(q.orders) = 1 /\ chain \in {"MAINNET", "BSC"} /\ source = "LiquidityProvider" ->
             Direct("sellToLiquidityProvider", q, native,
                    InputToken(q, native), OutputToken(q, native))
        [] Len(q.orders) = 1 /\ mainnet /\ source \in {"Curve", "Swerve"}
             /\ Wrapped \notin {q.sell, q.buy} -> AtProvider(q, native)
        [] Len(q.orders) = 1 /\ mainnet /\ source = "Mooniswap" -> AtProvider(q, native)
        [] OTHER -> NoCall

-----------------------------------------------------------------------------
(* Multiplex *)

MULTIPLEX_BATCH_FILL_SOURCES == {"UniswapV2", "SushiSwap", "LiquidityProvider", "UniswapV3"}

MULTIPLEX_MULTIHOP_FILL_SOURCES == {"UniswapV2", "SushiSwap", "LiquidityProvider"}

\* The functions of the multiplex ABI that swap tokens.
MultiplexFunctions ==
  {"_batchSellLiquidityProviderExternal", "_batchSellUniswapV2External",
   "multiplexBatchSellEthForToken", "multiplexBatchSellTokenForEth",
   "multiplexBatchSellTokenForToken", "multiplexMultiHopSellEthForToken",
   "multiplexMultiHopSellTokenForEth", "multiplexMultiHopSellTokenForToken"}

\* The selector a wrapped call asks for.  getSighash throws for a function that is not
\* in the ABI, and the contract itself (Uniswap V3) has no such method.
Selector(source) ==
  CASE source \in {"UniswapV2", "SushiSwap"} -> "_sellToUniswap"
    [] source = "LiquidityProvider" -> "_sellToLiquidityProvider"
    [] OTHER -> "(not a function)"

\* A batch of orders, or the two hops, as one call of the multiplex feature.
Multiplexed(feature, q, native) ==
  IF \A i \in DOMAIN q.orders : Selector(q.orders[i].source) \in MultiplexFunctions
  THEN [feature |-> feature, input |-> InputToken(q, native), output |-> OutputToken(q, native),
        sells |-> q.worst.sells, minBuy |-> MinBuyAmount(q), value |-> EthAmount(q, native)]
  ELSE Throws

IsMultiplexBatch(chain, q, native) ==
  /\ chain = "MAINNET" /\ ~q.isTwoHop /\ ~native.sell /\ ~native.buy
  /\ \A i \in DOMAIN q.orders : q.orders[i].source \in MULTIPLEX_BATCH_FILL_SOURCES

IsMultiplexHops(chain, q) ==
  /\ chain = "MAINNET" /\ q.isTwoHop
  /\ \A i \in 1..2 : q.orders[i].source \in MULTIPLEX_MULTIHOP_FILL_SOURCES

-----------------------------------------------------------------------------
(* Transformations *)

\* A fill of bridge orders.  The sequence tells the kind of each next order, 0 for a
\* bridge order; a list of zeros inside the list is encoded as one zero.
FillQuote(side, sell, buy, orders, fillAmount) ==
  [kind |-> "fill", side |-> side, sell |-> sell, buy |-> buy, orders |-> orders,
   fillSequence |-> <<0>>, fillAmount |-> fillAmount]

FillTransforms(q) ==
  LET orders == SlipOrders(q)
      via    == orders[1].path[Len(orders[1].path)]
  IN  IF q.isTwoHop
      THEN <<FillQuote("Sell", q.sell, via, <<orders[1]>>, orders[1].sells),
             FillQuote("Sell", via, q.buy, <<orders[2]>>, MAX_UINT256)>>
      ELSE <<FillQuote(q.side, q.sell, q.buy, orders, q.amount)>>

WethTransform(token, amount) == [kind |-> "weth", token |-> token, amount |-> amount]

\* Everything that may be left in the wallet.
PaidTokens(q) ==
  {q.sell, q.buy, ETH_NATIVE_ADDRESS} \union
  (IF q.isTwoHop THEN {q.orders[1].path[Len(q.orders[1].path)]} ELSE {})

\* Mutation of Unwrapped: what was bought is not unwrapped.
NotUnwrapped(native) == <<>>

Unwrapped(native) == IF native.buy THEN <<WethTransform(Wrapped, MAX_UINT256)>> ELSE <<>>

Transforms(q, native) ==
  (IF native.sell THEN <<WethTransform(ETH_NATIVE_ADDRESS, SellAmount(q))>> ELSE <<>>)
  \o FillTransforms(q) \o Unwrapped(native)
  \o <<[kind |-> "pay", tokens |-> PaidTokens(q)]>>

\* The bridge data of an order needs an arm for its source.
TransformCall(q, native) ==
  IF \A i \in DOMAIN q.orders : q.orders[i].source \in Bridged
  THEN [feature |-> "transformERC20", input |-> InputToken(q, native),
        output |-> OutputToken(q, native), sells |-> SellAmount(q),
        minBuy |-> MinBuyAmount(q), value |-> EthAmount(q, native),
        transforms |-> Transforms(q, native)]
  ELSE Throws

-----------------------------------------------------------------------------
\* getTxCalldata.
TxCalldata(chain, q, native) ==
  LET direct == DirectCall(chain, q, native)
  IN  CASE direct # NoCall -> direct
        [] direct = NoCall /\ IsMultiplexBatch(chain, q, native) ->
             Multiplexed("batchFill", q, native)
        [] direct = NoCall /\ IsMultiplexHops(chain, q) -> Multiplexed("multiHopFill", q, native)
        [] OTHER -> TransformCall(q, native)
=============================================================================
