-------------------------------- MODULE Fees --------------------------------
(***************************************************************************)
(* Rates and fees: the operators the fills, the paths and the choice of a  *)
(* route compute with (fees-utils and the gas options of the sampler).     *)
(*                                                                         *)
(* A rate is a fraction <<n, d>> with d > 0, where the code keeps a Big.   *)
(* Gas is counted in thousands.  m is a market (see DexFills).             *)
(***************************************************************************)
EXTENDS Integers

-----------------------------------------------------------------------------
(* Rates *)

Rate(n, d) == IF d < 0 THEN <<-n, -d>> ELSE <<n, d>>

ZeroRate == <<0, 1>>

RateGT(a, b) == a[1] * b[2] > b[1] * a[2]

\* getRate: output per input for sells, input per output for buys.
GetRate(side, input, num, den) ==
  IF input = 0 \/ num = 0
  THEN ZeroRate
  ELSE IF side = "Sell" THEN Rate(num, den * input) ELSE Rate(input * den, num)

\* getCompleteRate: the rate once more scaled by input / target.
GetCompleteRate(side, input, num, den, target) ==
  IF input = 0 \/ num = 0 \/ target = 0
  THEN ZeroRate
  ELSE IF side = "Sell"
       THEN Rate(num, den * target)
       ELSE Rate(input * input * den, num * target)

-----------------------------------------------------------------------------
(* Gas overhead of an exchange, in thousands of gas *)

\* A path of one of these sources alone has a contract feature of its own.
VipGas == [UniswapV2 |-> 21, SushiSwap |-> 21, PancakeSwap |-> 21,
           PancakeSwapV2 |-> 21, BakerySwap |-> 21, ApeSwap |-> 21,
           CafeSwap |-> 21, CheeseSwap |-> 21, JulSwap |-> 21,
           UniswapV3 |-> 26, LiquidityProvider |-> 31, Curve |-> 61]

Multiplex == {"UniswapV2", "SushiSwap", "LiquidityProvider", "UniswapV3"}

\* DEFAULT_EXCHANGE_GAS_OVERHEAD on the set of sources that the flags encode.
ExchangeOverhead(kinds) ==
  IF \E k \in DOMAIN VipGas : kinds = {k}
  THEN VipGas[CHOOSE k \in kinds : TRUE]
  ELSE IF kinds \subseteq Multiplex
       THEN 36
       ELSE IF "MultiHop" \in kinds /\ kinds \subseteq Multiplex \union {"MultiHop"}
            THEN 46
            ELSE 150

-----------------------------------------------------------------------------
(* Penalties *)

\* Big.js round(0, 0): a quotient cut toward zero, for d > 0.
Truncate(n, d) == IF n >= 0 THEN n \div d ELSE -((-n) \div d)

\* Gas makes a sale return less and a purchase cost more.
Penalised(m, output, penalty) ==
  IF m.side = "Sell" THEN output - penalty ELSE output + penalty

\* getTwoHopAdjustedRate of a two-hop quote q = [output, kinds].  The gas of its
\* hops is not counted (the schedule of MultiHop returns 0), nor is any gas
\* when the price of the output token is unknown.
TwoHopAdjustedRate(m, q) ==
  LET penalty == m.outPerEth * ExchangeOverhead({"MultiHop"} \union q.kinds)
      output  == Penalised(m, q.output, penalty)
  IN  IF q.output = 0
      THEN ZeroRate
      ELSE IF m.side = "Sell" THEN Rate(output, m.amount) ELSE Rate(m.amount, output)
=============================================================================
