---------------------------- MODULE MCPathSearch ----------------------------
(***************************************************************************)
(* Markets for TLC.  Every group quotes one of a few curves, and the fills *)
(* of the markets are computed from the curves by DexFills, with the real  *)
(* sample distribution and the real budgets of the search.                 *)
(***************************************************************************)
EXTENDS BestMixture, DexFills

\* A market made from the samples of the groups.
SampledMarket(side, amount, prices, kind, gas, curve, twoHops) ==
  LET base == [side |-> side, amount |-> amount, outPerEth |-> prices[1],
               inPerEth |-> prices[2], kind |-> kind, gas |-> gas,
               curve |-> curve]
  IN  [side |-> side, amount |-> amount, outPerEth |-> prices[1],
       inPerEth |-> prices[2], kind |-> kind, twoHops |-> twoHops,
       fills |-> SubSeq([id \in Groups |-> DexSamplesToFills(base, id)],
                        1, NumGroups)]

\* The samples of an order of 10 are 1, 2, 4, 7 and 10.
ShallowPool == <<150, 260, 400, 520, 600>>  \* best at first, moves fast
DeepPool    == <<100, 199, 390, 670, 930>>  \* the best for the whole amount
CappedPool  == <<130, 255, 480, 0, 0>>      \* reverts above 4
LatePool    == <<0, 0, 410, 690, 900>>      \* reverts below 4
DeadPool    == <<0, 0, 0, 0, 0>>
TinyPool    == <<90, 0, 0, 0, 0>>

Curves == {ShallowPool, DeepPool, CappedPool, LatePool, DeadPool, TinyPool}

SmallKinds == <<"UniswapV2", "Curve", "Balancer">>
SmallGas   == <<90, 130, 120>>

\* Two hops of a multiplex pair, and of any other pair.
TwoHopSets == {{}, {[output |-> 800, kinds |-> {"UniswapV2", "UniswapV3"}],
                    [output |-> 850, kinds |-> {"Curve"}]}}

SellMarkets ==
  {SampledMarket("Sell", 10, prices, SmallKinds, SmallGas, curve, hops) :
     prices \in {<<1, 0>>, <<0, 0>>, <<0, 1>>}, curve \in [Groups -> Curves],
     hops \in TwoHopSets}

\* A purchase quotes what must be sold: the same curves, dear at first.
BuyMarkets ==
  {SampledMarket("Buy", 10, <<1, 0>>, SmallKinds, SmallGas, curve, {}) :
     curve \in [Groups -> Curves]}

SmallMarkets == SellMarkets \union BuyMarkets

-----------------------------------------------------------------------------
(* A crowd of groups of which at most one fills the order alone: here the     *)
(* walks use up their budgets.                                                *)

CrowdKinds == <<"UniswapV2", "Curve", "UniswapV3", "UniswapV2", "UniswapV2">>
CrowdGas   == <<10, 10, 10, 10, 10>>

CheapPool == <<10, 20, 40, 65, 85>>
HighPool  == <<60, 0, 0, 0, 0>>
SmallPool == <<85, 92, 0, 0, 0>>

CrowdedMarkets ==
  {SampledMarket("Sell", 10, <<1, 0>>, CrowdKinds, CrowdGas, curve, {}) :
     curve \in [Groups -> {CheapPool, HighPool, SmallPool}]}

LonelyMarkets ==
  {m \in CrowdedMarkets :
     Cardinality({id \in Groups : IsComplete(m, SourcePath(m, id))}) <= 1}

\* TLC evaluates the definition a CONSTANT stands for at every use, but the
\* definitions in it only once.
CrowdMarkets == LonelyMarkets
=============================================================================
