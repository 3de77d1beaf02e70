# Verification of the swap node

The node answers `GET /swap/quote`: which exchanges should sell (or buy) an
amount of one token for another, at which price, and with which transaction.
One request runs through these parts:

```
 controller -> SwapService -> SamplerService ----------- one batched eth_call --> sampler contracts
                  |               |   (pools cache)                                 (Solidity loops)
                  |               v
                  |        fills of each source -> paths -> search of the route -> orders
                  v
             swap quote (best and worst case) -> SwapConsumerService -> calldata
```

The modules in this directory model that pipeline in TLA+. TLC checks them on
small instances, TLAPS proves the theorems of the `...Proofs` modules for all
instances. `PROJECT.json` lists the runs, the lines of code behind every
definition (`map`), the hazards, the disagreements found between code and
documentation (`findings`), and one mutant per property: a plausible bug that
the property catches.

## 1. Inventory

| Part | Code | State | Operations | What makes it correct |
|---|---|---|---|---|
| HTTP server, controllers | `src/src/index.ts`, `controllers/`, `middlewares/`, `schemas/` | none per request (the list of sources is shared and sorted in place) | one handler per route | every request is answered |
| Swap service | `services/swap-service.ts`, `utils/parse-*.ts` | none | parse, wrap / unwrap / swap | wraps are recognised, prices come from the quote |
| Sampler service | `services/sampler-service.ts` | decimals and sources of the chain | build the batch, fills, route, two-hop choice | a request its sources can serve is answered with the best route |
| Sampler batch | `utils/sampler-contract-wrapper.ts`, `contracts/ERC20BridgeSampler.sol`, `TwoHopSampler.sol` | results of one call | `batchCall`, decode, callbacks | each operation gets its own result |
| Sampling loops | `contracts/*Sampler.sol` | loop index, outputs | quote each amount, stop at failures | a quote kept is one the source serves |
| Source operations | `services/sampler-service.ts` (the two switches), `utils/sampler-contract-operation.ts`, `constants/liquidity-providers-opts.ts` | fill data of an operation | one call per router, pool, reserve or path; a callback | no pool is asked twice, what an order needs is there |
| Approximate buys | `contracts/ApproximateBuys.sol` | sell and buy amount | iterate a sell quote | the sell amount buys what was asked |
| Fills | `utils/sampler-utils.ts` | none | sample amounts, samples to fills | fills add up to the quotes |
| Paths | `utils/dex-path.ts` | fills, size, adjusted size | append, collapse, compare | size is clipped at the amount, parents precede children |
| Path search | `utils/dex-path-utils.ts` | best path, walk stack, steps | sort, reduce, mix, walk | never loses ground, ends within its budget |
| Fees | `utils/fees-utils.ts`, `constants/sampler-opts.ts` | none | rates, overhead, penalties | comparable rates |
| Orders and quote | `utils/dex-order-utils.ts`, `utils/swap-quote-utils.ts` | remaining input, totals | simulate best and worst case | the quote says what the route was chosen for |
| Swap consumer | `services/swap-consumer-service.ts`, `utils/swap-consumer-utils.ts` | transformer nonces | choose a contract feature, encode | the transaction does what the quote says |
| Pools cache | `utils/pools-cache.ts` | entry per pair, timers | get with timeout, fetch, reload | calls resolve, entries expire forward only |
| Tables | `constants/`, `utils/source-filter.ts` | constant | | |

**Interaction.** A request is sequential except for two awaits of the RPC node
and the micro-task yields of `findOptimalDexPathAsync`. Requests share only the
pools caches (and the tables). The caches are written by calls, by fetches that
outlive them, and by an interval timer, all awaiting an external subgraph.

**Hard behaviour.** The search is a recursive, backtracking walk cut by a budget
at any point. The quotes it works on have gaps (a source fails for some
amounts) and are truncated to integers. The last fill of a route is cut to the
order in several places, each with code of its own. Rates with and without gas,
with and without the overhead of the exchange, are compared with each other.
The cache has concurrent writers and a timeout race.

`PROJECT.json` `hazards` lists these one by one, at their lines.

## 2. Modules

| Module | Models | Kind |
|---|---|---|
| `Fees` | rates, gas overhead, penalties | operators |
| `DexFills` | sample amounts, samples to fills | operators |
| `FillChain` | what the fills of one source are to the search: `IsChain` | operators |
| `DexPath` | paths: append with clipping, comparison, validity, collapse | operators |
| `PathSearch` | `_generateOptimizedOrders`, `findOptimalDexPathAsync`, `mixPaths` | state machine |
| `Mixtures`, `BestMixture` | all mixtures of a sequence of fills, and the properties measured against them | reference |
| `MCPathSearch` | markets for TLC | instance |
| `FoldFacts` | folds over sequences, and sums over functions, for every operator | proofs |
| `PathSearchProofs` | the invariants of the search, collapsing a path to orders, the exhaustive walk | proofs |
| `SampledFills`, `MCSampledFills` | the sampling loops of the contracts, then the conversion to fills and a path | state machine |
| `SampledFillsProofs` | what a source answers is what its fills add up to; approximated purchases | proofs |
| `Quote`, `MCQuote` | `createSwapQuote` and `slipOrders`: the best and the worst case of a route | state machine |
| `QuoteProofs` | the two simulations fill exactly the amount; worst case, slippage | proofs |
| `RouteQuote`, `MCRouteQuote` | `PathSearch` and `Quote` composed: from the samples to the quote | composition |
| `RouteQuoteProofs` | every route of the search fits the quote | proofs |
| `PoolsCache`, `MCPoolsCache` | the pools cache, its callers, its loader, the clock | state machine |
| `PoolsCacheProofs` | inductive invariant of the cache | proofs |
| `ApproximateBuys` | the iteration that answers for purchases from sales; its actions are in `SampledFills` | operators |
| `BridgeSources` | the sources, their lists by chain and side, exclusions | operators |
| `SourceOperations` | the calls each source is asked with, for sales and purchases | operators |
| `BridgeData` | what an order of each source encodes, and the coders | operators |
| `SamplerWrapper` | `execute`: many operations in one call, results matched by an index | state machine |
| `SamplerBatch`, `MCSamplerBatch` | the requests of the sampler service for a market, decoded to its liquidity; extends `SamplerWrapper` | composition |
| `SwapConsumer` | `getTxCalldata`: the feature of the exchange proxy and its arguments | operators |
| `ExchangeProxy` | what the proxy does with a call (not in this repository) | external |
| `SamplerBatchProofs` | every operation gets its own answer; the service implements the wrapper; its prices keep their tokens and no pool sets them; its samples can become orders, its hops meet | proofs |
| `SwapService`, `MCSwap` | a request from its parameters to the settled transaction; extends `SwapConsumer` and `ExchangeProxy` | composition |
| `SwapServiceProofs` | value, price and refunds from the request to the settled transaction | proofs |

Operators named in a comment as *mutation of X* are never part of a
specification: they are the bugs of the `mutants`, kept next to the definition
they change so that a reader sees what each property is good for.

### PathSearch

A *market* is what the contracts returned: the side, the amount, the token
prices, and per sample group a chain of fills; it is chosen at the start. The
phases follow the code:

| Action | Code |
|---|---|
| `BuildPaths` | sort the source paths, drop those `reducePaths` drops, start with the first |
| `StartMix` | enter `mixPaths` with the next path and make the first call of `_walk` |
| `Walk` | the loop of the innermost call recurses into its next valid fill |
| `Return` | the innermost call ends |
| `EndMix` | `mixPaths` asserts validity and returns; the yield between mixes |
| `Choose` | compare with the best two-hop quote, collapse to orders |

`stack` is the recursion, one frame per call. A frame stores the positions of
the pool that remain and those already walked into. The code sorts the pool
once; here `Precedes` is that order, and `Walk` takes the first candidate.
`IsChain` says what `dexSamplesToFills` makes of samples: indices from 0, an
output above zero after any number of fills, and only the last fill may reach
the amount (samples end at the amount). The search assumes it of its markets
(`MarketsAssumption`), TLC checks it of the markets of the runs, and
`SourcesAreChains` proves it of whatever a source answers.
Rates are exact fractions, where the code divides to 20 decimal places; gas is
counted in units of 1000. `sort()` being stable, the number of a group breaks
ties. `spent` belongs to no code: it remembers that the budget of some mix ended,
and only `NoSourceBeatsRoute` reads it.

Fairness: `FairSpec` is weak fairness of `Next`. The search is synchronous
between yields, and Node's event loop resumes a resolved promise: nothing can
stop it half-way. It is written out with `phase # "done"` in the place of
`ENABLED`, which TLC evaluates very slowly over these definitions; the deadlock
check confirms that they agree.

### SampledFills

One source: a quote function chosen at the start (external; it never answers
less for more input, and may fail for any amount), one of the five kinds of
sampling loops, then `onSuccess` and `dexSamplesToFills` (`Convert`). When the
price of the output token is unknown (`outPerEth` is 0) the first fill divides by
`input.toNumber()`, which throws above `MaxSafe`; nothing catches it, and the
request has no fills of any source (`FailToConvert`). The kinds cover the
contracts: most break at the first zero or failure, Shell at failures only,
Balancer stops before a limit, Smoothy caps at its reserve, and pools that only
quote sales answer for purchases by `_sampleApproximateBuys`:

| Action | Code |
|---|---|
| `GuessFirst` | the amount wanted, quoted the other way round, is the first sale; without a quote all answers are zero |
| `Approximate` | one iteration: `Iterate` scales the sale by what is missing and quotes it |
| `SampleApproximated` | the goal is reached, a quote failed or five iterations are spent: the sale is scaled once more and stored |

An approximation that ends with a failed quote is stored like any other. A pool
that sells up to 5000 answers 10124 for a purchase of 2000 and its path counts
as complete. `ReachedGoalIsServed` is about the goals that are reached, and
nothing in the code marks the others. Scaling a sale down once more may also
take it below the least amount a pool quotes, which the property leaves open.

The five amounts of a purchase are approximated one after the other, each from
the result of the one before, and one that fails carries on from a guess that was
never confirmed, so where approximations fail a larger purchase may come out
cheaper than a smaller one. With the first guess of 9000 and a pool that quotes
only amounts from 5000 to 20000 the answers are 106, 58, 42, 40 and 52, and the
fills between the falling ones have a negative output. `TypeOK` therefore says
nothing of the sign of an output: that a larger amount answers no less is an
assumption about the exchanges, which the code does not make good either. That the
fills add up to the largest answer, and that any number of them buys something,
holds of all.

### Quote

The loops of `fillQuoteOrders` run twice over the orders of a route, once for
each case; `order` and `sub` are their indices.

| Action | Code |
|---|---|
| `Receive` | `createSwapQuote` gets a route; two hops are quoted at once (`calculateTwoHopQuoteInfo`) |
| `EnterOrder` | the next order and its gas |
| `FillSub` | solve for the input filled, count input, output and share of the source; or divide by zero and throw |
| `LeaveOrder` | the loop over the sub-fills ends or breaks |
| `FinishBest`, `FinishWorst` | `simulateBestCaseFill`, `simulateWorstCaseFill` with slippage and the gas of all orders |
| `SlipOrders` | the consumer recomputes the slippage and slips each order; or divides by zero |

What is exact here and not in the code: `1 - slippage` is a double, and the
slippage rate is recomputed with 20 decimals and made a double (`SwapConsumer`
models that; the properties of the quote say only which way an order is slipped,
which no rounding of a rate that is never below zero changes). Fees of orders and protocol fees
are zero in this version and left out. The gas of `MultiHop` is 0 in the
schedule. Two hops are never quoted to a purchase (the sampler gets no such
samples), so `MarketSide.Sell ? ...` of their worst case, always true, has no
effect.

`Quote` alone takes its routes from a constant, of which `IsRoute` is assumed:
orders of one group each whose sub-fills start a chain, together at least the
amount and without the last sub-fill less than it, with the output the search
compares (`IsOutputOfPath`: a cut fill counts in proportion). `RouteQuote`
instantiates `Quote` without any routes and lets a finished search hand over its
own. `HandsOverRoutes` is the assumption of `Quote` turned into a property of
the search, so nothing is assumed of the routes of the composition.

A fill may lower the output: a source may answer less for a larger amount, and
one of the curves of `quote` does. The quote then misses the route to the other
side, and `QuoteWithinLastFill` says that it misses it by the last fill at most,
in either direction.

### PoolsCache

`GetFresh` starts a call and its timer, `Deliver` ends its fetch (also after
the timeout), `TimeOut` lets the timer win, `LoadTopPools` writes all pairs a
reload mentions, `Tick` advances the clock and fires the interval. A list of
pools is its age (`asOf`) and its length. The unit of time is one timeout (1 s).
Nothing is assumed of the subgraph: a request may never be answered, and fair
are only the clock and the timers (Node fires them). The clock never steps
back. `getFreshPoolsForPairAsync` has no caller in this repository; it is the
public interface of the class. The Cream cache has no loader (`HasLoader`).

### SamplerWrapper and SamplerBatch

`execute` filters out the operations without call data (`Collect`), sends the
rest if there are any (`Send`, `BatchCall`, `Reject`), and walks over all of
them again (`Decode`), where an index of its own counts the results used. The
operation a result answers is a ghost: the code cannot see it.

`SamplerBatch` instantiates the list of operations: `Ask` builds what
`_getMarketSellLiquidity` or `_getMarketBuyLiquidity` builds, with the switches
of `SourceOperations` below it, `DecodeOperation` runs the callback of one
operation, `ReturnLiquidity` assembles the `MarketSideLiquidity`. What a call
returned is chosen when it is decoded. Outputs matter only for the median price;
of the other calls the model keeps the source, the tokens and which fields of
the fill data are set, before the call and by its callback. The
operation of two hops is the only one that can be without call data.

`SourceOperations` follows the switches arm by arm: on which chains a source is
configured, along which paths, or at which pools it is asked. Pools, registries
and neighbours of tokens are constants. Two arms show in the model as they are
in the code: bad tokens are looked up for sales only, and a token listed for
both ends of a pair is an intermediate token twice.

`BridgeData` sets the fields `createBridgeDataForBridgeOrder` encodes beside
the types of the source's coder and the fields the operations fill in;
`SamplesAreEncodable` says that the three agree for each sample that can come
out of a batch, on either hop. `Select` keeps the elements that pass a test, as
the filters of the code do; the provers know nothing of `SelectSeq`.

### SwapService, SwapConsumer, ExchangeProxy

| Action | Code |
|---|---|
| `Receive` | `_parseQuoteParams`, its checks in their order; wraps and unwraps are answered at once |
| `Optimize`, `NoLiquidity` | the optimizer returns a route, and a quote is made, or it throws |
| `Answer` | `getTxCalldata`, the prices and the value of the response |
| `SubmitWrap`, `SubmitDirect`, `SubmitTransform` | the taker sends the transaction (external) |
| `TransformWeth`, `TransformFill`, `TransformPay`, `Finish` | the transformers of the proxy, one by one (external) |

The quote is any that has what `Quote` shows of quotes: the whole amount, a
worst case slipped from the best, orders that share it. `RoutesFor` leaves out
the routes the optimizer never returns: none for an amount of zero, which has no
liquidity; no more orders than the amount has units, a fill being at least one;
two hops for sales only, along a token that is neither sold nor bought. What a source pays for
an order is chosen when it is filled, less than it asks for included, so that
slippage, partial fills, refunds and reverts all happen. `ExchangeProxy` is
what the node relies on in the contracts of the proxy and not a model of them.

Two roundings of the code decide whether a transaction settles and are modelled
with the constants that tell how fine they are.

* `slipOrders` recomputes the slippage from the two cases: a quotient to 20
  decimals, made a double, taken from one, and written in decimals again
  (`MaxQuoteSlippageRate`). The model rounds once, to the nearest 1/`Grain`, of which
  half bounds the three roundings of a sale together for a `Grain` of 2^51. The amount of an
  order is then cut once more: for a best case of 9 and a worst case of 8 the order
  asks for 7 while the proxy requires 8, so a source that pays what its order asks
  makes the transaction revert. `IsRoundedAway` bounds what may be missing: one
  unit, and half a grain of the best case.
* `_getSwapQuotePrice` divides amounts in whole units, to 20 decimals (one over
  `Precision`) and half-up, and rounds the product against the taker (`Price`). A
  sale of 1001 for at least 1000, both tokens with 18 decimals, gets the guaranteed
  price 999000999000999001, one more than the minimum gives. `GuaranteedPriceIsEnforced`
  allows for half of the last decimal of the quotient and for nothing more. `Units`
  holds the powers of ten of the decimals.

The decimals come with the samples, in a call that may fail alone
(`NoUnits`). The quote is then made and its calldata encoded, and the prices throw:
`Answer` fails, and `UnsettledHasCause` names this first.

Three things of this part look odd and are modelled as they are. The multiplex
features are never used: `getSighash` is asked for functions the ABI does not
have, so a quote for them is not answered (`UnsettledHasCause` names the case).
The fill sequence is a list in a list, so that of several orders one is filled
(run `unfilled`). A direct Mooniswap order takes the native side of its output
from that of its input, which is wrong as soon as one of them is native
(`MistakesOutput`): `GuaranteedPriceIsEnforced` and `NothingStaysBehind` leave these
orders out, and say nothing about that line of the code.

## 3. Runs

| Run | Question | Bounds |
|---|---|---|
| `search` | are paths valid and clipped, is each mix the best of its pool, does nothing get lost, does it end? | 3 groups, 6 curves (deep, shallow, capped, gap, dead, tiny), both sides, 3 price regimes, with and without two-hop quotes: all combinations |
| `crowd` | does it hold when the budget cuts walks? is an order that can be filled filled? | 5 groups, real budgets 256 and 32, at most one group that fills the order |
| `sampled_fills` | do the fills of a source say what it answered, and do approximated purchases buy what they say? | every quote function with outputs 0, 1, 3 or failure over 5 samples, 4 amounts, 4 loops, 3 limits, with and without a price of the output token, `MaxSafe` 5; 5 pools (cheap, dear, three that serve part of the range), a purchase of 2000, 4 first guesses |
| `quote` | is the amount filled exactly, in both cases, and is the quote that of the route up to its last fill? | every complete mixture of 3 groups (two of one exchange) with 4 curves for an amount of 10 and 2 for an amount of 4, where samples coincide; both sides, slippage 0 and 33.33 % |
| `request` | does the search hand over what the quote expects? | 2 groups, the 6 curves, both sides, two-hop quotes, slippage 0 and 1 % |
| `pools_cache` | do calls resolve with their own answers while others write? | 1 pair, 2 calls, entry life 2, timeout 1, reload every 3, clock 0..4 |
| `sampler` | does every operation decode its own answer, and can every sample become an order? | 12 pairs of a sale and a purchase that leave each a few sources, together all kinds of arms, on 4 chains; any operation may revert, one quote of a batch at most, outputs for a price 0..2 |
| `swap` | does the transaction keep what the response promises, and when does it not settle? | 3 chains, each end native or not, slippage none, 30 % and the default, one route for each feature of the proxy, 9 refused requests; an order is paid with nothing, with what it asks for or with one more; units 10 and 100 or unknown, quotients to 1/100, rates to 1/4 |

The sampling constants are the real ones (5 samples, weights 1.25^i, budgets
256 and 32). Three groups are the fewest with a mix that starts from a mixture;
five the fewest that exhaust the budget. Two calls are the fewest with answers
out of order; on the clock of 4 an entry expires and is reloaded. The pools
of `sampled_fills` make approximations end in all three ways: reached, failed
and spent. A median needs three outputs to differ from its neighbours, and the
chain with three sources for prices gives them. The amounts of `swap` are small
so that every division rounds, and its quotients and rates so coarse that rounding
shows: there are reverts for a rounded rate alone, in one order and in two hops,
and guaranteed prices of sales and of purchases that are missed by a part of the
last decimal.

Runs that find a violation show where the code departs from what it says:

| Run | Statement of the code | What happens |
|---|---|---|
| `two_hop` | check the best two-hop quote | without a single-source path the search throws before |
| `misquoted` | sub-fills give a better approximation of the fill size | the share of a cut fill is truncated to 0, the quote is below the route |
| `expired_pools` | fresh pools for a pair | a fresh entry is fetched again, an expired one is served |
| `unfilled` | this transformer will fill the quote | of several orders only the first is in the fill sequence, and the transaction reverts although every source pays |

`NoSourceBeatsRoute` is about searches of which no mix ends for its budget
(`spent`). Without that it is not true: where gas outweighs the order, four
groups exhaust the budget before the second path of a pair is reached, and the
route returns less than that source alone. `FillableIsFilled` says of the five
groups of `crowd` that the budget ends late enough; one descent through eight groups
of four or five fills takes more than the 32 calls of a later mix, and it fails.
Likewise a path that `reducePaths`
drops can be one the best mixture needs; no property says it cannot.

## 4. Proofs

The theorems hold for all values of the constants that meet their assumptions.
Each inductive invariant below was an invariant of a TLC run before it was
proved (`SearchInv` still is one of `crowd`).

**Folds.** The models add up, build paths, collapse and fill with `FoldLeft`,
and the prover can neither expand that (it is defined by recursion) nor use an
induction rule that takes an operator. `FoldFacts` avoids both: induction is
stated over a set (`NatSetInduction`: a set with 0 and all successors of its
members is all of `Nat`; `SeqInduction` for prefixes of a sequence), and the
operator of the fold is a CONSTANT operator of the module. `FoldAppend` is the
one step that all lemmas about a fold use. A module that proves something about
a fold instantiates `FoldFacts` with the fold's operator. `SumOfRaised` is the
same for sums over a function (the shares of the sources). No theorem is about a
RECURSIVE operator.

**The search** (`PathSearchProofs`), for any number of groups, any market and any
budgets. The inductive invariant has two halves.

* `SearchInv` is about positions. `IsValid` of the paths alone is not inductive.
  That a fill is not used twice follows from the pool holding each fill once and
  from a frame's path being drawn from positions that no longer remain
  (`FrameOK`); that the pool holds each fill once follows from the best path
  having no fill of a group still pending (`BestOK`, `PoolOK`). It gives
  `TypeCorrect` and `PathsAreValid`: the assertion `nooope` never fires.
* `MeasureInv` is about amounts: the size of a path is what its fills add up to,
  the last one cut to what the others leave (`Measured`), the calls are within
  the budget, and what is handed over is collapsed from a complete path
  (`OutcomeOK`). It gives `OnlyTheLastIsClipped` and `CallsWithinBudget`. The
  budget needs no sum over the frames: a call is counted before it is refused,
  and a loop goes on only below the limit.
* `MixInv`, in `BestMixture`, is about what is still to come: each frame may walk
  into every fill its path has not taken (`FrameIsFull`), and a mixture better
  than the best path has a frame that it extends and whose loop has not been into
  its next fill yet (`Unwalked`). A call passes that on to the frame it opens, and
  one that ends was complete, or has been into every fill that may follow. The
  budget is what the invariant is lost to, and only that. `MixIsExhaustive`
  follows: with no frame left there is no better mixture. The lemmas are about
  the order of rates (`RatesAreTransitive`, `BetterIsTransitive`: rates are
  fractions, and incomplete paths compare by input) and about mixtures, which
  `MixturesOf` makes in rounds (`MixturesAreMixtures`).
* `CollapseFacts`: what collapsing keeps, for sequences of any length.
  `SourcesAreCalledOnce` adds that a valid path never returns to a group.
* `RetainedPathNeverWorsens`, a step property: only a better path replaces the
  best one.

**The fills of a source** (`SampledFillsProofs`), for any number of samples, any
quote function, pool and amount. The weights of the samples are folds, and
`WeightsIncrease` shows that they do: no sample but the last reaches the amount
(`SampleAmountFacts`), so nothing is clipped and `CompleteIffQuoted` holds
although amounts are truncated. The samples that are kept are those answered, in
their order (`KeptFacts`); the first k fills then add up to the k-th of them
(`PrefixSums`), which gives `SourceSums` and `SourcesAreChains`, the assumption of
the search. `SampleInv` carries what was quoted, and that answers grow, through
the loops. `ReachedGoals` rests on two inequalities that use products of
variables and are proved step by step: a sale is rounded up (`ReportFacts`), and
on a pool of constant product the part of a sale buys at least that part of what
the whole buys (`ScaledSaleBuys`). The gas of the first fill is zero here; it
changes `adjusted` only, of which `IsChain` asks that it is an integer.

**The quote** (`QuoteProofs`), for any route. While something remains, only whole
sub-fills have been filled, so the totals are those of a prefix of the route
(`ProgressOK`); the sub-fill that is cut is the last one of all, and nothing
remains after it. `QuoteInv` carries this through both simulations, and makes
both results functions of the route (`BestInfo`, `WorstInfo`). From it follow
the whole amount, its shares by source, the distance from the route, the worst
case, and that only an empty fill divides by zero.

**Search and quote** (`RouteQuoteProofs`): `RoutesFitTheQuote` takes a collapsed
complete path apart into what `IsRoute` asks. The invariants of both components
are then carried side by side (`RequestInvariant`); `RequestedAmountIsQuoted` is
the property of the quote for every market.

**The pools cache** (`PoolsCacheProofs`): `CacheInv` adds to the types that no
time lies in the future and that a call not yet made has no fetch; from it follow
`OwnAnswers` and, as a step property, `ExpiryMonotone`: what a write stores
expires at `now + CacheTime`, and no entry can expire later than that.

**The sampler** (`SamplerBatchProofs`), for any list of operations. `OwnAnswers` alone is not inductive, it needs to know where the index
of the results stands. `SentInv` says that the operations sent are those with
call data, in increasing order; `RawInv` that the results before the index are
those of operations already decoded. The operation at hand, when it was sent, is
then the one at the index. `BatchImplementsWrapper` maps every step of the
sampler service to one of the wrapper or to none, so `OwnAnswers` carries over
(`RequestsGetOwnAnswers`). `PricesNeverSwapped` follows the two prices from their
place among the operations to the four prices of the liquidity; the inductive
part is that decoded results have the token of the operation at the same place
(`PricesDecoded`).

The upper median is defined by counting: at most half of the outputs above zero
are below it and more than half are not above it, which one of them always
satisfies (`MedianExists`, by the least number up to which there are enough). The
code sorts and takes the middle; TLC finds both to agree on all lists of up to
five outputs. `ReadInv` links the price decoded last to the outputs read for it, and
`NoPoolAlone` follows by counting once more.

The samples are proved from the bottom up. `Encodings` says which fields are
enough for the coder of each source. A call *suits* a pair when it goes from one
of its tokens to the other and, with what its callback adds, has these fields
(`Suits`); there is one lemma per group of arms (`RouterSuits`, `PoolSuits`,
`RegistrySuits`, `ConfigSuits`), and `OperationsSuit` joins them through
`FlattenSeq`: what is in a flattened list was in one of the lists
(`FoldFacts!FlattenFrom`). Whatever calls fail, the samples keep the pair and the
fields (`OutcomesSampled`), and the fold over the hops joins quotes whose hops
meet (`TwoHopsSampled`). `LiquidityInv` carries this through the states: each
result is what its operation may be decoded to. `SamplesEncode`, `HopsMeet` and
`LiquidityTypes` follow for every request, on every chain, for any tables of
pools, neighbours and bad tokens.

**The swap** (`SwapServiceProofs`), for any tokens, requests, routes and outputs.

* `SwapInv` says that the quote, the call and the response are for the request.
  The response takes its value from the worst case, the call from the larger of
  both; `SlippedIsNoLess` shows that a cost slipped and rounded up is never lower
  (`ValueIsRight`).
* `SlipsDown` and `SlipsUp` bound what the rounded rate of `slipOrders` does to one
  order: a sale asks for no more than in the best case and a purchase offers no less,
  and of the worst case of a sale no more is missing than `IsRoundedAway` allows.
* `ExecutionInv` says what the proxy holds at each step of the transaction.
  `UpToWrap`, `UpToFill` and `UpToUnwrap` count the transformations (there is a
  wrap or none, one fill or two, an unwrap or none), and between them the wallet
  has one token or two, whose amounts `ExecutingOK` gives by what was sold and
  bought so far. A sale that bought less than its minimum has a source that paid
  less than it should, or is one that was rounded away (`Stands`).
* `SettledOK` is what is left of that at the end: at most the worst case was
  sold, at least the worst case bought, and every token but those two is as it
  was. `NothingIsLeft` and `PriceIsKept` follow, the latter with the
  quotient rounded half-up, the price rounded against the taker and half of the last
  decimal between them (`PriceOfSale`, `PriceOfPurchase`).
* `FailuresHaveCause`: the part about reverts rests on `SlippedOrders`. A fill
  whose sequence names one order can reach its amount only if that order is all
  there is.

**Assumptions.** Each is named, beside its constant, and TLC evaluates it in every
run of the module: the chains of a market (`MarketsAssumption`); the batches hold
what the service builds, for addresses of tokens (`SamplerBatch!RequestsAssumption`);
the tables hold sequences and addresses (`TokensAssumption`, `PoolsAssumption`);
the names of the bridges fit their 16 bytes (`NamesAssumption`, a fact about
strings, which TLC computes and the provers cannot); rates and quotients are rounded
to some part of one, and no token has more decimals than a quotient
(`GrainAssumption`, `UnitsAssumption`); a slippage of at most one; two tokens of a request that are not the placeholder of the native
token in the proxy (`SwapService!RequestsAssumption`). The last is not checked by
the code: the placeholder has no liquidity. An order is paid with nothing, with
what it asks for or with one more (`Payments`); this is a choice of the model and
no assumption on a constant, so the theorems of the swap are about these
payments.

**Only model-checked:**

* liveness: `Terminates`, `EveryCallResolves`. The provers have no fairness.
* `NoSourceBeatsRoute`, of searches within their budgets: it needs `MixIsExhaustive`
  for every mix of a search at once, and that no dropped path is the best.
* `FillableIsFilled`, which is true of the groups of `crowd` and not of all numbers of
  groups (see the runs above), so that it is no theorem.
* `PoolsAskedOnce`: it needs the ids of cached pools to be distinct across the
  caches, which the code does not say, and each place of a flattened list to come
  from one place (`FlattenPlaces` is the first half).

## 5. Plan

What is left, in this order:

1. An abstract route choice that `PathSearch` implements: the best of the paths
   it has seen.
2. One composition of `SamplerBatch`, `RouteQuote` and `SwapService`, in which
   the quote of the last comes from the first two.

## 6. Not modelled

* The HTTP layer, the schemas and the container: stateless, one call of
  `getQuote` per request. `sources.controller.ts` sorts the list of sources all
  requests share in place; the rejection that ends the process is under `hazards`.
* `NativeOrderSampler`, `BalanceChecker`, `MultiBridge` in the filters: no code
  of the node reaches them.
* The byte layout of ABI encoding. The fields, their types and whether they are
  set are modelled (`BridgeData`).
* Addresses, pools and tokens of the tables: constants. The lists of sources by
  chain, and the chains of each source, are modelled.
* The contracts of the exchange proxy and the exchanges: external. The vendored
  libraries of the sampler contract.
* The breakdown of a quote by source and the rates in the native token of the
  response, which are only shown (that they throw without decimals, as the prices
  do, is in `Answer`).
