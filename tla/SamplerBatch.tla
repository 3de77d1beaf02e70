---------------------------- MODULE SamplerBatch ----------------------------
(***************************************************************************)
(* How the sampler service finds the liquidity for a request: it builds    *)
(* four or five operations (the decimals, two prices in the native token,  *)
(* the quotes of all sources and, for sales, the two-hop quotes), executes *)
(* them in one call, and decodes their results one after the other.        *)
(*                                                                         *)
(* What a call returned is decided when it is decoded, for nothing of it   *)
(* is seen before.  The outputs of the calls that price a token are small  *)
(* numbers; of the other calls only matters whether they returned.         *)
(***************************************************************************)
EXTENDS SourceOperations, BridgeData, SamplerWrapper, FiniteSetsExt

CONSTANTS
  Requests,    \* what may be asked: [chain, side, sell, buy, excluded]
  MaxOutput,   \* bound: the outputs of the calls for a price
  MaxReverts   \* bound: how many quotes of one batch revert

ASSUME MaxOutputAssumption == MaxOutput \in Nat

VARIABLES
  request,
  read,        \* the outputs just read for a price
  values,      \* the decoded results, one per operation
  liquidity    \* the MarketSideLiquidity

batchVars == <<operations, phase, at, sent, raw, rawIdx, results, request, read, values,
               liquidity>>

\* What one unit of the native token sells for, when it is that token itself.
FeeAmount == 1

NoRequest == [side |-> "none"]

NoLiquidity == [side |-> "none"]

BatchInit ==
  /\ WrapperInit
  /\ request = NoRequest /\ read = <<>> /\ values = <<>> /\ liquidity = NoLiquidity

-----------------------------------------------------------------------------
(* The operations of a request *)

DecimalsOperation(tokens) == [kind |-> "decimals", empty |-> FALSE, tokens |-> tokens]

RateOperation(chain, excluded, token) ==
  [kind |-> "rate", empty |-> FALSE, token |-> token,
   calls |-> SellQuoteOperations(chain, GetSources(Row(FeeSources, chain), excluded),
                                 Wrapped, token, <<>>)]

QuotesOperation(r) ==
  LET sources == QuoteSources(r.side, r.chain, r.excluded)
      via     == IntermediateTokens(r.sell, r.buy)
  IN  [kind  |-> "quotes", empty |-> FALSE,
       calls |-> IF r.side = "Sell"
                 THEN SellQuoteOperations(r.chain, sources, r.sell, r.buy, via)
                 ELSE BuyQuoteOperations(r.chain, sources, r.sell, r.buy, via)]

\* Mutation of Hops: both hops sell the same token.
HopsOfSameToken(r, sources) ==
  LET via == IntermediateTokens(r.sell, r.buy)
  IN  [i \in DOMAIN via |->
         [via    |-> via[i],
          first  |-> SellQuoteOperations(r.chain, sources, r.sell, via[i], <<>>),
          second |-> SellQuoteOperations(r.chain, sources, r.sell, r.buy, <<>>)]]

\* One operation per token in between, over the calls of its two hops.
Hops(r, sources) ==
  LET via == IntermediateTokens(r.sell, r.buy)
  IN  [i \in DOMAIN via |->
         [via    |-> via[i],
          first  |-> SellQuoteOperations(r.chain, sources, r.sell, via[i], <<>>),
          second |-> SellQuoteOperations(r.chain, sources, via[i], r.buy, <<>>)]]

\* Two hops are asked for only when MultiHop is among the sources, and another one.
TwoHopOperation(r) ==
  LET all     == QuoteSources("Sell", r.chain, r.excluded)
      sources == IF Contains(all, "MultiHop") THEN GetSources(all, {"MultiHop"}) ELSE <<>>
  IN  [kind |-> "twoHop", empty |-> sources = <<>>, hops |-> Hops(r, sources)]

\* Mutation of BatchOf: the prices of a purchase come in the order of a sale.
BatchAsSale(r) ==
  LET price(token) == RateOperation(r.chain, r.excluded, token)
  IN  IF r.side = "Sell"
      THEN <<DecimalsOperation(<<r.buy, r.sell>>), price(r.buy), price(r.sell),
             QuotesOperation(r), TwoHopOperation(r)>>
      ELSE <<DecimalsOperation(<<r.buy, r.sell>>), price(r.buy), price(r.sell),
             QuotesOperation(r)>>

\* _getMarketSellLiquidity and _getMarketBuyLiquidity: the price of the output token
\* comes first, which is the one bought in a sale and the one sold in a purchase.
BatchOf(r) ==
  LET price(token) == RateOperation(r.chain, r.excluded, token)
  IN  IF r.side = "Sell"
      THEN <<DecimalsOperation(<<r.buy, r.sell>>), price(r.buy), price(r.sell),
             QuotesOperation(r), TwoHopOperation(r)>>
      ELSE <<DecimalsOperation(<<r.buy, r.sell>>), price(r.sell), price(r.buy),
             QuotesOperation(r)>>

\* The wrapper executes what the service builds, for the addresses of two tokens.
ASSUME RequestsAssumption ==
  \A r \in Requests :
    /\ BatchOf(r) \in Batches /\ r.side \in {"Sell", "Buy"}
    /\ {r.sell, r.buy} \subseteq Tokens

-----------------------------------------------------------------------------
(* Decoding *)

\* The calls for a price that would buy something.
Positive(outputs) == {i \in DOMAIN outputs : outputs[i] > 0}

\* Mutation of Median: the largest output wins.
Largest(outputs) ==
  LET positive == Positive(outputs)
  IN  IF positive = {} THEN 0
      ELSE outputs[CHOOSE m \in positive : \A i \in positive : outputs[i] <= outputs[m]]

\* The upper median of the outputs above zero, or zero: of these at most half are below
\* it, and more than half are not above it.
Median(outputs) ==
  LET positive  == Positive(outputs)
      half      == Cardinality(positive) \div 2
      below(n)  == {i \in positive : outputs[i] < n}
      atMost(n) == {i \in positive : outputs[i] <= n}
  IN  IF positive = {} THEN 0
      ELSE outputs[CHOOSE m \in positive :
                     /\ Cardinality(below(outputs[m])) <= half
                     /\ half < Cardinality(atMost(outputs[m]))]

RateOf(op, outputs) == IF op.token = Wrapped THEN FeeAmount ELSE Median(outputs)

\* What the calls for a price may return; one that reverts counts as zero.
PriceOutputs(op) == [DOMAIN op.calls -> 0..MaxOutput]

\* Mutation of Sample: the callback is not run.
SampleWithoutCallback(call, reserve) ==
  [source |-> call.source, tokens |-> call.tokens, fields |-> call.fields,
   reserve |-> reserve]

\* A call that returned: its callback added to the fill data what the call told.
Sample(call, reserve) ==
  [source |-> call.source, tokens |-> call.tokens,
   fields |-> call.fields \union call.decoded, reserve |-> reserve]

\* Kyber tells which reserve it would use; some must not be used.
Reserves(call) ==
  {"allowed"} \union (IF call.source = "Kyber" THEN {"banned"} ELSE {})

\* Mutation of QuoteOutcomes: a call that failed leaves a hole among the samples.
OutcomesWithHoles(calls) ==
  LET hole == [source |-> "none", tokens |-> <<>>, fields |-> {}, reserve |-> "allowed"]
      samples(lost) == [i \in DOMAIN calls |->
                          IF i \in lost THEN hole ELSE Sample(calls[i], "allowed")]
  IN  {samples(lost) : lost \in SUBSET DOMAIN calls}

\* The samples of a batch of quotes: a few calls revert or, by the check of
\* isAllowedKyberReserveId in the callback, have no samples.
QuoteOutcomes(calls) ==
  LET samples(lost) ==
        FlattenSeq([i \in DOMAIN calls |->
                      IF i \in lost THEN <<>> ELSE <<Sample(calls[i], "allowed")>>])
      few == {n \in 0..MaxReverts : n <= Len(calls)}
  IN  {samples(lost) : lost \in UNION {kSubset(n, DOMAIN calls) : n \in few}}

\* Of each hop the contract chooses one call, or it finds nothing to buy.  The
\* callback runs those of the two calls only for what they add to the fill data:
\* that one of them refused its reserve is lost.
TwoHopSamples(hop) ==
  {<<>>} \union
  UNION {{<<[via |-> hop.via, first |-> Sample(hop.first[i], r1),
             second |-> Sample(hop.second[j], r2)]>> :
            r1 \in Reserves(hop.first[i]), r2 \in Reserves(hop.second[j])} :
         i \in DOMAIN hop.first, j \in DOMAIN hop.second}

\* The quotes so far with those along one more token.
AddHop(quotes, hop) == {q \o new : q \in quotes, new \in TwoHopSamples(hop)}

\* The two-hop quotes of all tokens in between, hop by hop.
TwoHopOutcomes(hops) == FoldLeft(AddHop, {<<>>}, hops)

\* What an operation may be decoded to, with the outputs that were read for it.
Decodings(op, success) ==
  CASE op.kind = "decimals" -> {[read |-> <<>>, value |-> success]}
    [] op.kind = "rate" ->
         IF success
         THEN {[read |-> outputs, value |-> [token |-> op.token, rate |-> RateOf(op, outputs)]] :
                 outputs \in PriceOutputs(op)}
         ELSE {[read |-> <<>>, value |-> [token |-> op.token, rate |-> 0]]}
    [] op.kind = "quotes" /\ success ->
         {[read |-> <<>>, value |-> samples] : samples \in QuoteOutcomes(op.calls)}
    [] op.kind = "twoHop" /\ success /\ ~op.empty ->
         {[read |-> <<>>, value |-> quotes] : quotes \in TwoHopOutcomes(op.hops)}
    [] OTHER -> {[read |-> <<>>, value |-> <<>>]}

-----------------------------------------------------------------------------
(* Actions *)

serviceVars == <<request, read, values, liquidity>>

\* getOptimizerResult builds the operations of the request and executes them.
Ask(r) ==
  /\ request' = r
  /\ Execute(BatchOf(r))
  /\ UNCHANGED <<read, values, liquidity>>

\* The next operation decodes the result it is given.
DecodeOperation ==
  /\ Decode
  /\ \E d \in Decodings(operations[at], Answer.result.success) :
       values' = Append(values, d.value) /\ read' = d.read
  /\ UNCHANGED <<request, liquidity>>

\* The liquidity of both sides, with the prices of _generateOptimizedOrders.
LiquidityOf(r, v) ==
  [side |-> r.side,
   input  |-> IF r.side = "Sell" THEN r.sell ELSE r.buy,
   output |-> IF r.side = "Sell" THEN r.buy ELSE r.sell,
   outputPerEth |-> v[2], inputPerEth |-> v[3],
   sellPerEth |-> IF r.side = "Sell" THEN v[3] ELSE v[2],
   buyPerEth  |-> IF r.side = "Sell" THEN v[2] ELSE v[3],
   samples |-> v[4],
   twoHops |-> IF r.side = "Sell" THEN v[5] ELSE <<>>]

\* Without the decimals (their call reverted) the price of the quote is not a number.
ReturnLiquidity ==
  /\ Return
  /\ liquidity' = LiquidityOf(request, values)
  /\ read' = <<>> /\ values' = <<>>
  /\ UNCHANGED request

BatchDone == phase \in {"done", "failed"} /\ UNCHANGED batchVars

BatchNext ==
  \/ \E r \in Requests : Ask(r)
  \/ Collect /\ UNCHANGED serviceVars
  \/ Send /\ UNCHANGED serviceVars
  \/ BatchCall /\ UNCHANGED serviceVars
  \/ Reject /\ UNCHANGED serviceVars
  \/ DecodeOperation \/ ReturnLiquidity \/ BatchDone

BatchSpec == BatchInit /\ [][BatchNext]_batchVars

-----------------------------------------------------------------------------
(* Properties *)

IsSample(x) ==
  /\ x.source \in BridgeSource /\ x.reserve \in {"allowed", "banned"}
  /\ x.tokens \in Seq(Tokens) /\ Len(x.tokens) \in {2, 3}

\* The variables hold what their declarations say.
SamplerTypeOK ==
  /\ phase \in {"idle", "collect", "sent", "decode", "done", "failed"}
  /\ at \in 1..(Len(operations) + 1) /\ rawIdx \in 1..(Len(raw) + 1)
  /\ Len(sent) <= Len(operations)
  /\ phase # "done" => Len(results) = Len(values)
  /\ request \in Requests \union {NoRequest}
  /\ phase = "done" =>
       /\ liquidity.samples \in Seq({x \in Range(liquidity.samples) : IsSample(x)})
       /\ \A i \in DOMAIN liquidity.twoHops :
            IsSample(liquidity.twoHops[i].first) /\ IsSample(liquidity.twoHops[i].second)

\* All samples the search will see, those of the hops included.
AllSamples ==
  Range(liquidity.samples) \union
  UNION {{liquidity.twoHops[i].first, liquidity.twoHops[i].second} :
         i \in DOMAIN liquidity.twoHops}

\* Whatever source a route takes, hop by hop, the order made of its sample can be
\* encoded: what the operation did not know when it was built, its callback added,
\* and the coder of the source takes the fields in this order.
SamplesAreEncodable ==
  phase = "done" => \A x \in AllSamples : Encodes(x.source, x.fields)

\* The two hops of a quote meet in the token in between, and the second buys what
\* the request wants.
HopsConnect ==
  phase = "done" =>
    \A i \in DOMAIN liquidity.twoHops :
      LET q == liquidity.twoHops[i]
      IN  /\ Head(q.first.tokens) \in {request.sell, Native(request.sell)}
          /\ Last(q.first.tokens) \in {q.via, Native(q.via)}
          /\ Head(q.second.tokens) \in {q.via, Native(q.via)}
          /\ Last(q.second.tokens) \in {request.buy, Native(request.buy)}
          /\ q.via \notin {request.sell, request.buy}

\* Each price is that of its token: the operations come in another order for sales
\* and for purchases, and their results change sides once more on the way.
PricesOfTheirTokens ==
  phase = "done" =>
    /\ liquidity.outputPerEth.token = liquidity.output
    /\ liquidity.inputPerEth.token = liquidity.input
    /\ liquidity.sellPerEth.token = request.sell
    /\ liquidity.buyPerEth.token = request.buy

\* With three outputs for a price, no single pool decides it: whichever one of them
\* is left out, the price lies between the others.
NoPoolSetsThePrice ==
  LET priced == Len(values) \in 2..3 /\ operations[Len(values)].token # Wrapped
      positive == Positive(read)
  IN  priced /\ Cardinality(positive) >= 3 =>
        \A i \in positive :
          /\ \E j \in positive \ {i} : read[j] <= values[Len(values)].rate
          /\ \E j \in positive \ {i} : read[j] >= values[Len(values)].rate

\* The tokens that are listed twice for a pair: as neighbours of both, or of one of
\* them and for all pairs.
ListedTwice(sell, buy) ==
  LET lists == <<Row(Neighbours, buy), Row(Neighbours, sell), Intermediates>>
  IN  {t \in UNION {Range(l) : l \in Range(lists)} :
         Cardinality({k \in DOMAIN lists : Contains(lists[k], t)}) > 1}

\* The same pool is not asked twice in a batch, for the search would take the answers
\* for those of two pools.  It happens only along a token that is listed twice for
\* the pair.
PoolsAskedOnce ==
  \A n \in DOMAIN operations :
    operations[n].kind = "quotes" =>
      LET calls == operations[n].calls
          same(a, b) == <<a.method, a.at, a.tokens>> = <<b.method, b.at, b.tokens>>
      IN  \A i, j \in DOMAIN calls :
            i # j /\ same(calls[i], calls[j]) =>
              Len(calls[i].tokens) = 3
              /\ calls[i].tokens[2] \in ListedTwice(request.sell, request.buy)
=============================================================================
