----------------------------- MODULE SwapService -----------------------------
(***************************************************************************)
(* A request from its parameters to the transaction that settles it: the   *)
(* checks of the parameters, wrap, unwrap or swap, the quote, the call of  *)
(* the exchange proxy, the response, and what becomes of the transaction   *)
(* when the taker sends what the response says.                            *)
(*                                                                         *)
(* The quote is any that keeps what module Quote promises: it is for the   *)
(* whole amount, its worst case is the best case slipped, and its orders   *)
(* share it between them.                                                  *)
(***************************************************************************)
EXTENDS ExchangeProxy

CONSTANTS
  Requests,   \* the parameters that may be sent
  Shapes,     \* [chain -> the sources a route may take, and whether as two hops]
  Outputs,    \* bound: what the whole amount buys, or costs
  Units,      \* what a token's unit may be in its smallest units (a power of ten)
  Precision,  \* what a quotient of Big.js is rounded to: one over this (10^20)
  Between,    \* a token two hops may meet in
  Tokens

ASSUME TokensAssumption ==
  /\ {Between, Wrapped, ETH_NATIVE_ADDRESS} \subseteq Tokens
  /\ ETH_NATIVE_ADDRESS \notin {Between, Wrapped}

\* A route has a source, and one for each of two hops.  What it is sampled from can be
\* encoded, which module SamplerBatch is about.
ASSUME ShapesAssumption ==
  /\ Outputs \subseteq 1..(MAX_UINT256 - 1)
  /\ \A chain \in DOMAIN Shapes : \A shape \in Shapes[chain] :
       /\ shape.isTwoHop \in BOOLEAN /\ shape.sources \in Seq(Bridged)
       /\ Len(shape.sources) # 0 /\ (shape.isTwoHop => Len(shape.sources) = 2)

\* No token has more decimals than a quotient.
ASSUME UnitsAssumption ==
  /\ Units \subseteq Nat \ {0} /\ Precision \in Nat \ {0}
  /\ \A unit \in Units : Precision % unit = 0

VARIABLES
  phase,      \* "idle", "refused", "sampling", "quoted", "failed", "answered",
              \* "executing", "settled" or "reverted"
  request,    \* the SwapQuoteParsedParams
  quote,
  calldata,
  response,
  step,       \* the transformation that runs next
  wallet,     \* of the proxy: [token -> amount]
  taker,      \* what the taker gained or, below zero, gave
  short       \* whether a source paid less than the quote allows

swapVars == <<phase, request, quote, calldata, response, step, wallet, taker, short>>

Nothing == [t \in Tokens |-> 0]

NoQuote == [orders |-> <<>>]

NoResponse == [value |-> 0]

SwapInit ==
  /\ phase = "idle" /\ request = [side |-> "none"] /\ quote = NoQuote
  /\ calldata = NoCall /\ response = NoResponse
  /\ step = 1 /\ wallet = Nothing /\ taker = Nothing /\ short = FALSE

-----------------------------------------------------------------------------
(* The parameters *)

NULL_ADDRESS == "0x0"

BadAddress == "(no address)"

BadAmount == -1

\* No token has the null address.  No request sells by the address that stands for the
\* native token in the proxy, or sells the native token for it.
ASSUME RequestsAssumption ==
  /\ NULL_ADDRESS \notin Tokens
  /\ \A p \in Requests :
       /\ p.side \in {"Sell", "Buy"} /\ p.slippage \in Int /\ p.chain \in DOMAIN Shapes
       /\ p.amount \in Nat \union {BadAmount} /\ p.amount < MAX_UINT256
       /\ {p.sellToken, p.buyToken} \subseteq Tokens \union {"NATIVE", BadAddress, NULL_ADDRESS}
       /\ p.sellToken # ETH_NATIVE_ADDRESS
       /\ p.sellToken = "NATIVE" => p.buyToken # ETH_NATIVE_ADDRESS

\* One, in the units of the slippage.  A request without it has NoSlippage.
Whole == 100

NoSlippage == -1

DefaultSlippage == 1

TokenOf(t) == IF t = "NATIVE" THEN Wrapped ELSE t

IsWrap(p) == p.sellToken = "NATIVE" /\ TokenOf(p.buyToken) = Wrapped

IsUnwrap(p) == p.buyToken = "NATIVE" /\ TokenOf(p.sellToken) = Wrapped

SlippageOf(p) == IF p.slippage = NoSlippage THEN DefaultSlippage ELSE p.slippage

\* Mutation of SlippageIsBad: a slippage above one is accepted.
SlippageIsNegative(p) == SlippageOf(p) < 0

SlippageIsBad(p) == SlippageOf(p) \notin 0..Whole

\* The checks, in their order, with the field the first that fails is reported for.
Checks(p) ==
  <<[fails |-> p.sellToken = BadAddress, field |-> "sellToken"],
    [fails |-> p.buyToken = BadAddress, field |-> "buyToken"],
    [fails |-> p.amount = BadAmount, field |-> "amount"],
    [fails |-> p.taker = BadAddress, field |-> "takerAddress"],
    [fails |-> ParseExcluded(p.excluded, p.chain).refused, field |-> "excludedSources"],
    [fails |-> ~IsWrap(p) /\ ~IsUnwrap(p) /\ TokenOf(p.sellToken) = TokenOf(p.buyToken),
     field |-> "same"],
    [fails |-> NULL_ADDRESS \in {p.sellToken, p.buyToken}, field |-> "null"],
    [fails |-> p.taker = NULL_ADDRESS, field |-> "takerAddress"],
    [fails |-> SlippageIsBad(p), field |-> "slippagePercentage"]>>

IsRefused(p) == \E i \in DOMAIN Checks(p) : Checks(p)[i].fails

Parsed(p) ==
  [chain |-> p.chain, side |-> p.side, amount |-> p.amount,
   sell |-> TokenOf(p.sellToken), buy |-> TokenOf(p.buyToken),
   native |-> [sell |-> p.sellToken = "NATIVE", buy |-> p.buyToken = "NATIVE"],
   slippage |-> SlippageOf(p), excluded |-> ParseExcluded(p.excluded, p.chain).sources]

\* Wrapping and unwrapping need no quote.
WrapResponse(p) ==
  [to |-> "weth", value |-> IF IsWrap(p) THEN p.amount ELSE 0,
   input |-> IF IsWrap(p) THEN ETH_NATIVE_ADDRESS ELSE Wrapped,
   output |-> IF IsWrap(p) THEN Wrapped ELSE ETH_NATIVE_ADDRESS,
   amount |-> p.amount]

-----------------------------------------------------------------------------
(* The quote *)

\* An amount in n parts, of which the last takes what is left.
Part(amount, i, n) == IF i < n THEN amount \div n ELSE amount - (n - 1) * (amount \div n)

\* The orders of a path share the amounts; the first of two hops buys nothing and the
\* second sells everything.
OrdersOf(r, shape, sells, buys) ==
  LET n == Len(shape.sources)
  IN  IF shape.isTwoHop
      THEN <<[source |-> shape.sources[1], path |-> <<r.sell, Between>>,
              sells |-> sells, buys |-> 0],
             [source |-> shape.sources[2], path |-> <<Between, r.buy>>,
              sells |-> MAX_UINT256, buys |-> buys]>>
      ELSE [i \in 1..n |->
              [source |-> shape.sources[i], path |-> <<r.sell, r.buy>>,
               sells |-> Part(sells, i, n), buys |-> Part(buys, i, n)]]

\* What is known of the two tokens' decimals.  One call asks for both; when it fails
\* there are none.
NoUnits == [sell |-> 0, buy |-> 0]

KnownUnits == [sell : Units, buy : Units]

\* The quote for a route that buys, or costs, an output.
QuoteOf(r, shape, output, units) ==
  LET sells == IF r.side = "Sell" THEN r.amount ELSE output
      buys  == IF r.side = "Sell" THEN output ELSE r.amount
  IN  [side |-> r.side, sell |-> r.sell, buy |-> r.buy, amount |-> r.amount,
       units |-> units, isTwoHop |-> shape.isTwoHop, orders |-> OrdersOf(r, shape, sells, buys),
       best  |-> [sells |-> sells, buys |-> buys, fee |-> 0],
       worst |-> IF r.side = "Sell"
                 THEN [sells |-> sells, buys |-> (buys * (Whole - r.slippage)) \div Whole, fee |-> 0]
                 ELSE [sells |-> CeilDiv(sells * (Whole + r.slippage), Whole), buys |-> buys, fee |-> 0]]

\* Two hops are found for sales only, along a token that is neither sold nor bought.
\* The orders of a path have a share of the amount each, and no source is excluded.
RoutesFor(r) ==
  {shape \in Shapes[r.chain] :
     /\ r.amount > 0
     /\ IF shape.isTwoHop
        THEN r.side = "Sell" /\ Between \notin {r.sell, r.buy}
        ELSE Len(shape.sources) <= r.amount
     /\ Range(shape.sources) \intersect r.excluded = {}}

-----------------------------------------------------------------------------
(* The response *)

\* Mutation of Price: the price of a purchase is rounded down too.
PriceRoundedDown(side, info, units) ==
  IF side = "Sell"
  THEN (HalfUp(info.buys * units.sell * Precision, info.sells * units.buy) * units.buy)
         \div Precision
  ELSE (HalfUp(info.sells * units.buy * Precision, info.buys * units.sell) * units.sell)
         \div Precision

\* The price of a case for a whole unit of the other token: a quotient of two amounts in
\* units, rounded to its last decimal, and then against the taker to smallest units.
Price(side, info, units) ==
  IF side = "Sell"
  THEN (HalfUp(info.buys * units.sell * Precision, info.sells * units.buy) * units.buy)
         \div Precision
  ELSE CeilDiv(HalfUp(info.sells * units.buy * Precision, info.buys * units.sell) * units.sell,
               Precision)

SwapResponse(r, q, call) ==
  [to |-> "exchangeProxy",
   value |-> q.worst.fee + (IF r.native.sell THEN q.worst.sells ELSE 0),
   price |-> Price(q.side, q.best, q.units),
   guaranteedPrice |-> Price(q.side, q.worst, q.units),
   input |-> InputToken(q, r.native), output |-> OutputToken(q, r.native)]

-----------------------------------------------------------------------------
(* Actions *)

executionVars == <<step, wallet, taker, short>>

Receive(p) ==
  /\ phase = "idle"
  /\ IF IsRefused(p)
     THEN phase' = "refused" /\ UNCHANGED <<request, response>>
     ELSE /\ request' = Parsed(p)
          /\ IF IsWrap(p) \/ IsUnwrap(p)
             THEN phase' = "answered" /\ response' = WrapResponse(p)
             ELSE phase' = "sampling" /\ UNCHANGED response
  /\ UNCHANGED <<quote, calldata>> /\ UNCHANGED executionVars

\* The optimizer finds a route, and a quote is made of it.
Optimize ==
  /\ phase = "sampling"
  /\ \E shape \in RoutesFor(request), output \in Outputs,
        units \in KnownUnits \union {NoUnits} :
       quote' = QuoteOf(request, shape, output, units)
  /\ phase' = "quoted"
  /\ UNCHANGED <<request, calldata, response>> /\ UNCHANGED executionVars

\* There is no route, or the sampler contract does not answer.
NoLiquidity ==
  /\ phase = "sampling"
  /\ phase' = "failed"
  /\ UNCHANGED <<request, quote, calldata, response>> /\ UNCHANGED executionVars

\* The call is encoded and the response written.  The call is lost when the prices
\* throw, for want of the decimals.
Answer ==
  /\ phase = "quoted"
  /\ calldata' = IF quote.units = NoUnits
                 THEN Throws
                 ELSE TxCalldata(request.chain, quote, request.native)
  /\ IF calldata' = Throws
     THEN phase' = "failed" /\ UNCHANGED response
     ELSE phase' = "answered" /\ response' = SwapResponse(request, quote, calldata')
  /\ UNCHANGED <<request, quote>> /\ UNCHANGED executionVars

\* The taker sends the transaction of a wrap or an unwrap.
SubmitWrap ==
  /\ phase = "answered" /\ response.to = "weth"
  /\ taker' = [taker EXCEPT ![response.input] = @ - response.amount,
                            ![response.output] = @ + response.amount]
  /\ phase' = "settled"
  /\ UNCHANGED <<request, quote, calldata, response, step, wallet, short>>

\* What the proxy takes from the taker; native tokens only as the value says.
Taken == IF calldata.input = ETH_NATIVE_ADDRESS THEN response.value ELSE calldata.sells

\* A direct feature, or multiplex, in one step: it pays at least the minimum, or reverts.
SubmitDirect ==
  /\ phase = "answered" /\ response.to = "exchangeProxy"
  /\ calldata.feature # "transformERC20"
  /\ \/ /\ \E paid \in {calldata.minBuy, calldata.minBuy + 1} :
             taker' = [taker EXCEPT ![calldata.input] = @ - Taken, ![calldata.output] = @ + paid]
        /\ Taken >= calldata.sells
        /\ phase' = "settled" /\ UNCHANGED short
     \/ /\ phase' = "reverted"
        /\ short' = (Taken >= calldata.sells)
        /\ UNCHANGED taker
  /\ UNCHANGED <<request, quote, calldata, response, step, wallet>>

SubmitTransform ==
  /\ phase = "answered" /\ response.to = "exchangeProxy"
  /\ calldata.feature = "transformERC20"
  /\ taker' = [taker EXCEPT ![calldata.input] = @ - Taken]
  /\ wallet' = [wallet EXCEPT ![calldata.input] = @ + Taken]
  /\ phase' = "executing"
  /\ UNCHANGED <<request, quote, calldata, response, step, short>>

CurrentTransform == calldata.transforms[step]

Executing(kind) ==
  /\ phase = "executing" /\ step <= Len(calldata.transforms)
  /\ CurrentTransform.kind = kind
  /\ step' = step + 1
  /\ UNCHANGED <<request, quote, calldata, response>>

TransformWeth ==
  /\ Executing("weth")
  /\ wallet' = Converted(CurrentTransform, wallet)
  /\ UNCHANGED <<phase, taker, short>>

TransformFill ==
  /\ Executing("fill")
  /\ \E fill \in Fills(CurrentTransform, wallet) :
       /\ short' = (short \/ fill.short)
       /\ IF IsFilled(CurrentTransform, wallet, fill)
          THEN /\ wallet' = [wallet EXCEPT ![CurrentTransform.sell] = @ - fill.sold,
                                           ![CurrentTransform.buy] = @ + fill.bought]
               /\ UNCHANGED phase
          ELSE phase' = "reverted" /\ UNCHANGED wallet
  /\ UNCHANGED taker

TransformPay ==
  /\ Executing("pay")
  /\ wallet' = [t \in Tokens |-> IF t \in CurrentTransform.tokens THEN 0 ELSE wallet[t]]
  /\ taker' = [t \in Tokens |->
                 IF t \in CurrentTransform.tokens THEN taker[t] + wallet[t] ELSE taker[t]]
  /\ UNCHANGED <<phase, short>>

\* The proxy compares what the taker got with the minimum.
Finish ==
  /\ phase = "executing" /\ step > Len(calldata.transforms)
  /\ phase' = IF taker[calldata.output] >= calldata.minBuy THEN "settled" ELSE "reverted"
  /\ UNCHANGED <<request, quote, calldata, response>> /\ UNCHANGED executionVars

SwapDone ==
  /\ phase \in {"refused", "failed", "settled", "reverted"}
  /\ UNCHANGED swapVars

SwapNext ==
  \/ \E p \in Requests : Receive(p)
  \/ Optimize \/ NoLiquidity \/ Answer
  \/ SubmitWrap \/ SubmitDirect \/ SubmitTransform
  \/ TransformWeth \/ TransformFill \/ TransformPay \/ Finish \/ SwapDone

SwapSpec == SwapInit /\ [][SwapNext]_swapVars

-----------------------------------------------------------------------------
(* Properties *)

IsSwap == calldata.feature \notin {"none", "throws"}

\* The variables hold what their declarations say; in particular no quote is asked for
\* a token against itself.
SwapTypeOK ==
  /\ phase \in {"idle", "refused", "sampling", "quoted", "failed", "answered",
                "executing", "settled", "reverted"}
  /\ wallet \in [Tokens -> Nat] /\ taker \in [Tokens -> Int]
  /\ short \in BOOLEAN /\ step \in Nat \ {0}
  /\ phase \in {"sampling", "quoted"} =>
       /\ request.sell # request.buy /\ NULL_ADDRESS \notin {request.sell, request.buy}
       /\ request.slippage \in 0..Whole

\* The value of the response, which the service takes from the worst case, is the one
\* of the call, which the consumer takes from the larger of the two cases: all the call
\* wraps or sells of the native token, and nothing when the taker sells another one.
ValueCoversCalldata ==
  IsSwap /\ phase # "quoted" =>
    /\ response.value = calldata.value
    /\ calldata.value = IF calldata.input = ETH_NATIVE_ADDRESS THEN calldata.sells ELSE 0

\* What the taker spent, less what came back of it, also as the wrapped token.
Spent == -(taker[calldata.input] + (IF request.native.sell THEN taker[Wrapped] ELSE 0))

\* Mooniswap takes the native side of what it buys from that of what it sells, which is
\* wrong as soon as one of them is native.
MistakesOutput ==
  /\ calldata.feature = "sellToLiquidityProvider" /\ quote.orders[1].source = "Mooniswap"
  /\ request.native.sell \/ request.native.buy

\* A transaction that goes through keeps the guaranteed price of the response: what was
\* taken and what was paid, after slippage, partial fills and refunds, are at least as
\* good for the taker, up to half of the last decimal of the quotient in the price.
GuaranteedPriceIsEnforced ==
  phase = "settled" /\ IsSwap /\ ~MistakesOutput =>
    LET got   == taker[response.output]
        price == response.guaranteedPrice
        units == quote.units
    IN  IF request.side = "Sell"
        THEN 2 * Precision * (price * Spent - got * units.sell) <= units.buy * Spent
        ELSE 2 * Precision * (Spent * units.buy - price * got) <= units.sell * got

\* Nothing is left in the proxy when a transaction settles, and the taker is paid in
\* the tokens of the response: what was bought, what is left of what was sold, and
\* what is left between two hops.
NothingStaysBehind ==
  phase = "settled" =>
    /\ wallet = Nothing
    /\ IsSwap /\ ~MistakesOutput =>
         \A t \in Tokens : taker[t] > 0 =>
           (t = response.output \/ (t = Wrapped /\ request.native.sell /\ request.side = "Buy"))

\* What a sale may buy less than its minimum when every source pays what its order asks
\* for: one for the rounding of the order, and half a grain of the best case for that of
\* the rate.
IsRoundedAway(q, missing) == 2 * Grain * missing < 2 * Grain + q.best.buys

\* A quote that was made is answered unless the decimals of its tokens are unknown or its
\* sources are those of multiplex.  Its transaction settles unless a source pays less than
\* its order allows, there are several orders to fill, or the orders of a sale ask for
\* less than its minimum, by no more than the rate between them was rounded.
UnsettledHasCause ==
  /\ phase = "failed" /\ quote # NoQuote =>
       \/ quote.units = NoUnits
       \/ /\ request.chain = "MAINNET" /\ Len(quote.orders) > 1
          /\ \A i \in DOMAIN quote.orders :
               quote.orders[i].source \in MULTIPLEX_BATCH_FILL_SOURCES
  /\ phase = "reverted" =>
       \/ short
       \/ Len(quote.orders) > 1 /\ ~quote.isTwoHop
       \/ LET missing == quote.worst.buys - taker[calldata.output]
          IN  request.side = "Sell" /\ missing > 0 /\ IsRoundedAway(quote, missing)

\* The fill transformer fills the quote: its transaction reverts only when a source
\* pays less than its order allows.
TransactionFillsQuote ==
  phase = "reverted" /\ calldata.feature = "transformERC20" => short

-----------------------------------------------------------------------------
(* The inductive invariant behind the properties *)

\* What the checks of the parameters leave.
IsParsed(r) ==
  /\ r.side \in {"Sell", "Buy"} /\ r.amount \in Nat /\ r.amount < MAX_UINT256
  /\ r.slippage \in 0..Whole /\ r.chain \in DOMAIN Shapes
  /\ {r.sell, r.buy} \subseteq Tokens \ {NULL_ADDRESS} /\ r.sell # r.buy
  /\ r.sell # ETH_NATIVE_ADDRESS
  /\ r.native.sell \in BOOLEAN /\ r.native.buy \in BOOLEAN
  /\ r.native.sell => r.sell = Wrapped /\ r.buy # ETH_NATIVE_ADDRESS
  /\ r.native.buy => r.buy = Wrapped

IsQuoteOf(q, r) ==
  \E shape \in RoutesFor(r), output \in Outputs, units \in KnownUnits \union {NoUnits} :
    q = QuoteOf(r, shape, output, units)

\* A wallet with one token, and with two.
Only(a, n) == [t \in Tokens |-> IF t = a THEN n ELSE 0]

Both(a, n, b, m) == [t \in Tokens |-> (IF t = a THEN n ELSE 0) + (IF t = b THEN m ELSE 0)]

\* What may be sold, and bought: no source pays more than one more than it was asked.
MaySell == 0..quote.worst.sells

MayBuy == 0..(quote.best.buys + 1)

\* A fill of the quote that stands: a sale sells everything, and buys less than the
\* minimum only if a source paid less than its order allows or the order asked for less;
\* a purchase buys enough.
Stands(sold, bought) ==
  IF request.side = "Sell"
  THEN /\ sold = quote.worst.sells
       /\ bought < quote.worst.buys => short \/ IsRoundedAway(quote, quote.worst.buys - bought)
  ELSE bought >= quote.worst.buys

\* What the taker has given and gained, with what is left of what was sold.
Paid(sold, bought) ==
  [t \in Tokens |-> (IF t = calldata.input THEN -quote.worst.sells ELSE 0)
                    + (IF t = quote.sell THEN quote.worst.sells - sold ELSE 0)
                    + (IF t = calldata.output THEN bought ELSE 0)]

\* The transformations that wrap, those that fill, and the one that unwraps: how many
\* there are up to each.
UpToWrap == IF request.native.sell THEN 1 ELSE 0

UpToFill == UpToWrap + (IF quote.isTwoHop THEN 2 ELSE 1)

UpToUnwrap == UpToFill + (IF request.native.buy THEN 1 ELSE 0)

\* Before and between the transformations.
ExecutingOK ==
  /\ step \in 1..(UpToUnwrap + 2)
  /\ step <= UpToUnwrap + 1 => taker = Only(calldata.input, -quote.worst.sells)
  /\ step <= UpToWrap => wallet = Only(ETH_NATIVE_ADDRESS, quote.worst.sells)
  /\ step = UpToWrap + 1 => wallet = Only(quote.sell, quote.worst.sells)
  /\ UpToWrap + 1 < step /\ step <= UpToFill =>
       \E paid \in {0, 1} : wallet = Only(Between, paid) /\ (paid = 0 => short)
  /\ UpToFill < step =>
       \E sold \in MaySell, bought \in MayBuy :
         /\ Stands(sold, bought)
         /\ wallet = IF step = UpToUnwrap + 2
                     THEN Nothing
                     ELSE Both(quote.sell, quote.worst.sells - sold,
                               IF step = UpToUnwrap + 1 THEN calldata.output ELSE quote.buy,
                               bought)
         /\ step = UpToUnwrap + 2 => taker = Paid(sold, bought)

\* A transaction that is settled has sold no more than the worst case and bought no less.
SettledOK ==
  /\ wallet = Nothing
  /\ IsSwap => \E sold \in MaySell, bought \in MayBuy :
                 /\ bought >= quote.worst.buys
                 /\ request.side = "Sell" => sold = quote.worst.sells
                 /\ taker = Paid(sold, bought)

\* The two values agree, and are what the call sells of the native token.
Covers(resp, call) ==
  /\ resp.value = call.value
  /\ call.value = IF call.input = ETH_NATIVE_ADDRESS THEN call.sells ELSE 0

\* The quote, the call and the response are for the request.
AnswerOK ==
  /\ IsParsed(request) /\ IsQuoteOf(quote, request) /\ quote.units # NoUnits
  /\ calldata = TxCalldata(request.chain, quote, request.native)
  /\ response = SwapResponse(request, quote, calldata)
  /\ Covers(response, calldata)

SwapInv ==
  /\ phase \in {"sampling", "quoted"} => IsParsed(request)
  /\ phase \in {"idle", "sampling", "quoted"} => calldata = NoCall
  /\ phase = "quoted" => IsQuoteOf(quote, request)
  /\ quote # NoQuote => phase \notin {"idle", "refused", "sampling"}
  /\ IsSwap => AnswerOK /\ phase \in {"answered", "executing", "settled", "reverted"}
  /\ phase = "answered" /\ ~IsSwap =>
       /\ response.to = "weth" /\ response.amount \in Nat
       /\ {response.input, response.output} \subseteq Tokens
  /\ phase = "executing" => IsSwap /\ calldata.feature = "transformERC20"

ExecutionInv ==
  /\ SwapTypeOK
  /\ phase \notin {"executing", "settled", "reverted"} =>
       step = 1 /\ wallet = Nothing /\ taker = Nothing /\ ~short
  /\ phase = "executing" => ExecutingOK
  /\ phase = "settled" => SettledOK
  /\ UnsettledHasCause
=============================================================================
