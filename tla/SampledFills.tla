---------------------------- MODULE SampledFills ----------------------------
(***************************************************************************)
(* One liquidity source from the sampler contract to its path: the loop of *)
(* a sample...From... function over the sample amounts, the decoding of    *)
(* its result, and the chain of fills dexSamplesToFills makes of it.       *)
(*                                                                         *)
(* The source itself is external: a quote function chosen at the start,    *)
(* which for more input never answers less, but may fail for any amount.   *)
(*                                                                         *)
(* The loops of the samplers are of five kinds:                            *)
(*   "breaking"  stops at the first failure or zero (UniswapV2, Curve,     *)
(*               Kyber, Bancor, Mooniswap, DODO, ...)                      *)
(*   "plain"     stops at the first failure only (Shell)                   *)
(*   "limited"   stops before an amount above a limit, else as "breaking"  *)
(*               (Balancer)                                                *)
(*   "capped"    answers a reserve for every amount from the first that is *)
(*               quoted as much, else as "breaking" (Smoothy)              *)
(*   "approximate"  answers for purchases by iterating sell quotes (Curve, *)
(*               DODO, Kyber, Shell, Smoothy, ... for some of their pools) *)
(***************************************************************************)
EXTENDS DexFills, DexPath, FillChain, ApproximateBuys

CONSTANTS
  Amounts,    \* input amounts of orders
  Quotes,     \* outputs a source may quote
  Fails,      \* the answer of a source that reverts
  Kinds,      \* kinds of loops
  Limits,     \* limits and reserves of the "limited" and "capped" sources
  Sources,    \* sources of the "approximate" kind
  Guesses,    \* what they answer when asked the other way round
  LargeAmounts  \* amounts bought from them

ASSUME SourcesAssumption ==
  Sources \subseteq [reserve : Nat, depth : Nat \ {0}, min : Nat, max : Nat]
ASSUME AmountsAssumption == Amounts \subseteq Nat \ {0}
ASSUME QuotesAssumption ==
  /\ Quotes \subseteq Nat /\ Limits \subseteq Nat /\ Fails \notin Nat
  /\ Kinds \subseteq {"breaking", "plain", "limited", "capped"}
  /\ LargeAmounts \subseteq Nat \ {0} /\ Guesses \subseteq Nat

VARIABLES
  side,      \* side of the order
  amount,    \* amount of the order
  kind,      \* kind of the loop
  limit,     \* limit or reserve of the source
  quote,     \* [sample -> what the source answers]
  source,    \* what is approximated, or NoSource
  outPerEth, \* price of the output token, 0 when it is unknown
  approx,    \* the approximation
  i,         \* index of the loop, from 1
  outputs,   \* the samples answered so far, the rest is zero
  phase,     \* "sampling", "sampled", "converted" or "thrown"
  fills      \* the result of dexSamplesToFills

sourceVars == <<side, amount, kind, limit, quote, source, outPerEth>>

vars == <<sourceVars, approx, i, outputs, phase, fills>>

-----------------------------------------------------------------------------
Samples == 1..NumSamples

\* For more input a source never answers less, for the same input the same, and
\* for none nothing.
IsQuoteFunction(q, a) ==
  /\ \A j, k \in Samples :
       /\ SampleAmount(a, j) = SampleAmount(a, k) => q[j] = q[k]
       /\ j < k /\ q[j] # Fails /\ q[k] # Fails => q[j] <= q[k]
  /\ \A j \in Samples : SampleAmount(a, j) = 0 => q[j] \in {0, Fails}

Init ==
  /\ \/ /\ amount \in Amounts
        /\ quote \in {q \in [Samples -> Quotes \union {Fails}] : IsQuoteFunction(q, amount)}
        /\ side \in {"Sell", "Buy"} /\ kind \in Kinds /\ limit \in Limits
        /\ source = NoSource
     \/ /\ side = "Buy" /\ amount \in LargeAmounts
        /\ kind = "approximate" /\ limit = 0
        /\ quote = [j \in Samples |-> Fails]
        /\ source \in Sources
  /\ outPerEth \in {0, 1}
  /\ approx = NoApproximation
  /\ i = 1 /\ outputs = [j \in Samples |-> 0]
  /\ phase = "sampling" /\ fills = <<>>

\* Mutation of GoOn: the index runs beyond the last sample.
GoOnTooFar == IF i > NumSamples
              THEN phase' = "sampled" /\ UNCHANGED i
              ELSE i' = i + 1 /\ UNCHANGED phase

\* The loop goes on with the next amount or ends.
GoOn == IF i = NumSamples
        THEN phase' = "sampled" /\ UNCHANGED i
        ELSE i' = i + 1 /\ UNCHANGED phase

Stop == phase' = "sampled" /\ UNCHANGED i

\* What the loop keeps of a quote: a failed call counts as zero.
Answer == IF quote[i] = Fails THEN 0 ELSE quote[i]

Keep(answer) == outputs' = [outputs EXCEPT ![i] = answer]

Looping(k) ==
  phase = "sampling" /\ kind = k /\ UNCHANGED <<sourceVars, fills>>

SampleBreaking ==
  /\ Looping("breaking") /\ UNCHANGED approx
  /\ Keep(Answer)
  /\ IF Answer = 0 THEN Stop ELSE GoOn

SamplePlain ==
  /\ Looping("plain") /\ UNCHANGED approx
  /\ Keep(Answer)
  /\ IF quote[i] = Fails THEN Stop ELSE GoOn

SampleLimited ==
  /\ Looping("limited") /\ UNCHANGED approx
  /\ IF SampleAmount(amount, i) > limit
     THEN Stop /\ UNCHANGED outputs
     ELSE Keep(Answer) /\ IF Answer = 0 THEN Stop ELSE GoOn

SampleCapped ==
  /\ Looping("capped") /\ UNCHANGED approx
  /\ IF Answer >= limit
     THEN Stop /\ outputs' = [j \in Samples |-> IF j < i THEN outputs[j] ELSE limit]
     ELSE Keep(Answer) /\ IF Answer = 0 THEN Stop ELSE GoOn

Target == SampleAmount(amount, i)

\* The amount to sell at first is quoted by the source itself, the other way round.
GuessFirst ==
  /\ Looping("approximate") /\ approx.end = "none"
  /\ \E guess \in Guesses :
       IF SellQuote(source, guess) = 0
       THEN Stop /\ UNCHANGED approx
       ELSE approx' = FirstApproximation(source, guess) /\ UNCHANGED <<i, phase>>
  /\ UNCHANGED outputs

Approximate ==
  /\ Looping("approximate") /\ approx.end = "open"
  /\ approx' = Iterate(source, Target, approx)
  /\ UNCHANGED <<i, outputs, phase>>

\* The next amount starts from the approximation of this one.
SampleApproximated ==
  /\ Looping("approximate") /\ approx.end \in {"reached", "failed", "spent"}
  /\ Keep(Report(Target, approx))
  /\ approx' = [approx EXCEPT !.iter = 0, !.end = "open"]
  /\ GoOn

\* The market of DexFills with this source alone and no gas.
Market == [side |-> side, amount |-> amount, outPerEth |-> outPerEth, inPerEth |-> 0,
           gas |-> <<0>>, curve |-> <<outputs>>]

\* onSuccess pairs the outputs with the amounts, and dexSamplesToFills follows.
Convert ==
  /\ phase = "sampled" /\ ~ConversionThrows(Market, 1)
  /\ fills' = DexSamplesToFills(Market, 1)
  /\ phase' = "converted"
  /\ UNCHANGED <<sourceVars, approx, i, outputs>>

\* Nothing catches what the conversion throws: there are no fills of any source.
FailToConvert ==
  /\ phase = "sampled" /\ ConversionThrows(Market, 1)
  /\ phase' = "thrown"
  /\ UNCHANGED <<sourceVars, approx, i, outputs, fills>>

Done == phase \in {"converted", "thrown"} /\ UNCHANGED vars

Next ==
  \/ SampleBreaking \/ SamplePlain \/ SampleLimited \/ SampleCapped
  \/ GuessFirst \/ Approximate \/ SampleApproximated
  \/ Convert \/ FailToConvert \/ Done

Spec == Init /\ [][Next]_vars

-----------------------------------------------------------------------------
(* Properties *)

\* The variables hold what their declarations say.  Of the output of a fill nothing is
\* said but that it is an integer: a source may answer less for more.
TypeOK ==
  /\ side \in {"Sell", "Buy"} /\ amount \in Amounts \union LargeAmounts
  /\ kind \in Kinds \union {"approximate"} /\ outPerEth \in {0, 1}
  /\ i \in Samples
  /\ outputs \in [Samples -> Nat]
  /\ phase \in {"sampling", "sampled", "converted", "thrown"}
  /\ fills \in Seq([id : {1}, index : Nat, input : Nat, output : Int, adjusted : Int])

Answered == {j \in Samples : outputs[j] > 0}

\* The fills of a source add up to the largest sample it answered, whatever
\* samples before it are zero: nothing of the quote is lost or counted twice.
FillsAddUpToQuote ==
  phase = "converted" =>
    IF Answered = {}
    THEN fills = <<>>
    ELSE LET top == CHOOSE j \in Answered : \A k \in Answered : k <= j
         IN  /\ TotalInput(fills) = SampleAmount(amount, top)
             /\ TotalOutput(fills) = outputs[top]

\* A source fills the order alone if and only if the sample of the whole amount
\* was answered, whatever happened to the samples below it.
CompleteIffQuoted ==
  phase = "converted" =>
    (IsComplete(Market, CreatePath(Market, fills)) <=> outputs[NumSamples] > 0)

\* When an approximation reaches its goal the answer is right although it is scaled
\* and rounded once more: the amount to sell buys what was asked for, unless it fell
\* below what the source quotes, and is no more than what was quoted last.
ReachedGoalIsServed ==
  approx.end = "reached" =>
    LET sell == Report(Target, approx)
    IN  /\ sell <= approx.sell
        /\ SellQuote(source, sell) >= Target \/ sell < source.min

\* What the search of a route asks of its markets, a source delivers.
SourceIsChain == phase = "converted" => IsChain(Market, 1, fills)

-----------------------------------------------------------------------------
(* The inductive invariant behind them *)

Approximations == [sell : Nat, buy : Nat, iter : Nat,
                   end : {"none", "open", "reached", "failed", "spent"}]

\* A loop over the quotes has answered the samples before i as they were quoted, and of
\* what was answered the larger sample is the larger.  An approximation rests on a quote
\* that did not fail, and has reached its goal with the last.
SampleInv ==
  /\ side \in {"Sell", "Buy"} /\ amount \in Amounts \union LargeAmounts
  /\ kind \in Kinds \union {"approximate"} /\ limit \in Nat
  /\ quote \in [Samples -> Nat \union {Fails}] /\ source \in Sources \union {NoSource}
  /\ outPerEth \in {0, 1}
  /\ approx \in Approximations
  /\ i \in Samples /\ outputs \in [Samples -> Nat]
  /\ phase \in {"sampling", "sampled", "converted", "thrown"}
  /\ phase = "converted" => ~ConversionThrows(Market, 1)
  /\ fills = IF phase = "converted" THEN DexSamplesToFills(Market, 1) ELSE <<>>
  /\ kind # "approximate" =>
       /\ approx.end = "none"
       /\ \A j, k \in Samples :
            /\ j < k /\ quote[j] # Fails /\ quote[k] # Fails => quote[j] <= quote[k]
            /\ j < k /\ outputs[k] > 0 => outputs[j] <= outputs[k]
       /\ phase = "sampling" =>
            \A j \in Samples :
              /\ outputs[j] = IF j < i /\ quote[j] # Fails THEN quote[j] ELSE 0
              /\ kind = "capped" => outputs[j] <= limit
  /\ approx.end # "none" => approx.buy > 0
  /\ approx.end = "reached" =>
       approx.buy = SellQuote(source, approx.sell) /\ approx.buy >= Target /\ Target > 0
=============================================================================
