------------------------------ MODULE DexFills ------------------------------
(***************************************************************************)
(* From an amount to the fills of one liquidity source.                    *)
(*                                                                         *)
(* getSampleAmounts splits the order into increasing amounts, the sampler  *)
(* contract quotes each of them on every source, and dexSamplesToFills     *)
(* turns the quotes of one source into a chain of marginal fills.          *)
(*                                                                         *)
(* A market m is a record with                                             *)
(*   side       "Sell" or "Buy"                                            *)
(*   amount     the input amount of the order                              *)
(*   outPerEth  output tokens per unit of gas   (outputAmountPerEth)       *)
(*   inPerEth   input tokens per unit of gas    (inputAmountPerEth)        *)
(*   gas        [id -> gas of a fill of the sample group]  (gasSchedule)   *)
(*   curve      [id -> quoted output of each sample, 0 when it reverted]   *)
(* Amounts and prices are integers and the unit of gas is 1000, so every   *)
(* quantity below is exact.                                                *)
(***************************************************************************)
EXTENDS Fees, Sequences, FiniteSets, SequencesExt

CONSTANTS
  NumSamples,   \* SAMPLER_AMOUNT_NUM_SAMPLES
  MaxSafe       \* Number.MAX_SAFE_INTEGER, what BigNumber.toNumber() accepts

ASSUME NumSamplesAssumption == NumSamples \in Nat \ {0}
ASSUME MaxSafeAssumption == MaxSafe \in Nat

-----------------------------------------------------------------------------
Times(product, x) == product * x

Power(b, n) == FoldLeft(Times, 1, [k \in 1..n |-> b])

\* Step i of the distribution weighs 1.25^(i-1) = 5^(i-1) / 4^(i-1).  Over the
\* common denominator 4^(NumSamples-1) the first i weights sum to this.
CumulativeWeight ==
  [i \in 1..NumSamples |-> Power(4, NumSamples - i) * (Power(5, i) - Power(4, i))]

\* The i-th amount to sample.  The last one is the amount itself, the others
\* are truncated to whole units.
SampleAmount(amount, i) ==
  IF i = NumSamples
  THEN amount
  ELSE (amount * CumulativeWeight[i]) \div CumulativeWeight[NumSamples]

SampleAmounts(amount) == [i \in 1..NumSamples |-> SampleAmount(amount, i)]

-----------------------------------------------------------------------------
\* What the gas of the first fill of a chain costs, in output tokens.  Without
\* a price of the output token the price of the input token is converted at
\* the rate of the fill.
GasPenalty(m, gas, input, output) ==
  IF m.outPerEth # 0
  THEN m.outPerEth * gas
  ELSE m.inPerEth * gas * Truncate(output, input)

-----------------------------------------------------------------------------
KeepNonzero(curve, kept, i) == IF curve[i] > 0 THEN Append(kept, i) ELSE kept

\* The samples that returned something, as sample numbers in order.
NonzeroSamples(m, id) ==
  FoldLeft(LAMBDA kept, i : KeepNonzero(m.curve[id], kept, i), <<>>,
           [i \in 1..NumSamples |-> i])

\* Mutation of MarginalFills: the difference is to the sample before, answered or
\* not, instead of the sample answered before.
NeighbourFills(m, id) ==
  LET kept == NonzeroSamples(m, id)
      In(i)  == IF i = 0 THEN 0 ELSE SampleAmount(m.amount, i)
      Out(i) == IF i = 0 THEN 0 ELSE m.curve[id][i]
      Fill(k) ==
        LET input  == In(kept[k]) - In(kept[k] - 1)
            output == Out(kept[k]) - Out(kept[k] - 1)
        IN  [id |-> id, index |-> k - 1, input |-> input, output |-> output,
             adjusted |-> output]
  IN  [k \in 1..Len(kept) |-> Fill(k)]

\* The chain before clipping: each fill is the difference of two neighbours,
\* and only the first one carries the gas penalty.
MarginalFills(m, id) ==
  LET kept == NonzeroSamples(m, id)
      In(k)  == IF k = 0 THEN 0 ELSE SampleAmount(m.amount, kept[k])
      Out(k) == IF k = 0 THEN 0 ELSE m.curve[id][kept[k]]
      Fill(k) ==
        LET input  == In(k) - In(k - 1)
            output == Out(k) - Out(k - 1)
        IN  [id |-> id, index |-> k - 1, input |-> input, output |-> output,
             adjusted |-> IF k = 1
                          THEN Penalised(m, output,
                                         GasPenalty(m, m.gas[id], input, output))
                          ELSE output]
  IN  [k \in 1..Len(kept) |-> Fill(k)]

\* The clipping loop stops at the first fill that finds the amount already reached.
DexSamplesToFills(m, id) ==
  LET kept == NonzeroSamples(m, id)
      Reached(k) == (IF k = 0 THEN 0 ELSE SampleAmount(m.amount, kept[k])) >= m.amount
      last == CHOOSE k \in 0..Len(kept) :
                /\ k = Len(kept) \/ Reached(k)
                /\ \A j \in 0..(k - 1) : ~Reached(j)
  IN  SubSeq(MarginalFills(m, id), 1, last)

\* When no price of the output token is known the first fill divides by
\* input.toNumber(), which throws above MaxSafe, as the division does by zero:
\* the conversion of a source then fails, and the whole quote with it.
ConversionThrows(m, id) ==
  /\ m.outPerEth = 0
  /\ NonzeroSamples(m, id) # <<>>
  /\ LET input == SampleAmount(m.amount, NonzeroSamples(m, id)[1])
     IN  input = 0 \/ input > MaxSafe
=============================================================================
