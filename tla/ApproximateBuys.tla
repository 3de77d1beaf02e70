--------------------------- MODULE ApproximateBuys ---------------------------
(***************************************************************************)
(* How a sampler answers for purchases with a source that only quotes      *)
(* sales: for each amount to buy it corrects the amount to sell, in        *)
(* proportion to what the last one would buy and a little more, until what *)
(* is bought is close enough, a quote fails or the iterations are spent.   *)
(*                                                                         *)
(* An approximation is the amount sold last, what an amount sold buys (of  *)
(* the last quote that did not fail), the iterations for this amount and   *)
(* how they ended.  The source is external, a pool with a reserve of what  *)
(* is bought and the depth of what is sold, which quotes amounts of a      *)
(* range.  Products stay below 2^256.                                      *)
(***************************************************************************)
EXTENDS Integers

ONE_HUNDRED_PERCENT_BPS == 10000

APPROXIMATE_BUY_TARGET_EPSILON_BPS == 5

APPROXIMATE_BUY_MAX_ITERATIONS == 5

NoSource == [reserve |-> 0, depth |-> 1, min |-> 1, max |-> 0]

\* getSellQuoteCallback.  A failed call counts as zero.
SellQuote(source, x) ==
  IF x \in source.min..source.max THEN (x * source.reserve) \div (x + source.depth) ELSE 0

PartialAmountCeil(numerator, denominator, target) ==
  IF denominator = 0 THEN 0 ELSE (numerator * target + denominator - 1) \div denominator

NoApproximation == [sell |-> 0, buy |-> 0, iter |-> 0, end |-> "none"]

FirstApproximation(source, sell) ==
  [sell |-> sell, buy |-> SellQuote(source, sell), iter |-> 0, end |-> "open"]

IsReached(target, bought) ==
  /\ bought >= target
  /\ ((bought - target) * ONE_HUNDRED_PERCENT_BPS) \div target
       <= APPROXIMATE_BUY_TARGET_EPSILON_BPS

\* One iteration.  When the quote fails the new amount stays beside the old quote.
Iterate(source, target, a) ==
  LET sell   == PartialAmountCeil(
                  ONE_HUNDRED_PERCENT_BPS + APPROXIMATE_BUY_TARGET_EPSILON_BPS,
                  ONE_HUNDRED_PERCENT_BPS, PartialAmountCeil(target, a.buy, a.sell))
      bought == SellQuote(source, sell)
  IN  IF bought = 0
      THEN [a EXCEPT !.sell = sell, !.end = "failed"]
      ELSE [sell |-> sell, buy |-> bought, iter |-> a.iter + 1,
            end |-> CASE IsReached(target, bought) -> "reached"
                      [] ~IsReached(target, bought)
                         /\ a.iter + 1 = APPROXIMATE_BUY_MAX_ITERATIONS -> "spent"
                      [] OTHER -> "open"]

\* Mutation of Report: what was bought is taken for what was wanted.
ReportSwapped(target, a) == PartialAmountCeil(a.buy, target, a.sell)

\* What is answered for an amount: the last sale, scaled to it.
Report(target, a) == PartialAmountCeil(target, a.buy, a.sell)
=============================================================================
