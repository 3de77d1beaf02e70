----------------------------- MODULE BestMixture ----------------------------
(***************************************************************************)
(* What the path search is measured against: all the mixtures of a set of  *)
(* fills, without order, budget or rounds.                                 *)
(***************************************************************************)
EXTENDS PathSearch, Mixtures

\* A mix that ended before its budget has found the best mixture of its pool.
ExhaustiveMix ==
  phase = "walk" /\ stack = <<>> /\ steps < Budget(round) =>
    \A p \in MixturesOf(market, pool) : ~IsBetterThan(market, p, best)

\* A request is refused only when its sources hold less than the amount: the
\* first descent of a walk takes every fill it can.  That holds as long as the budget
\* lets a descent end, as it does for the groups of the run; eight groups of four or
\* five fills each make a descent longer than the least budget of 32 calls.
FillableIsFilled ==
  outcome.kind = "NO_OPTIMAL_PATH" =>
    TotalInput(FoldLeft(LAMBDA all, id : all \o market.fills[id], <<>>,
                        [id \in Groups |-> id])) < market.amount

\* A route is never worse than the best source used alone, when every mix of its
\* search ended within its budget.  A walk that is cut off may not have come to the
\* path it mixes in, which is then lost.
NoSourceBeatsRoute ==
  outcome.kind = "path" /\ ~spent =>
    \A id \in LiveGroups(market) :
      ~IsBetterThan(market, SourcePath(market, id), best)

-----------------------------------------------------------------------------
(* The inductive invariant behind ExhaustiveMix; it holds together with       *)
(* SearchInv                                                                  *)

\* The loop of this frame has still to walk into the next fill of p.
Unwalked(frame, p) ==
  LET n == Len(frame.path.fills)
  IN  /\ n < Len(p.fills) /\ SubSeq(p.fills, 1, n) = frame.path.fills
      /\ \E k \in frame.rest \ frame.walked : pool[k] = p.fills[n + 1]

\* A frame may walk into every fill its path has not taken.
FrameIsFull(frame) ==
  /\ frame.path = CreatePath(market, frame.path.fills)
  /\ frame.rest = {k \in DOMAIN pool : pool[k] \notin Range(frame.path.fills)}

\* A mixture better than the best so far is ahead of some call in progress, unless
\* the budget is spent.
MixInv ==
  phase = "walk" =>
    /\ \A i \in DOMAIN stack : FrameIsFull(stack[i])
    /\ steps < Budget(round) =>
         \A p \in MixturesOf(market, pool) :
           IsBetterThan(market, p, best) => \E i \in DOMAIN stack : Unwalked(stack[i], p)
=============================================================================
