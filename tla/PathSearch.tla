----------------------------- MODULE PathSearch -----------------------------
(***************************************************************************)
(* The search for the route of one quote: _generateOptimizedOrders of the  *)
(* sampler service with findOptimalDexPathAsync and mixPaths.              *)
(*                                                                         *)
(* The single-source paths are sorted and reduced, the first becomes the   *)
(* best path, and each of the others is mixed with the best path so far by *)
(* a depth-first walk over the sequences of their fills.  The walk has a   *)
(* budget of steps that halves from round to round.  At the end the best   *)
(* path competes with the best two-hop quote.                              *)
(*                                                                         *)
(* The recursion of _walk is the variable stack: a frame is one call, with *)
(* its path, the positions of pool that remain, and those its loop has     *)
(* walked into.                                                            *)
(***************************************************************************)
EXTENDS DexPath, FillChain

CONSTANTS
  NumGroups,    \* sample groups of the request, one per sampler operation
  Markets,      \* the markets a request may meet, see MarketsAssumption
  RunLimit,     \* SAMPLER_RUN_LIMIT
  MinRunSteps   \* the least budget of a mix (32 in mixPaths)

\* Groups are numbered in the order of dexSamples: sort() is stable, so the
\* number breaks ties.
Groups == 1..NumGroups

ASSUME LimitsAssumption ==
  NumGroups \in Nat /\ RunLimit \in Nat \ {0} /\ MinRunSteps \in Nat \ {0}

\* Every group belongs to a source.  Purchases are never routed over two hops.
ASSUME MarketsAssumption ==
  \A m \in Markets :
    /\ m.side \in {"Sell", "Buy"}
    /\ m.amount \in Nat \ {0} /\ m.outPerEth \in Nat /\ m.inPerEth \in Nat
    /\ DOMAIN m.fills = Groups /\ DOMAIN m.kind = Groups
    /\ \A id \in Groups : IsChain(m, id, m.fills[id])
    /\ IsFiniteSet(m.twoHops) /\ \A q \in m.twoHops : q.output \in Nat
    /\ m.side = "Buy" => m.twoHops = {}

VARIABLES
  market,   \* what the sampler contract returned, fixed during the search
  phase,    \* "fills", "mix", "walk" or "done"
  pending,  \* groups whose path is still to be mixed
  rates,    \* [group -> adjusted rate of its path], for the order of a pool
  round,    \* index of the next mix
  best,     \* optimalPath between mixes, bestPath inside one
  pool,     \* the fills of the two paths being mixed
  stack,    \* the calls of _walk in progress, the innermost last
  steps,    \* calls made in this mix
  spent,    \* auxiliary, read by no action: whether a mix so far used up its budget
  outcome   \* what _generateOptimizedOrders returned or threw

vars == <<market, phase, pending, rates, round, best, pool, stack, steps, spent, outcome>>

-----------------------------------------------------------------------------
(* Sorting and reducing the paths *)

SourcePath(m, id) == CreatePath(m, m.fills[id])

\* Fills of a group count only if they move something in both directions.
HasLiquidity(m, id) == TotalInput(m.fills[id]) > 0 /\ TotalOutput(m.fills[id]) > 0

LiveGroups(m) == {id \in Groups : HasLiquidity(m, id)}

Before(m, s, t) ==
  LET a == AdjustedCompleteRate(m, SourcePath(m, s))
      b == AdjustedCompleteRate(m, SourcePath(m, t))
  IN  RateGT(a, b) \/ (~RateGT(b, a) /\ s < t)

IsFirst(m, ids, s) == \A t \in ids \ {s} : Before(m, s, t)

\* Mutation of ReducePaths: the comparison with the best path is reversed.
KeepWorsePaths(m, ids) ==
  LET complete == {s \in ids : IsComplete(m, SourcePath(m, s))}
      bestRate == AdjustedCompleteRate(m,
                    SourcePath(m, CHOOSE s \in complete : IsFirst(m, complete, s)))
  IN  IF complete = {}
      THEN ids
      ELSE {s \in ids : ~RateGT(BestRate(m, SourcePath(m, s)), bestRate)}

ReducePaths(m, ids) ==
  LET complete == {s \in ids : IsComplete(m, SourcePath(m, s))}
      bestRate == AdjustedCompleteRate(m,
                    SourcePath(m, CHOOSE s \in complete : IsFirst(m, complete, s)))
  IN  IF complete = {} \/ RateGT(ZeroRate, bestRate)
      THEN ids
      ELSE {s \in ids : ~RateGT(bestRate, BestRate(m, SourcePath(m, s)))}

-----------------------------------------------------------------------------
(* The walk *)

Double(p, i) == 2 * p

Power2(n) == FoldLeft(Double, 1, [i \in 1..n |-> i])

\* max(runLimit * 0.5 ** i, 32); a fraction is rounded up, since the loop asks
\* for steps < budget.
Budget(i) ==
  LET decayed == (RunLimit + Power2(i) - 1) \div Power2(i)
  IN  IF decayed > MinRunSteps THEN decayed ELSE MinRunSteps

\* The order of the pool: better groups first, otherwise as concatenated.
Precedes(j, k) ==
  \/ RateGT(rates[pool[j].id], rates[pool[k].id])
  \/ ~RateGT(rates[pool[k].id], rates[pool[j].id]) /\ j < k

Frame(path, rest) == [path |-> path, rest |-> rest, walked |-> {}]

Top == stack[Len(stack)]

\* Mutation of Candidates: the loop stops after the first fill it walks into.
FirstCandidate ==
  IF IsComplete(market, Top.path) \/ steps >= Budget(round) \/ Top.walked # {}
  THEN {}
  ELSE {k \in Top.rest : IsValidNextFill(Top.path, pool[k])}

\* Mutation of Candidates: the budget is compared one call too late.
LateCandidates ==
  IF IsComplete(market, Top.path) \/ steps > Budget(round)
  THEN {}
  ELSE {k \in Top.rest \ Top.walked : IsValidNextFill(Top.path, pool[k])}

\* Mutation of Candidates: a complete path is walked on.
EndlessCandidates ==
  IF steps >= Budget(round)
  THEN {}
  ELSE {k \in Top.rest \ Top.walked : IsValidNextFill(Top.path, pool[k])}

\* The fills the loop of the innermost call may still walk into.
Candidates ==
  IF IsComplete(market, Top.path) \/ steps >= Budget(round)
  THEN {}
  ELSE {k \in Top.rest \ Top.walked : IsValidNextFill(Top.path, pool[k])}

\* Mutation of Better: complete paths are compared by their inputs, too.
Larger(p, q) == IF p.size.input >= q.size.input THEN p ELSE q

Better(p, q) == IF IsBetterThan(market, p, q) THEN p ELSE q

-----------------------------------------------------------------------------
(* Collapsed orders and the two-hop quotes *)

UsableTwoHops(m) == {q \in m.twoHops : q.output > 0}

BestTwoHopRate(m) ==
  TwoHopAdjustedRate(m,
    CHOOSE q \in UsableTwoHops(m) :
      \A r \in UsableTwoHops(m) :
        ~RateGT(TwoHopAdjustedRate(m, r), TwoHopAdjustedRate(m, q)))

Result(kind, orders) == [kind |-> kind, orders |-> orders]

NoResult == Result("none", <<>>)

\* Mutation of Choice: a path that holds too little is returned.
ChoiceOfAny(m, p) ==
  IF UsableTwoHops(m) # {} /\ RateGT(BestTwoHopRate(m), AdjustedRate(m, p))
  THEN Result("twoHop", <<>>)
  ELSE Result("path", Collapse(p.fills))

\* The two-hop quote wins only with a rate above that of the path, and above
\* zero when there is no path.
Choice(m, p) ==
  LET pathRate == IF IsComplete(m, p) THEN AdjustedRate(m, p) ELSE ZeroRate
  IN  IF UsableTwoHops(m) # {} /\ RateGT(BestTwoHopRate(m), pathRate)
      THEN Result("twoHop", <<>>)
      ELSE IF IsComplete(m, p)
           THEN Result("path", Collapse(p.fills))
           ELSE Result("NO_OPTIMAL_PATH", <<>>)

-----------------------------------------------------------------------------
Init ==
  /\ market \in Markets
  /\ phase = "fills"
  /\ pending = {} /\ rates = <<>> /\ round = 0
  /\ best = EmptyPath /\ pool = <<>> /\ stack = <<>> /\ steps = 0
  /\ spent = FALSE /\ outcome = NoResult

\* Sort and reduce the paths and start from the first.  Without any path the
\* call of isComplete() on paths[0] throws.
BuildPaths ==
  /\ phase = "fills"
  /\ LET ids == ReducePaths(market, LiveGroups(market))
     IN  \/ /\ ids = {}
            /\ phase' = "done"
            /\ outcome' = Result("TypeError", <<>>)
            /\ UNCHANGED <<pending, rates, best>>
         \/ \E first \in ids :
              /\ IsFirst(market, ids, first)
              /\ best' = SourcePath(market, first)
              /\ pending' = ids \ {first}
              /\ rates' = [s \in ids |-> AdjustedRate(market, SourcePath(market, s))]
              /\ phase' = "mix"
              /\ UNCHANGED outcome
  /\ UNCHANGED <<market, round, pool, stack, steps, spent>>

\* Enter mixPaths with the next path, and make the outermost call of _walk.
StartMix ==
  /\ phase = "mix"
  /\ \E s \in pending :
       /\ IsFirst(market, pending, s)
       /\ pending' = pending \ {s}
       /\ pool' = best.fills \o SourcePath(market, s).fills
  /\ stack' = <<Frame(EmptyPath, DOMAIN pool')>>
  /\ steps' = 1
  /\ best' = Better(EmptyPath, best)
  /\ phase' = "walk"
  /\ UNCHANGED <<market, rates, round, spent, outcome>>

\* The innermost loop walks into its next valid fill.
Walk ==
  /\ phase = "walk" /\ stack # <<>>
  /\ \E k \in Candidates :
       /\ \A j \in Candidates \ {k} : Precedes(k, j)
       /\ LET path == AppendFill(market, Top.path, pool[k])
          IN  /\ stack' = Append([stack EXCEPT ![Len(stack)].walked = @ \union {k}],
                                 Frame(path, Top.rest \ {k}))
              /\ best' = Better(path, best)
  /\ steps' = steps + 1
  /\ UNCHANGED <<market, phase, pending, rates, round, pool, spent, outcome>>

\* The innermost call ends: its path is complete, its loop is, or the budget is.
Return ==
  /\ phase = "walk" /\ stack # <<>>
  /\ Candidates = {}
  /\ stack' = SubSeq(stack, 1, Len(stack) - 1)
  /\ UNCHANGED <<market, phase, pending, rates, round, best, pool, steps, spent, outcome>>

\* mixPaths checks its result and returns it; the search yields to the event loop.
EndMix ==
  /\ phase = "walk" /\ stack = <<>>
  /\ IF IsValid(best.fills)
     THEN phase' = "mix" /\ round' = round + 1 /\ UNCHANGED outcome
     ELSE phase' = "done" /\ outcome' = Result("nooope", <<>>) /\ UNCHANGED round
  /\ spent' = (spent \/ steps >= Budget(round))
  /\ UNCHANGED <<market, pending, rates, best, pool, stack, steps>>

\* Mutation of Choose: a search without a complete path is tried again.
ChooseOrRetry ==
  /\ phase = "mix" /\ pending = {}
  /\ IF IsComplete(market, best)
     THEN phase' = "done" /\ outcome' = Choice(market, best) /\ UNCHANGED round
     ELSE phase' = "fills" /\ round' = 0 /\ UNCHANGED outcome
  /\ UNCHANGED <<market, pending, rates, best, pool, stack, steps, spent>>

\* All paths are mixed: choose between the best path and the two-hop quotes.
Choose ==
  /\ phase = "mix" /\ pending = {}
  /\ phase' = "done"
  /\ outcome' = Choice(market, best)
  /\ UNCHANGED <<market, pending, rates, round, best, pool, stack, steps, spent>>

\* The answer is given; nothing is left to do.
Done == phase = "done" /\ UNCHANGED vars

Next == BuildPaths \/ StartMix \/ Walk \/ Return \/ EndMix \/ Choose \/ Done

Spec == Init /\ [][Next]_vars

\* The search is one synchronous computation between its yields, and the event
\* loop resumes it after each: it never stops half-way.  This is WF_vars(Next)
\* with ENABLED <<Next>>_vars written out as phase # "done", which the absence
\* of deadlock confirms.
FairSpec == Spec /\ ([]<>(phase = "done") \/ []<><<Next>>_vars)

-----------------------------------------------------------------------------
(* Properties *)

Fill == [id : Groups, index : Nat, input : Nat, output : Int, adjusted : Int]

Path == [fills : Seq(Fill), size : Sizes(market.amount)]

OutcomeKinds == {"none", "path", "twoHop", "NO_OPTIMAL_PATH", "TypeError", "nooope"}

\* The variables hold what their declarations say; no path is larger than the
\* amount of the order.
TypeOK ==
  /\ market \in Markets
  /\ phase \in {"fills", "mix", "walk", "done"}
  /\ pending \subseteq Groups
  /\ round \in Nat /\ steps \in Nat
  /\ best \in Path
  /\ pool \in Seq(Fill)
  /\ stack \in Seq([path : Path, rest : SUBSET DOMAIN pool, walked : SUBSET DOMAIN pool])
  /\ outcome.kind \in OutcomeKinds

\* Every path the walk builds keeps each fill right behind its parent and uses
\* no fill twice: the assertion at the end of mixPaths ("nooope") never fires.
NoInvalidPath ==
  /\ outcome.kind # "nooope"
  /\ IsValid(best.fills)
  /\ \A i \in DOMAIN stack : IsValid(stack[i].path.fills)

\* The recursion makes no more calls than the budget of its mix.
WithinBudget == phase = "walk" => steps <= Budget(round)

\* The size of a path is the sum of its fills cut at the amount, and only its
\* last fill can have been cut: every fill before it is taken whole.
ClippedOnlyAtTheEnd ==
  LET Sized(p) ==
        LET total == TotalInput(p.fills)
            n == Len(p.fills)
        IN  /\ p.size.input = IF total > market.amount THEN market.amount ELSE total
            /\ n > 0 => TotalInput(SubSeq(p.fills, 1, n - 1)) < market.amount
  IN  Sized(best) /\ \A i \in DOMAIN stack : Sized(stack[i].path)

\* The path a search retains never loses against one it retained before, not
\* within a mix and not from one mix to the next.
NeverWorsens ==
  [][phase # "fills" => ~IsBetterThan(market, best, best')]_vars

\* Each liquidity source of a route is called by one order: the fills of a group
\* stay together when the path is collapsed.
OneOrderPerGroup ==
  \A i, j \in DOMAIN outcome.orders :
    outcome.orders[i].id = outcome.orders[j].id => i = j

\* A request with a two-hop quote worth taking is answered.
TwoHopIsConsidered ==
  outcome.kind \in {"TypeError", "NO_OPTIMAL_PATH"} =>
    UsableTwoHops(market) = {} \/ ~RateGT(BestTwoHopRate(market), ZeroRate)

\* The search reaches an answer or an error.
Terminates == <>(phase = "done")

-----------------------------------------------------------------------------
(* The inductive invariant behind NoInvalidPath *)

\* A frame's path is valid and drawn from the positions that do not remain.
FrameOK(frame) ==
  /\ IsValid(frame.path.fills)
  /\ \A i \in DOMAIN frame.path.fills :
       \E k \in DOMAIN pool \ frame.rest : pool[k] = frame.path.fills[i]

\* The pool holds a fill once, and none of a path still to be mixed.
PoolOK ==
  /\ \A j, k \in DOMAIN pool : pool[j] = pool[k] => j = k
  /\ \A k \in DOMAIN pool : pool[k].id \notin pending

BestOK ==
  /\ IsValid(best.fills)
  /\ \A i \in DOMAIN best.fills : best.fills[i].id \notin pending

SearchInv ==
  /\ TypeOK
  /\ stack # <<>> => phase = "walk"
  /\ phase = "walk" => PoolOK
  /\ BestOK
  /\ \A i \in DOMAIN stack : FrameOK(stack[i])
  /\ outcome.kind # "nooope"

-----------------------------------------------------------------------------
(* The inductive invariant behind the sizes, the budget and the orders; it    *)
(* holds together with SearchInv                                              *)

OfMarket(m, f) ==
  f.index + 1 \in DOMAIN m.fills[f.id] /\ f = m.fills[f.id][f.index + 1]

\* The size of a path is exact: the sums of its fills, of which only the last is
\* cut, to what the others leave of the amount.
Measured(m, p) ==
  LET n     == Len(p.fills)
      whole == SubSeq(p.fills, 1, n - 1)
      left  == m.amount - TotalInput(whole)
      z     == p.size
  IN  /\ \A i \in DOMAIN p.fills : OfMarket(m, p.fills[i])
      /\ n > 0 => TotalInput(whole) < m.amount
      /\ IF TotalInput(p.fills) <= m.amount
         THEN /\ z.input = TotalInput(p.fills)
              /\ z.num = TotalOutput(p.fills) /\ z.den = 1
         ELSE /\ z.input = m.amount /\ z.den = p.fills[n].input
              /\ z.num = TotalOutput(whole) * p.fills[n].input + p.fills[n].output * left

OutcomeOK ==
  /\ outcome.kind # "none" <=> phase = "done"
  /\ outcome.kind = "path" => IsComplete(market, best)
  /\ outcome.kind = "twoHop" => UsableTwoHops(market) # {}
  /\ outcome.orders = IF outcome.kind = "path" THEN Collapse(best.fills) ELSE <<>>

MeasureInv ==
  /\ \A k \in DOMAIN pool : OfMarket(market, pool[k])
  /\ Measured(market, best) /\ \A i \in DOMAIN stack : Measured(market, stack[i].path)
  /\ WithinBudget
  /\ OutcomeOK
=============================================================================
