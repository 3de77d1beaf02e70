------------------------------- MODULE MCQuote -------------------------------
(***************************************************************************)
(* Routes for TLC: every complete mixture of the fills of three groups, of *)
(* which two are pools of one exchange, and a two-hop route.  Orders of 4  *)
(* are sampled twice at 1.                                                 *)
(***************************************************************************)
EXTENDS Quote, Mixtures

CONSTANTS NumSamples, MaxSafe

F == INSTANCE DexFills

Groups == 1..3

Kinds == <<"Curve", "UniswapV2", "Curve">>
Gas   == <<130, 90, 150>>

Curves(amount) ==
  IF amount = 4
  THEN {<<0, 40, 40, 60, 100>>, <<0, 30, 30, 70, 120>>}
  ELSE {<<150, 260, 400, 520, 600>>, <<100, 199, 390, 670, 930>>,
        <<130, 255, 480, 470, 0>>, <<0, 0, 0, 0, 0>>}

Market(side, amount, curve) ==
  LET base == [side |-> side, amount |-> amount, outPerEth |-> 1, inPerEth |-> 0,
               kind |-> Kinds, gas |-> Gas, curve |-> curve]
  IN  [base EXCEPT !.curve = [id \in Groups |-> F!DexSamplesToFills(base, id)]]

PathRoute(m, p) ==
  [kind |-> "path", side |-> m.side, amount |-> m.amount,
   orders |-> Collapse(p.fills), source |-> Kinds, gas |-> Gas,
   num |-> p.size.num, den |-> p.size.den]

PathRoutes ==
  UNION {LET m == Market(side, amount, curve)
             fills == FlattenSeq(m.curve)
         IN  {PathRoute(m, p) : p \in {q \in MixturesOf(m, fills) : IsComplete(m, q)}} :
         <<side, amount, curve>> \in
           UNION {{"Sell", "Buy"} \X {a} \X [Groups -> Curves(a)] : a \in {4, 10}}}

TwoHopRoute == [kind |-> "twoHop", side |-> "Sell", amount |-> 10, output |-> 850]

QuotedRoutes == PathRoutes \union {TwoHopRoute}

\* TLC evaluates the definition a CONSTANT stands for at every use, but the
\* definitions in it only once.
AllRoutes == QuotedRoutes
=============================================================================
