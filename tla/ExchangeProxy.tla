---------------------------- MODULE ExchangeProxy ----------------------------
(***************************************************************************)
(* What the exchange proxy does with a call of the node, as far as the     *)
(* node relies on it.  The contract is not part of the repository.         *)
(*                                                                         *)
(* A wallet holds what the transformations work on.  What a source pays    *)
(* for an order is its own choice: what the order asks for, more, or less. *)
(***************************************************************************)
EXTENDS SwapConsumer, SequencesExt, FiniteSetsExt

\* The amounts a source may pay for an order.
Payments(order) == {0, order.buys, order.buys + 1}

\* Nothing, or less than the order asks for.  The first of two hops asks for nothing.
IsShort(order, paid) == paid = 0 \/ paid < order.buys

AtMost(n, bound) == IF n < bound THEN n ELSE bound

\* The orders that a fill sequence reaches, one after the other.
Reached(t) == [i \in 1..AtMost(Len(t.fillSequence), Len(t.orders)) |-> i]

\* The amount to fill: all there is when it is not given.
FillTotal(t, wallet) == IF t.fillAmount = MAX_UINT256 THEN wallet[t.sell] ELSE t.fillAmount

\* What an order sells when that much of the fill is done.
Sells(t, i, sold, bought, total) ==
  IF t.side = "Sell"
  THEN AtMost(t.orders[i].sells, total - sold)
  ELSE IF bought >= total
       THEN 0
       ELSE AtMost(t.orders[i].sells,
                   CeilDiv(t.orders[i].sells * (total - bought), t.orders[i].buys))

\* The ways an order may go on from those before it.
FillOrder(t, total, done, i) ==
  UNION {LET sells == Sells(t, i, d.sold, d.bought, total)
         IN  IF sells = 0
             THEN {d}
             ELSE {[sold   |-> d.sold + sells,
                    bought |-> d.bought + paid,
                    short  |-> d.short \/ IsShort(t.orders[i], paid)] :
                      paid \in Payments(t.orders[i])} :
         d \in done}

NothingFilled == [sold |-> 0, bought |-> 0, short |-> FALSE]

\* The ways a fill may end: what it sold and bought, and whether a source paid less
\* than its order asked for.
Fills(t, wallet) ==
  LET next(done, i) == FillOrder(t, FillTotal(t, wallet), done, i)
  IN  {[d EXCEPT !.sold = AtMost(@, wallet[t.sell])] :
         d \in FoldLeft(next, {NothingFilled}, Reached(t))}

\* A fill that does not reach its amount reverts.
IsFilled(t, wallet, fill) ==
  IF t.side = "Buy"
  THEN fill.bought >= t.fillAmount
  ELSE fill.sold >= FillTotal(t, wallet)

\* Wrapping and unwrapping, of all there is or of an amount.
Converted(t, wallet) ==
  LET from == t.token
      to   == IF from = ETH_NATIVE_ADDRESS THEN Wrapped ELSE ETH_NATIVE_ADDRESS
      n    == AtMost(t.amount, wallet[from])
  IN  [wallet EXCEPT ![from] = @ - n, ![to] = @ + n]
=============================================================================
