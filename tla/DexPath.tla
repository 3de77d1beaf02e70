------------------------------ MODULE DexPath -------------------------------
(***************************************************************************)
(* A path: a sequence of fills together with the size they add up to       *)
(* (class DexPath).                                                        *)
(*                                                                         *)
(* The size keeps the exact value of the code's Big numbers as fractions:  *)
(* output = num/den and adjusted output = adj/den.  den grows only when a  *)
(* fill is cut to the remaining input.                                     *)
(*                                                                         *)
(* m is a market (see DexFills) with kind : [id -> source of the group].   *)
(***************************************************************************)
EXTENDS Fees, Sequences, FiniteSets, SequencesExt

-----------------------------------------------------------------------------
(* Paths *)

\* The sizes a path can have for an order of this amount.
Sizes(amount) == [input : 0..amount, num : Int, adj : Int, den : Nat \ {0}]

EmptySize == [input |-> 0, num |-> 0, adj |-> 0, den |-> 1]

EmptyPath == [fills |-> <<>>, size |-> EmptySize]

\* _addFillSize: a fill that would overshoot the amount counts for the part
\* that is left, its penalty counts in full.
AddFillSize(m, z, f) ==
  LET left    == m.amount - z.input
      penalty == f.adjusted - f.output
  IN  IF f.input > left
      THEN [input |-> m.amount,
            num   |-> z.num * f.input + f.output * left * z.den,
            adj   |-> (z.adj + penalty * z.den) * f.input
                        + f.output * left * z.den,
            den   |-> z.den * f.input]
      ELSE [input |-> z.input + f.input,
            num   |-> z.num + f.output * z.den,
            adj   |-> z.adj + f.adjusted * z.den,
            den   |-> z.den]

CreatePath(m, fills) ==
  [fills |-> fills,
   size  |-> FoldLeft(LAMBDA z, f : AddFillSize(m, z, f), EmptySize, fills)]

\* Mutation of AppendFill: the fill counts whole, even beyond the amount.
AppendWholeFill(m, p, f) ==
  LET z == p.size
  IN  [fills |-> Append(p.fills, f),
       size  |-> [z EXCEPT !.input = @ + f.input,
                           !.num   = @ + f.output * z.den,
                           !.adj   = @ + f.adjusted * z.den]]

\* clone(path).append(fill)
AppendFill(m, p, f) ==
  [fills |-> Append(p.fills, f), size |-> AddFillSize(m, p.size, f)]

SourceFlags(m, p) == {m.kind[p.fills[i].id] : i \in DOMAIN p.fills}

\* _getAdjustedSize: the adjusted output over the size's den, less (sells) or
\* plus (buys) the overhead of the sources the path uses.
AdjustedOutput(m, p) ==
  LET z == p.size
      overhead == ExchangeOverhead(SourceFlags(m, p))
      penalty == IF m.outPerEth # 0
                 THEN m.outPerEth * overhead
                 ELSE m.inPerEth * overhead * Truncate(z.adj, z.den * z.input)
  IN  Penalised(m, z.adj, penalty * z.den)

AdjustedCompleteRate(m, p) ==
  GetCompleteRate(m.side, p.size.input, AdjustedOutput(m, p), p.size.den, m.amount)

AdjustedRate(m, p) ==
  GetRate(m.side, p.size.input, AdjustedOutput(m, p), p.size.den)

\* The best rate of a single fill, gas left out; never below zero.
BestRate(m, p) ==
  FoldLeft(LAMBDA best, f :
             LET rate == GetRate(m.side, f.input, f.output, 1)
             IN  IF RateGT(rate, best) THEN rate ELSE best,
           ZeroRate, p.fills)

\* Mutation of IsComplete: the comparison is strict.
IsOverfull(m, p) == p.size.input > m.amount

IsComplete(m, p) == p.size.input >= m.amount

\* An incomplete path is measured by its input only.
IsBetterThan(m, p, q) ==
  IF IsComplete(m, p) /\ IsComplete(m, q)
  THEN RateGT(AdjustedCompleteRate(m, p), AdjustedCompleteRate(m, q))
  ELSE p.size.input > q.size.input

-----------------------------------------------------------------------------
(* Order of the fills of a path *)

\* A fill of index n has the fill of index n-1 of its group as parent.
HasParent(f) == f.index > 0

IsParentOf(p, f) == p.id = f.id /\ p.index + 1 = f.index

\* Mutation of IsValidNextFill: any fill of the group may follow.
IsFillOfLastGroup(p, f) ==
  \/ ~HasParent(f)
  \/ p.fills # <<>> /\ p.fills[Len(p.fills)].id = f.id

IsValidNextFill(p, f) ==
  \/ ~HasParent(f)
  \/ p.fills # <<>> /\ IsParentOf(p.fills[Len(p.fills)], f)

IsValid(fills) ==
  /\ \A i \in DOMAIN fills :
       HasParent(fills[i]) => i # 1 /\ IsParentOf(fills[i - 1], fills[i])
  /\ \A i, j \in DOMAIN fills : fills[i] = fills[j] => i = j

\* Mutation of Collapse: every fill stays an order of its own.
OrderPerFill(fills) ==
  [i \in DOMAIN fills |-> [id |-> fills[i].id, input |-> fills[i].input,
                           output |-> fills[i].output, subFills |-> <<fills[i]>>]]

\* A fill of the same group as the last order adds to it.
CollapseFill(orders, f) ==
  IF orders # <<>> /\ Last(orders).id = f.id
  THEN Append(Front(orders),
              [Last(orders) EXCEPT !.input    = @ + f.input,
                                   !.output   = @ + f.output,
                                   !.subFills = Append(@, f)])
  ELSE Append(orders, [id |-> f.id, input |-> f.input,
                       output |-> f.output, subFills |-> <<f>>])

\* collapse: neighbouring fills of one group become one order.
Collapse(fills) == FoldLeft(CollapseFill, <<>>, fills)
=============================================================================
