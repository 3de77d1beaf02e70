----------------------------- MODULE FillChain ------------------------------
(***************************************************************************)
(* The fills of one source as both sides of the sampler see them: what the *)
(* conversion of its samples makes, and what the search of a route asks of *)
(* the markets it is given.                                                *)
(***************************************************************************)
EXTENDS Integers, Sequences, SequencesExt

AddInput(sum, f) == sum + f.input

AddOutput(sum, f) == sum + f.output

TotalInput(fills) == FoldLeft(AddInput, 0, fills)

TotalOutput(fills) == FoldLeft(AddOutput, 0, fills)

\* A chain is what dexSamplesToFills makes of the samples of group id.  Any number
\* of its fills buys something, and only the last one may reach the amount.
IsChain(m, id, fills) ==
  /\ fills \in Seq([id : {id}, index : Nat, input : Nat, output : Int,
                    adjusted : Int])
  /\ \A i \in DOMAIN fills :
       LET upTo == SubSeq(fills, 1, i)
       IN  /\ fills[i].index = i - 1
           /\ TotalOutput(upTo) > 0 /\ TotalInput(upTo) <= m.amount
           /\ i < Len(fills) => TotalInput(upTo) < m.amount
=============================================================================
