------------------------------ MODULE Mixtures ------------------------------
(***************************************************************************)
(* All the paths that a sequence of fills can be put together to.          *)
(***************************************************************************)
EXTENDS DexPath

\* A mixture that has not reached the amount is continued by a fill it has not
\* taken, behind its parent.
Extensions(m, fills, p) ==
  IF IsComplete(m, p)
  THEN {}
  ELSE {AppendFill(m, p, f) : f \in {g \in Range(fills) :
          g \notin Range(p.fills) /\ IsValidNextFill(p, g)}}

Extended(m, fills, mixtures) ==
  mixtures \union UNION {Extensions(m, fills, p) : p \in mixtures}

\* No mixture is longer than the sequence: one round for each of its fills.
MixturesOf(m, fills) ==
  FoldLeft(LAMBDA mixtures, f : Extended(m, fills, mixtures), {EmptyPath}, fills)
=============================================================================
