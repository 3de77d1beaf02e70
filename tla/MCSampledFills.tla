--------------------------- MODULE MCSampledFills ---------------------------
(***************************************************************************)
(* Every quote function over few outputs, with the real distribution of    *)
(* the five samples.  Of an order of 4 the first sample is 0 and two are   *)
(* equal, of an order of 10 they are 1, 2, 4, 7 and 10.                    *)
(***************************************************************************)
EXTENDS SampledFills

AllKinds == {"breaking", "plain", "limited", "capped"}

\* Sources that sell for three times less, and for three times more; one that quotes
\* no large amounts and two that quote no small ones, one of them none that is needed.
Pool(reserve, depth, min, max) ==
  [reserve |-> reserve, depth |-> depth, min |-> min, max |-> max]

MCSources ==
  {Pool(9000, 27000, 1, 20000), Pool(9000, 3000, 1, 20000),
   Pool(9000, 27000, 1, 5000), Pool(9000, 27000, 800, 20000),
   Pool(9000, 27000, 5000, 20000)}
=============================================================================
