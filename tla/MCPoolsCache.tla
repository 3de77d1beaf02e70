---------------------------- MODULE MCPoolsCache ----------------------------
(***************************************************************************)
(* The pools cache on a short clock: an entry lives two timeouts and the   *)
(* top pools are loaded again before the end, so that entries expire, are  *)
(* replaced, and are still there when a call comes.                        *)
(***************************************************************************)
EXTENDS PoolsCache

\* No pool, and more than a fetch keeps.
NoneOrMany == {0, 4}
=============================================================================
