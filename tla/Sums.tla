---------------------------------- MODULE Sums ----------------------------------
(***************************************************************************)
(* aggregate(Sum(...)), and the loops that add up a column of some rows.   *)
(***************************************************************************)
EXTENDS FiniteSetsExt

\* What g says of the elements of its domain, added up.
SumOf(g) == MapThenSumSet(LAMBDA x : g[x], DOMAIN g)
=================================================================================
