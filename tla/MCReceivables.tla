--------------------------- MODULE MCReceivables ---------------------------
(* Instances of Receivables for TLC. *)
EXTENDS Receivables, TLC

CONSTANTS w1, w2, r1, r2

TwoWorkers == {w1, w2}
TwoReceipts == {r1, r2}
OneReceipt == {r1}
OnePeriod == {1}
OneAmount == {1}
TwoAmounts == {1, 2}
JustTwo == {2}
ZeroOrTwo == {0, 2}

\* Everything but the automatic cash application.
ByHand == Ops \ {"auto_match"}
AllOps == Ops

\* Documents are worked on in one place at a time.
Both == {"invoice", "receipt"}

Symmetry == Permutations(Workers) \cup Permutations(Receipts)
=============================================================================
