------------------------- MODULE MCJournalWorkflow -------------------------
(* Instances of JournalWorkflow for TLC. *)
EXTENDS JournalWorkflow, TLC

CONSTANTS w1, w2

TwoWorkers == {w1, w2}

OneAmount == {1}
OneStep == {1}

\* Every request alone.
AllOps == Ops
\* The requests that write lines, and closing, alone; the rest overlap.
LineWritersAndClose == {"create", "allocate", "edit", "close"}
\* Creating alone on its entry; editing overlaps with everything.
CreatesOnly == {"create", "allocate"}

Symmetry == Permutations(Workers)
=============================================================================
