------------------------------ MODULE MCPayables ------------------------------
(* Payables on a small instance.  The kinds of request are offered in five   *)
(* groups that share tables within, and hardly between, them.                *)
EXTENDS Payables, TLC

WithBatches == {"create_bill", "submit", "approve", "create_payment", "create_batch",
                "process"}
WithVoidedBills == {"create_bill", "submit", "approve", "void_bill", "create_batch",
                    "process"}
WithSchedules == {"create_bill", "create_payment", "schedule", "execute", "cancel"}
WithUploads == {"create_bill", "edit_bill", "submit", "reject", "create_from_upload"}
WithApprovals == {"create_bill", "submit", "approve", "reject", "void_bill"}

\* Documents are worked on in one place at a time, but for bills being decided on, and
\* one worker dies, but for payments entered while a batch is processed.
MCOfferings ==
    {[ops |-> g, careful |-> Kinds, crashes |-> 1] :
        g \in {WithVoidedBills, WithSchedules, WithUploads, WithApprovals}}
    \cup {[ops |-> WithBatches, careful |-> Kinds, crashes |-> 0],
           [ops |-> WithApprovals, careful |-> {}, crashes |-> 1]}

Symmetry == Permutations(Workers)
=============================================================================
