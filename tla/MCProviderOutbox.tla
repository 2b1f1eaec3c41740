--------------------------- MODULE MCProviderOutbox ---------------------------
(* Small instances of ProviderOutbox for TLC. *)
EXTENDS ProviderOutbox, TLC

CONSTANTS w1, w2, o1

Symmetry == Permutations(Workers)

\* One event of each kind reconciliation tells apart.
MCDecision == [r \in EventRows |-> IF r = 1 THEN "requeue"
                                   ELSE IF r = 2 THEN "blocked" ELSE "skipped"]
===============================================================================
