---------------------------- MODULE MCRunBudget -----------------------------
(* Instances of RunBudget: estimates, measurements and clocks for TLC.       *)
EXTENDS RunBudget, TLC

CONSTANTS p1

Estimate(n, c) == [tokens |-> n, cost |-> c]
Estimates == {Estimate(1, 1), Estimate(3, None)}
Used(k, n, c) == [kind |-> k, tokens |-> n, cost |-> c]
Measured == {Used("reliable", 0, 1), Used("reliable", 3, None), Used("estimated", 1, None)}

\* What a run does after it wrote on without knowing all of the journal is not followed
\* further: the ledger's properties claim nothing of it.
KnowsItsJournal == ~stale

BothWays == {1, -1}
Symmetric == Permutations(Threads)
=============================================================================
