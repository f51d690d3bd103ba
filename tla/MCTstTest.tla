----------------------------- MODULE MCTstTest ------------------------------
(* Instances of TstTest: a test with two variants, one that runs on two    *)
(* file systems, one with two test functions and two iterations, one       *)
(* without a timeout and one without an iteration (-i 0).                  *)
EXTENDS TstTest
Plan(v, f, i, t, l) ==
    [variants |-> v, fs |-> f, iterations |-> i, tcnt |-> t, timeout |-> l]
OnePlan == {Plan(1, 0, 1, 1, TRUE)}
MCPlans == {Plan(2, 0, 1, 1, TRUE), Plan(1, 2, 1, 1, TRUE), Plan(1, 0, 2, 2, TRUE),
            Plan(1, 0, 1, 1, FALSE), Plan(1, 0, 0, 1, TRUE)}
=============================================================================
