----------------------------- MODULE MCTestEnv ------------------------------
(* Instances of TestEnv: two tests, each of which is any of a few tests.   *)
EXTENDS TestEnv
Want(k, f, c, w, s) == [kind |-> k, fs |-> f, conf |-> c, clock |-> w, chk |-> s]
MCWants == {Want("mount", 2, FALSE, FALSE, FALSE), Want("ovl", 0, FALSE, TRUE, FALSE),
            Want("rofs", 0, FALSE, FALSE, TRUE), Want("none", 0, TRUE, FALSE, FALSE)}
OnlyDevice == {Want("dev", 0, FALSE, FALSE, FALSE)}
OnlyOverlay == {Want("ovl", 0, TRUE, FALSE, FALSE)}
=============================================================================
