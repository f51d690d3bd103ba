------------------------------ MODULE TstTest -------------------------------
(***************************************************************************)
(* The new test library (ltp/lib/tst_test.c): a library process forks, for *)
(* each variant and file system, a test process that leads a group of its  *)
(* own and may fork children.  Results are counted in a shared page, a     *)
(* heartbeat (SIGUSR1) restarts the timeout, SIGALRM and SIGINT make the   *)
(* library kill the group.                                                 *)
(*                                                                         *)
(* An exit value is the set of its flags: {} is TPASS.  Time is left out:  *)
(* an alarm that is set may fire at any moment.  Reports, children and     *)
(* interrupts are what the test and its user choose to do.                 *)
(***************************************************************************)
EXTENDS Integers, FiniteSets

CONSTANTS Plans,        \* what a test asks for: test_variants, file systems (0
                        \* without all_filesystems), the iterations testrun()
                        \* makes (option -i is an unchecked atoi(): 0 is
                        \* possible), tcnt (1 for a test_all), whether its
                        \* timeout is not -1
          Kids,         \* the children a test may fork
          MaxRetries,   \* 10
          MaxReports,   \* bound: results reported
          MaxInts,      \* bound: SIGINTs
          CanStick,     \* the kernel may hang the test process
          CanForkFail

ASSUME TstTestConstants ==
    /\ Plans \subseteq [variants : Nat \ {0}, fs : Nat, iterations : Nat,
                        tcnt : Nat \ {0}, timeout : BOOLEAN]
    /\ MaxRetries \in Nat /\ MaxReports \in Nat
    /\ MaxInts \in Nat

VARIABLES
    lpc,        \* where the library process is
    test_pid,   \* its variable: 0, -1 or the number of a run
    run,        \* test processes forked so far
    alarm,      \* the alarm of the library process is set
    usr1,       \* a heartbeat is pending
    retries,    \* sigkill_retries
    plan,       \* the plan of the test
    left,       \* <<variants, file systems>> still to run
    ret,        \* ret of tst_run_tcases()
    code,       \* what do_exit() computed
    results,    \* the shared counters
    timeout,    \* results->timeout is not 0
    tpc,        \* where the test process is
    tstat,      \* its exit value, or the signal that ended it
    saved,      \* saved_results
    calls,      \* test functions called
    stuck,      \* the test process hangs in the kernel
    doomed,     \* a SIGKILL waits for it to come back
    kids,       \* the children: state, group, parent and exit value
    nrep, nint, \* reports and SIGINTs so far
    heard,      \* history: the failures, warnings and breaks, those of children
                \* of a test process that lived included
    masked      \* history: a test process ended with TCONF before it had waited
                \* for a child of its own that had broken

libvars == <<lpc, test_pid, run, alarm, usr1, retries, left, ret, code>>
testvars == <<tpc, tstat, saved, calls, stuck, doomed>>
shared == <<results, timeout>>
bounds == <<nrep, nint>>
history == <<heard, masked>>
vars == <<plan, libvars, testvars, shared, kids, bounds, history>>

Flags == {"FAIL", "BROK", "WARN", "CONF"}
Deaths == {{"KILL"}, {"SIGNAL"}}      \* SIGKILL, another signal
Counters == {"passed", "failed", "skipped", "warnings"}
CounterOf(f) == CASE f = "PASS" -> "passed" [] f = "FAIL" -> "failed"
                  [] f = "CONF" -> "skipped" [] f = "WARN" -> "warnings"
NoResults == [c \in Counters |-> 0]
NoKid == [st |-> "none", grp |-> 0, par |-> 0, out |-> {}]

Init == /\ lpc = "arm" /\ test_pid = 0 /\ run = 0
        /\ alarm = FALSE /\ usr1 = FALSE /\ retries = 0
        /\ plan \in Plans /\ left = <<plan.variants, plan.fs>> /\ ret = {} /\ code = {}
        /\ results = NoResults /\ timeout = FALSE
        /\ tpc = "none" /\ tstat = {} /\ saved = NoResults /\ calls = 0
        /\ stuck = FALSE /\ doomed = FALSE
        /\ kids = [k \in Kids |-> NoKid]
        /\ nrep = 0 /\ nint = 0 /\ heard = {} /\ masked = FALSE
-----------------------------------------------------------------------------
(* The library process *)

\* do_exit(r) with the counters res: the flags the program exits with.
ExitFlags(r, res) ==
    (IF res["passed"] > 0 /\ r = {"CONF"} THEN {} ELSE r)
    \cup (IF res["failed"] > 0 THEN {"FAIL"} ELSE {})
    \cup (IF res["skipped"] > 0 /\ res["passed"] = 0 THEN {"CONF"} ELSE {})
    \cup (IF res["warnings"] > 0 THEN {"WARN"} ELSE {})

DoExit(r, res) == lpc' = "cleanup" /\ code' = ExitFlags(r, res)

\* fork_testrun(): tst_set_timeout(), and the SIGINT handler.
SetTimeout ==
    /\ lpc = "arm"
    /\ timeout' = (timeout \/ plan.timeout)
    /\ alarm' = plan.timeout
    /\ lpc' = "fork"
    /\ UNCHANGED <<test_pid, run, usr1, retries, left, ret, code, results>>
    /\ UNCHANGED <<testvars, kids, bounds, history>>

\* The child exists; its pid is not stored yet.
Fork ==
    /\ lpc = "fork"
    /\ lpc' = "assign" /\ run' = run + 1
    /\ tpc' = "forked" /\ tstat' = {} /\ calls' = 0 /\ saved' = NoResults
    /\ stuck' = FALSE /\ doomed' = FALSE
    /\ UNCHANGED <<test_pid, alarm, usr1, retries, left, ret, code>>
    /\ UNCHANGED <<shared, kids, bounds, history>>

ForkFails ==
    /\ lpc = "fork" /\ CanForkFail
    /\ test_pid' = -1 /\ heard' = heard \cup {"BROK"}
    /\ DoExit({"BROK"}, results)
    /\ UNCHANGED <<run, alarm, usr1, retries, left, ret, testvars, shared>>
    /\ UNCHANGED <<kids, bounds, masked>>

Assign ==
    /\ lpc = "assign"
    /\ test_pid' = run /\ lpc' = "wait"
    /\ UNCHANGED <<run, alarm, usr1, retries, left, ret, code>>
    /\ UNCHANGED <<testvars, shared, kids, bounds, history>>

\* waitpid() returns; a heartbeat sent before the end was handled on the way.
Waitpid ==
    /\ lpc = "wait" /\ tpc = "zombie" /\ ~usr1
    /\ lpc' = "reaped"
    /\ UNCHANGED <<test_pid, run, alarm, usr1, retries, left, ret, code>>
    /\ UNCHANGED <<testvars, shared, kids, bounds, history>>

\* run_tcases_per_fs() and tst_run_tcases() with the value r of fork_testrun().
Returned(r) ==
    LET fs == plan.fs > 0
        skip == fs /\ r = {"CONF"}                  \* update_results(TCONF)
        res == IF skip THEN [results EXCEPT !["skipped"] = @ + 1] ELSE results
    IN /\ results' = res
       /\ \/ /\ fs /\ r # {} /\ ~skip               \* do_exit() at once
             /\ DoExit(r, res) /\ UNCHANGED <<left, ret>>
          \/ /\ fs /\ (r = {} \/ skip) /\ left[2] > 1
             /\ lpc' = "arm" /\ left' = <<left[1], left[2] - 1>>
             /\ UNCHANGED <<ret, code>>
          \/ /\ fs => (r = {} \/ skip) /\ left[2] = 1
             /\ ret' = ret \cup r /\ left' = <<left[1] - 1, plan.fs>>
             /\ IF (ret \cup r) \ {"CONF"} # {} \/ left[1] = 1
                THEN DoExit(ret \cup r, res)
                ELSE lpc' = "arm" /\ UNCHANGED code

\* Mutant: the alarm is left on.
ReapedNoAlarm ==
    /\ lpc = "reaped"
    /\ IF tstat \in Deaths
       THEN DoExit({"BROK"}, results) /\ UNCHANGED <<results, left, ret>>
       ELSE Returned(tstat)
    /\ tpc' = "none" /\ tstat' = {}
    /\ UNCHANGED <<test_pid, run, alarm, usr1, retries, timeout>>
    /\ UNCHANGED <<saved, calls, stuck, doomed, kids, bounds, history>>

\* Mutant: the pid of a test that has ended is forgotten.
ReapedForgets ==
    /\ lpc = "reaped"
    /\ alarm' = FALSE /\ test_pid' = 0
    /\ IF tstat \in Deaths
       THEN DoExit({"BROK"}, results) /\ UNCHANGED <<results, left, ret>>
       ELSE Returned(tstat)
    /\ tpc' = "none" /\ tstat' = {}
    /\ UNCHANGED <<run, usr1, retries, timeout>>
    /\ UNCHANGED <<saved, calls, stuck, doomed, kids, bounds, history>>

\* fork_testrun() after waitpid(): alarm(0), and the status.
Reaped ==
    /\ lpc = "reaped"
    /\ alarm' = FALSE
    /\ IF tstat \in Deaths              \* tst_brk(TBROK)
       THEN DoExit({"BROK"}, results) /\ UNCHANGED <<results, left, ret>>
       ELSE Returned(tstat)
    /\ tpc' = "none" /\ tstat' = {}
    /\ UNCHANGED <<test_pid, run, usr1, retries, timeout>>
    /\ UNCHANGED <<saved, calls, stuck, doomed, kids, bounds, history>>

\* do_cleanup() and exit().
Exit ==
    /\ lpc = "cleanup"
    /\ lpc' = "exited"
    /\ UNCHANGED <<test_pid, run, alarm, usr1, retries, left, ret, code>>
    /\ UNCHANGED <<testvars, shared, kids, bounds, history>>
-----------------------------------------------------------------------------
(* Signals *)

Ended == lpc \in {"exited", "unclean", "killed"}
TestLives == tpc \notin {"none", "zombie"}
InGroup(g) == g = run /\ TestLives /\ tpc \notin {"forked", "dfl"}

\* K when its zombies have no parent left to wait for them.
Orphaned(K, alive) ==
    [k \in Kids |-> IF K[k].st = "zombie" /\ ~(alive /\ K[k].par = run)
                    THEN [NoKid EXCEPT !.st = "gone"] ELSE K[k]]

\* The children after a SIGKILL for group g.
Struck(g) == [k \in Kids |-> IF kids[k].st = "run" /\ kids[k].grp = g
                             THEN [kids[k] EXCEPT !.st = "zombie", !.out = {"SIGNAL"}]
                             ELSE kids[k]]

\* The test process ends with status s, leaving children K behind; its memory
\* is gone.
TestEnds(s, K) == /\ tpc' = "zombie" /\ tstat' = s /\ kids' = Orphaned(K, FALSE)
                  /\ saved' = NoResults /\ calls' = 0 /\ UNCHANGED <<stuck, doomed>>

\* kill(-g, SIGKILL).  The test process dies unless the kernel hangs in it.
KillGroup(g) ==
    \/ /\ InGroup(g) /\ ~stuck
       /\ TestEnds({"KILL"}, Struck(g)) /\ heard' = heard \cup {"BROK"}
    \/ /\ InGroup(g) /\ stuck
       /\ doomed' = TRUE /\ kids' = Orphaned(Struck(g), TRUE)
       /\ UNCHANGED <<tpc, tstat, saved, calls, stuck, heard>>
    \/ /\ ~InGroup(g)
       /\ kids' = Orphaned(Struck(g), TestLives)
       /\ UNCHANGED <<testvars, heard>>

\* kill(0, SIGKILL): the library's own group, and the child that is still in it.
KillOwnGroup ==
    /\ lpc' = "killed"
    /\ tpc' = IF tpc \in {"forked", "dfl"} THEN "none" ELSE tpc
    /\ UNCHANGED <<tstat, saved, calls, stuck, doomed, kids, heard>>

\* Mutant: the handler does not set the alarm again.
AlarmHandlerOnce ==
    /\ alarm /\ ~Ended
    /\ alarm' = FALSE
    /\ retries' = retries + 1
    /\ IF test_pid = 0 THEN KillOwnGroup
       ELSE /\ KillGroup(test_pid)
            /\ lpc' = IF retries' > MaxRetries THEN "unclean" ELSE lpc
    /\ UNCHANGED <<test_pid, run, usr1, left, ret, code, shared, bounds, masked>>

\* Mutant: the handler never gives up.
AlarmHandlerForever ==
    /\ alarm /\ ~Ended
    /\ retries' = retries + 1
    /\ IF test_pid = 0 THEN KillOwnGroup
       ELSE KillGroup(test_pid) /\ UNCHANGED lpc
    /\ UNCHANGED <<test_pid, run, alarm, usr1, left, ret, code, shared, bounds, masked>>

\* alarm_handler(): it kills, sets the alarm again and counts.
AlarmHandler ==
    /\ alarm /\ ~Ended
    /\ retries' = retries + 1
    /\ IF test_pid = 0 THEN KillOwnGroup
       ELSE /\ KillGroup(test_pid)
            /\ lpc' = IF retries' > MaxRetries THEN "unclean" ELSE lpc
    /\ UNCHANGED <<test_pid, run, alarm, usr1, left, ret, code, shared, bounds, masked>>

\* heartbeat_handler()
HeartbeatHandler ==
    /\ usr1 /\ ~Ended
    /\ usr1' = FALSE /\ alarm' = timeout /\ retries' = 0
    /\ UNCHANGED <<lpc, test_pid, run, left, ret, code>>
    /\ UNCHANGED <<testvars, shared, kids, bounds, history>>

\* SIGINT for the group of the library, which the child leaves with setpgid():
\* the library kills the test if it has a handler and a pid, and dies if it
\* has no handler; the child has inherited a handler that does nothing.
Interrupt ==
    LET handled == lpc \in {"fork", "assign", "wait", "reaped"} \/ test_pid = -1
        kills == handled /\ test_pid > 0
    IN /\ ~Ended /\ nint < MaxInts
       /\ nint' = nint + 1
       /\ lpc' = IF handled THEN lpc ELSE "killed"
       /\ \/ kills /\ tpc # "dfl" /\ KillGroup(test_pid)
          \/ ~kills /\ tpc # "dfl" /\ UNCHANGED <<testvars, kids, heard>>
          \/ /\ tpc = "dfl" /\ heard' = heard \cup {"BROK"}
             /\ TestEnds({"SIGNAL"}, IF kills THEN Struck(test_pid) ELSE kids)
       /\ UNCHANGED <<test_pid, run, alarm, usr1, retries, left, ret, code>>
       /\ UNCHANGED <<shared, nrep, masked>>
-----------------------------------------------------------------------------
(* The test process *)

TestAt(p) == tpc = p /\ ~stuck

\* A step of the test process that only moves it.
TestMoves(p) == /\ tpc' = p
                /\ UNCHANGED <<libvars, tstat, saved, calls, stuck, doomed>>
                /\ UNCHANGED <<shared, kids, bounds, history>>

\* fork_testrun() in the child: the handlers, then the group.
ResetSignals == TestAt("forked") /\ TestMoves("dfl")
Setpgid == TestAt("dfl") /\ TestMoves("start")

\* testrun(): the first heartbeat; tst_test->setup() is next.
Start == /\ TestAt("start")
         /\ usr1' = TRUE /\ tpc' = "setup"
         /\ UNCHANGED <<lpc, test_pid, run, alarm, retries, left, ret, code>>
         /\ UNCHANGED <<tstat, saved, calls, stuck, doomed, shared, kids, bounds, history>>

\* setup() calls tst_set_timeout() with a number of seconds, which is a
\* heartbeat; with -1 the call does nothing.
SetupTimeout == /\ TestAt("setup") /\ ~timeout
                /\ timeout' = TRUE /\ usr1' = TRUE
                /\ UNCHANGED <<lpc, test_pid, run, alarm, retries, left, ret, code>>
                /\ UNCHANGED <<testvars, results, kids, bounds, history>>

\* run_tests() calls the test function after saving the results.
CallTest(n) == /\ saved' = results /\ calls' = n /\ tpc' = "test"

\* The end of setup(), and the first iteration if there is one.
SetupDone == /\ TestAt("setup")
             /\ IF plan.iterations > 0 THEN CallTest(1)
                ELSE tpc' = "clean" /\ UNCHANGED <<saved, calls>>
             /\ UNCHANGED <<libvars, tstat, stuck, doomed, shared, kids, bounds, history>>

\* The flags of a report that must show in the exit value.
Lasting(f) == {f} \cap {"FAIL", "WARN"}

\* tst_res(f): tst_atomic_inc() of a counter.
Count(f) == /\ nrep < MaxReports /\ nrep' = nrep + 1
            /\ results' = [results EXCEPT ![CounterOf(f)] = @ + 1]

Report(f) == /\ tpc \in {"setup", "test"} /\ ~stuck
             /\ Count(f) /\ heard' = heard \cup Lasting(f)
             /\ UNCHANGED <<libvars, testvars, timeout, kids, nint, masked>>

\* tst_brk(f) in the test process: the cleanup, then exit(f).
Brk(f) == tpc' = "clean" /\ tstat' = {f}

TestBreaks(f) == /\ tpc \in {"setup", "test"} /\ ~stuck
                 /\ Brk(f) /\ heard' = heard \cup ({f} \cap {"BROK"})
                 /\ UNCHANGED <<libvars, saved, calls, stuck, doomed, shared>>
                 /\ UNCHANGED <<kids, bounds, masked>>

\* SAFE_FORK() in setup() or in a test function
ForkKid(k) ==
    /\ tpc \in {"setup", "test"} /\ ~stuck /\ kids[k].st = "none"
    /\ kids' = [kids EXCEPT ![k] = [st |-> "run", grp |-> run, par |-> run, out |-> {}]]
    /\ UNCHANGED <<libvars, testvars, shared, bounds, history>>

TestReturns == TestAt("test") /\ TestMoves("reap")

Mine == {k \in Kids : kids[k].par = run}
Zombies == {k \in Mine : kids[k].st = "zombie"}

\* The exit values of a child that check_child_status() turns into TBROK, and a
\* child that ended with one and has not been waited for.
Bad(s) == s \notin {{}, {"CONF"}}
Broken(k) == kids[k].par = run /\ kids[k].st = "zombie" /\ Bad(kids[k].out)

\* Mutant: a child that was killed is not noticed.
CheckChildStatusLax(s) ==
    \/ s \in {{}, {"SIGNAL"}} /\ UNCHANGED <<tpc, tstat>>
    \/ s = {"CONF"} /\ Brk("CONF")
    \/ s \notin {{}, {"SIGNAL"}, {"CONF"}} /\ Brk("BROK")

\* check_child_status(): 0 is fine, TCONF is passed on, all else is TBROK.
CheckChildStatus(s) ==
    \/ s = {} /\ UNCHANGED <<tpc, tstat>>
    \/ s = {"CONF"} /\ Brk("CONF")
    \/ s \notin {{}, {"CONF"}} /\ Brk("BROK")

\* One turn of the loop of tst_reap_children(): wait() returns any zombie.
ReapChild(k) ==
    /\ TestAt("reap") /\ k \in Zombies
    /\ kids' = [kids EXCEPT ![k] = [NoKid EXCEPT !.st = "gone"]]
    /\ CheckChildStatus(kids[k].out)
    /\ UNCHANGED <<libvars, saved, calls, stuck, doomed, shared, bounds, history>>

ResultsEqual(a, b) == \A c \in Counters \ {"warnings"} : a[c] = b[c]

\* Mutant: run_tests() does not ask for results.
ChildrenReapedLax ==
    /\ TestAt("reap") /\ Mine = {}
    /\ \/ /\ calls % plan.tcnt # 0 /\ CallTest(calls + 1)
          /\ UNCHANGED <<tstat, usr1, heard>>
       \/ /\ calls % plan.tcnt = 0
          /\ usr1' = TRUE /\ UNCHANGED <<tstat, heard>>
          /\ IF calls < plan.iterations * plan.tcnt THEN CallTest(calls + 1)
             ELSE tpc' = "clean" /\ UNCHANGED <<saved, calls>>
    /\ UNCHANGED <<lpc, test_pid, run, alarm, retries, left, ret, code>>
    /\ UNCHANGED <<stuck, doomed, shared, kids, bounds, masked>>

\* Mutant: the test goes on when no child has ended.
ChildrenReapedEarly ==
    /\ TestAt("reap") /\ Zombies = {}
    /\ \/ /\ ResultsEqual(saved, results)
          /\ Brk("BROK") /\ heard' = heard \cup {"BROK"}
          /\ UNCHANGED <<usr1, saved, calls>>
       \/ /\ ~ResultsEqual(saved, results) /\ calls % plan.tcnt # 0
          /\ CallTest(calls + 1) /\ UNCHANGED <<tstat, usr1, heard>>
       \/ /\ ~ResultsEqual(saved, results) /\ calls % plan.tcnt = 0
          /\ usr1' = TRUE /\ UNCHANGED <<tstat, heard>>
          /\ IF calls < plan.iterations * plan.tcnt THEN CallTest(calls + 1)
             ELSE tpc' = "clean" /\ UNCHANGED <<saved, calls>>
    /\ UNCHANGED <<lpc, test_pid, run, alarm, retries, left, ret, code>>
    /\ UNCHANGED <<stuck, doomed, shared, kids, bounds, masked>>

\* ECHILD: the results are compared; the next test function, or a heartbeat
\* and the next iteration, or the end of testrun().
ChildrenReaped ==
    /\ TestAt("reap") /\ Mine = {}
    /\ \/ /\ ResultsEqual(saved, results)
          /\ Brk("BROK") /\ heard' = heard \cup {"BROK"}
          /\ UNCHANGED <<usr1, saved, calls>>
       \/ /\ ~ResultsEqual(saved, results) /\ calls % plan.tcnt # 0
          /\ CallTest(calls + 1) /\ UNCHANGED <<tstat, usr1, heard>>
       \/ /\ ~ResultsEqual(saved, results) /\ calls % plan.tcnt = 0
          /\ usr1' = TRUE /\ UNCHANGED <<tstat, heard>>
          /\ IF calls < plan.iterations * plan.tcnt THEN CallTest(calls + 1)
             ELSE tpc' = "clean" /\ UNCHANGED <<saved, calls>>
    /\ UNCHANGED <<lpc, test_pid, run, alarm, retries, left, ret, code>>
    /\ UNCHANGED <<stuck, doomed, shared, kids, bounds, masked>>

\* do_test_cleanup(): tst_brk(TBROK) there is a TWARN, and the cleanup goes on.
CleanReports(f) == /\ TestAt("clean")
                   /\ Count(f) /\ heard' = heard \cup Lasting(f)
                   /\ UNCHANGED <<libvars, testvars, timeout, kids, nint, masked>>

TestExits == /\ TestAt("clean")
             /\ TestEnds(tstat, kids)
             /\ masked' = (masked \/ (tstat = {"CONF"} /\ \E k \in Kids : Broken(k)))
             /\ UNCHANGED <<libvars, shared, bounds, heard>>

\* A signal that is not SIGKILL ends it.
TestCrashes == /\ tpc \in {"setup", "test", "reap", "clean"} /\ ~stuck
               /\ TestEnds({"SIGNAL"}, kids) /\ heard' = heard \cup {"BROK"}
               /\ UNCHANGED <<libvars, shared, bounds, masked>>

\* The kernel hangs in a system call of the test.
GetsStuck == /\ CanStick /\ TestAt("test")
             /\ stuck' = TRUE
             /\ UNCHANGED <<libvars, tpc, tstat, saved, calls, doomed>>
             /\ UNCHANGED <<shared, kids, bounds, history>>

\* It comes back, and meets the SIGKILL that waited for it.
ComesBack ==
    /\ stuck /\ TestLives
    /\ \/ /\ doomed
          /\ tpc' = "zombie" /\ tstat' = {"KILL"} /\ kids' = Orphaned(kids, FALSE)
          /\ saved' = NoResults /\ calls' = 0 /\ heard' = heard \cup {"BROK"}
       \/ ~doomed /\ UNCHANGED <<tpc, tstat, saved, calls, kids, heard>>
    /\ stuck' = FALSE /\ doomed' = FALSE
    /\ UNCHANGED <<libvars, shared, bounds, masked>>
-----------------------------------------------------------------------------
(* The children *)

KidReports(k, f) ==
    /\ kids[k].st = "run" /\ Count(f)
    /\ heard' = IF TestLives /\ k \in Mine THEN heard \cup Lasting(f) ELSE heard
    /\ UNCHANGED <<libvars, testvars, timeout, kids, nint, masked>>

\* exit(0) by returning from the test function, tst_brk(), exit() with another
\* value, or a signal.
KidEnds(k, s) ==
    /\ kids[k].st = "run"
    /\ kids' = Orphaned([kids EXCEPT ![k].st = "zombie", ![k].out = s], TestLives)
    /\ heard' = IF TestLives /\ k \in Mine /\ Bad(s) THEN heard \cup {"BROK"} ELSE heard
    /\ UNCHANGED <<libvars, testvars, shared, bounds, masked>>

\* setsid(): the group is left behind.
KidLeaves(k) ==
    /\ kids[k].st = "run" /\ kids[k].grp # 0
    /\ kids' = [kids EXCEPT ![k].grp = 0]
    /\ UNCHANGED <<libvars, testvars, shared, bounds, history>>
-----------------------------------------------------------------------------
Library == SetTimeout \/ Fork \/ ForkFails \/ Assign \/ Waitpid \/ Reaped \/ Exit

Test == \/ ResetSignals \/ Setpgid \/ Start \/ SetupTimeout \/ SetupDone
        \/ TestReturns \/ ChildrenReaped \/ TestExits \/ TestCrashes
        \/ GetsStuck \/ ComesBack
        \/ \E f \in {"PASS", "FAIL", "WARN", "CONF"} : Report(f) \/ CleanReports(f)
        \/ \E f \in {"BROK", "CONF"} : TestBreaks(f)
        \/ \E k \in Kids : ForkKid(k) \/ ReapChild(k)

KidValues == {{}, {"FAIL"}, {"BROK"}, {"CONF"}, {"SIGNAL"}}
Kid(k) == \/ \E f \in {"PASS", "FAIL", "WARN", "CONF"} : KidReports(k, f)
          \/ \E s \in KidValues : KidEnds(k, s)
          \/ KidLeaves(k)

\* What happens after the end of the library process is not followed.
Over == Ended /\ UNCHANGED vars

Next == \/ /\ ~Ended /\ UNCHANGED plan
           /\ \/ Library \/ Test \/ (\E k \in Kids : Kid(k))
              \/ AlarmHandler \/ HeartbeatHandler \/ Interrupt
        \/ Over

Spec == Init /\ [][Next]_vars

\* The library process is scheduled, gets its signals, and time passes.  Of the
\* test and of its children nothing is expected.
FairSpec == Spec /\ WF_vars(~Ended /\ UNCHANGED plan /\ Library)
                 /\ WF_vars(HeartbeatHandler /\ UNCHANGED plan)
                 /\ WF_vars(AlarmHandler /\ UNCHANGED plan)
-----------------------------------------------------------------------------
KidTypes == [st : {"none", "run", "zombie", "gone"}, grp : Nat, par : Nat,
             out : KidValues]

TypeOK ==
    /\ lpc \in {"arm", "fork", "assign", "wait", "reaped", "cleanup",
                "exited", "unclean", "killed"}
    /\ test_pid \in Nat \cup {-1} /\ run \in Nat
    /\ alarm \in BOOLEAN /\ usr1 \in BOOLEAN /\ retries \in 0 .. MaxRetries + 1
    /\ plan \in Plans /\ left \in Int \X Int /\ ret \subseteq Flags /\ code \subseteq Flags
    /\ results \in [Counters -> Nat] /\ saved \in [Counters -> Nat]
    /\ timeout \in BOOLEAN /\ stuck \in BOOLEAN /\ doomed \in BOOLEAN
    /\ tpc \in {"none", "forked", "dfl", "start", "setup", "test", "reap",
                "clean", "zombie"}
    /\ tstat \in (SUBSET Flags) \cup Deaths /\ calls \in Nat
    /\ kids \in [Kids -> KidTypes] /\ nrep \in Nat /\ nint \in Nat
    /\ heard \subseteq {"FAIL", "BROK", "WARN"} /\ masked \in BOOLEAN

\* Which process exists when, and what the library knows of it.
Phases ==
    /\ lpc \in {"arm", "fork", "cleanup", "exited"} => tpc = "none"
    /\ lpc = "reaped" => tpc = "zombie"
    /\ tpc # "none" => run > 0
    /\ lpc \in {"assign", "wait", "reaped"} => run > 0
    /\ lpc \in {"wait", "reaped"} => test_pid = run
    /\ ~Ended => retries <= MaxRetries
    /\ lpc \in {"arm", "fork", "reaped", "cleanup"} => ~usr1
    /\ lpc = "cleanup" /\ alarm => test_pid = -1
    /\ lpc = "arm" => ~alarm
    /\ test_pid = 0 /\ ~Ended => \/ lpc \in {"arm", "fork"} /\ run = 0
                                 \/ lpc = "assign" /\ run = 1

\* What may be missing in the exit value: the break of a child nobody waited for.
Unheard == IF masked \/ plan.iterations = 0 THEN {"BROK"} ELSE {}

\* Where a break is before do_exit() has seen it.
BreakKnown ==
    \/ masked \/ plan.iterations = 0
    \/ tpc \in {"clean", "zombie"} /\ tstat \in {{"BROK"}} \cup Deaths
    \/ TestLives /\ \E k \in Kids : Broken(k)
    \/ lpc \in {"cleanup", "exited"} \/ Ended

\* What was heard is on its way to the exit value.
Carried ==
    /\ \A c \in Counters : saved[c] <= results[c]
    /\ "FAIL" \in heard => results["failed"] > 0
    /\ "WARN" \in heard => results["warnings"] > 0
    /\ "BROK" \in heard => BreakKnown
    /\ lpc \in {"cleanup", "exited"} =>
           /\ heard \ code \subseteq Unheard
           /\ code = {} /\ plan.iterations > 0 => results["passed"] > 0

\* The status of the test process, and what one that ends with 0 has done.
Earned ==
    /\ tpc \notin {"clean", "zombie"} => tstat = {}
    /\ tpc = "clean" => tstat \in {{}, {"BROK"}, {"CONF"}}
    /\ plan.iterations > 0 /\ tpc \in {"clean", "zombie"} /\ tstat = {} =>
           /\ \E c \in Counters \ {"warnings"} : results[c] > 0
           /\ \A k \in Kids : kids[k].par # run

(* The inductive invariant of the run: the types; the library knows the pid *)
(* it kills, takes no heartbeat and no timeout after waitpid(), and counts  *)
(* its attempts; every report is in a counter, in a child to be waited for  *)
(* or in a status that do_exit() will see; with at least one iteration, a   *)
(* status 0 was earned by a result, with all children reaped.               *)
RunInv == TypeOK /\ Phases /\ Carried /\ Earned

(* Every failure and warning reported while the test process lived, and     *)
(* every way in which that process or a child of it broke meanwhile, is in  *)
(* the exit value: through the shared counters, the status of a child, that *)
(* of the test process, variants and file systems (tst_reap_children,       *)
(* fork_testrun, do_exit).  A break of a child is lost in two cases only:   *)
(* the test process ends with TCONF, its own or that of another child,      *)
(* before it has waited for the broken one; or -i 0 makes testrun() call no *)
(* test function, and so wait for nobody.                                   *)
HeardShows == lpc = "exited" => heard \ code \subseteq Unheard

(* If a test function is called at all, the library exits with 0 only if    *)
(* something passed: a test that reports nothing, or only skips, in every   *)
(* variant and iteration never looks like a success (run_tests, do_exit).   *)
(* With -i 0 nothing is run and the exit value is 0 (testrun).              *)
ZeroMeansPassed ==
    lpc = "exited" /\ code = {} /\ plan.iterations > 0 => results["passed"] > 0

(* A test process that ends with 0 leaves no child of its setup() or of a   *)
(* test function behind (run_tests calls tst_reap_children before it        *)
(* believes the results), provided there is an iteration.                   *)
NoSurvivors == plan.iterations > 0 /\ tpc = "zombie" /\ tstat = {} =>
                   \A k \in Kids : kids[k].par # run

(* No timeout strikes during the cleanup of the library: alarm(0) comes     *)
(* after the last heartbeat.  The exception is a fork() that failed.        *)
QuietCleanup == lpc = "cleanup" /\ alarm => test_pid = -1

(* A timeout makes the library kill its own group (alarm_handler with       *)
(* test_pid = 0), and with it whoever started the test, at one moment only: *)
(* while its first fork_testrun() has set the alarm and not yet stored the  *)
(* pid.  In every later variant and file system the handler finds the pid   *)
(* of an earlier test process there.  Otherwise only a SIGINT kills the     *)
(* library, and only outside fork_testrun().                                *)
OwnGroupSpared ==
    [][lpc' = "killed" => \/ lpc = "killed"
                          \/ lpc \in {"fork", "assign"} /\ run <= 1 /\ test_pid = 0
                          \/ lpc \in {"arm", "cleanup"} /\ nint' > nint]_vars

(* With a timeout the library process ends, however its test and its        *)
(* children behave, and even if the kernel does not let them die.           *)
Terminates == plan.timeout => <>Ended

(* What the guidelines say of tst_reap_children(): it waits for all         *)
(* children and ends the test with TBROK if one of them returned TBROK.     *)
ReapReportsBroken ==
    [][tpc = "reap" /\ tpc' = "clean" /\ (\E k \in Zombies : kids[k].out = {"BROK"})
           => tstat' = {"BROK"}]_vars
=============================================================================
