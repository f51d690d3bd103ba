# A TLA+ verification project for eDDTs

eDDTs (Embedded Device Driver Test Suite) is LTP 20200120 plus
`testsuite/`, a set of device driver tests for two boards.  Its correctness is
the correctness of a *test harness*: a verdict must reach the operator, a test
must not outlive its driver, a hung test must be killed, and two racing threads
must really meet.  All of that is concurrency between processes, signals,
threads and files, and almost none of it is reached by the repository's tests.

## 1. Inventory

| Part | Source | What it does |
|---|---|---|
| ltp-pan | `ltp/pan/ltp-pan.c` | test driver: starts the commands of a scenario file in slots, one process group each; reaps them, logs verdicts, forwards signals through a ratchet, kills orphaned groups |
| zoo | `ltp/pan/zoolib.c`, `.h` | the active file shared by all zoo tools: one line per running process, a freed line starts with `#`, an `fcntl` lock |
| ltp-bump | `ltp/pan/ltp-bump.c` | signals a tag found in the active file; drops the entry of a dead process |
| new test library | `ltp/lib/tst_test.c` | library process / test process pair, timeouts, heartbeats, shared results, iterations, variants, setup and cleanup |
| old test library | `ltp/lib/tst_res.c` | result flags, `tst_exit`, `tst_brkm`; used by every eDDTs test |
| fuzzy sync | `ltp/include/tst_fuzzy_sync.h` | two threads meeting at a spinning rendezvous to provoke kernel races |
| checkpoints | `ltp/lib/tst_checkpoint.c` | futex wait/wake between a test's processes |
| devices, mounts, temporary directory | `ltp/lib/tst_device.c`, `tst_tmpdir.c` | loop devices, mounts and directories acquired for a test |
| saved configuration | `ltp/lib/tst_sys_conf.c`, `tst_wallclock.c` | sysctl values and clocks saved and restored around a test |
| eDDTs device tests | `testsuite/*/*_test/*.c` | RTC, watchdog, GPIO, EEPROM, NOR flash, DMA, temperature, SPI, I2C, Ethernet, audio, USB, CPU |
| safe macros | `ltp/lib/safe_*.c`, `tst_safe_macros.c` | one system call each, and a broken test when it fails |
| log scanner | `ltp/pan/ltp-scanner.c`, `scan.l`, `reporter.c`, ... | prints a table from a finished log |
| shell library, runltp, scenario files | `ltp/testcases/lib/*.sh`, `ltp/runltp`, `ltp/runtest/` | shell tests, and the command line of ltp-pan |
| LTP test cases | `ltp/testcases/` | over a thousand programs that exercise a kernel |

How they interact: `runltp` writes a command file and starts **ltp-pan**, which
registers itself in the **active file**, runs each command as a child in a
process group of its own, registers that too, and logs one verdict for it.
**ltp-bump** finds an ltp-pan in the active file and signals it.  A command is a
program linked with the **old or the new test library**; its exit status is what
ltp-pan makes the verdict from.  The **new test library** is two processes: one
prepares **devices, mounts, directories and saved configuration**, forks the one
that runs the test, kills it when its time is over and cleans up.  Inside a test,
**fuzzy sync** brings two threads together and **checkpoints** its processes.

## 2. Modules

| Module | What it is |
|---|---|
| `RendezvousSpec` | abstract: a two-party rendezvous, arrivals and departures only |
| `PairWait` | `tst_fzsync_pair_wait()`, one action per atomic access |
| `FuzzySync` | a test built on it: `pair_reset`, `run_a/b`, `start/end_race_a/b`, `pair_cleanup` |
| `MCFuzzySync` | instance for TLC |
| `FuzzySyncProofs` | theorems about `PairWait` with any callers, and about `FuzzySync` |
| `Ratchet` | `wait_handler()` of ltp-pan: which signal is sent on after which |
| `Pan` | one ltp-pan with the processes it starts; extends `Ratchet` |
| `MCPan` | instances for TLC |
| `PanProofs` | the inductive invariant of `Pan`: types, one lemma per action, theorems; the brakes (`-A`) and the exit status (`-e`) |
| `RegistrySpec` | abstract: a register of processes |
| `Zoo` | the active file with several ltp-pans and ltp-bumps on it |
| `MCZoo` | instances for TLC |
| `ZooSteps`, `ZooProofs` | the inductive invariant of `Zoo`: counting lines and the steps of `zoolib.c`; those of the tools, and theorems |
| `Checkpoint`, `MCCheckpoint` | `tst_checkpoint_wait()` and `_wake()` over a futex; instance |
| `CheckpointProofs` | theorems about `Checkpoint` |
| `TstTest`, `MCTstTest` | library process, test process and its children; instances |
| `TstTestProofs` | theorems about `TstTest` |
| `TestEnv`, `MCTestEnv` | what `do_setup()` acquires and `do_cleanup()` gives back, for several tests on one machine; instances |
| `TestEnvSteps`, `TestEnvProofs` | the inductive invariant of `TestEnv`: one lemma per action, theorems |

Definitions whose comment begins with *Mutant* are deliberate variants of the
definition that follows them.  They take no part in any specification; replacing
the definition by its variant must make the property named in `PROJECT.json`
fail, which shows that the property depends on that part of the code.

### Fuzzy sync

`PairWait` has the two counters of the code (`cntr[A]` is `a_cntr`, incremented
by B, and the other way round), a place in the function per thread and the value
its last load returned.  The comparison `load(our) < load(other)` is two actions,
as it is two atomic loads.  `arr` and `dep` are history variables that count
calls begun and calls returned from.  `FuzzySync` adds what the callers do
between two waits: `exit`, `exec_loop`, `sampling` and `delay` are fields of
`struct tst_fzsync_pair`; `delay` is represented by the iteration it was computed
in, the statistics behind it and the time limits are nondeterministic.  A raced
system call is not modelled.  `tst_brk()` may happen in thread A wherever A is
outside `pair_wait`, and may be followed by a new `pair_reset()`, which calls
`pair_cleanup()` itself; the cancellation of B takes effect anywhere, since its cancel
type is asynchronous.  `wrap_run_b` lives in a block of `pair_reset()`; reading
it after that call has returned gives any value (`FrameIntact` = FALSE) or,
where the run is about something else, the old one.

### ltp-pan

`Pan` follows `main()`'s scheduling loop, `run_child()`, `propagate_signal()`,
`check_pids()`, `check_orphans()` and `wait_handler()`.  `pc` tells where ltp-pan
is; the actions are cut where another process or a signal can make a difference:

| `pc` | Code | Actions |
|---|---|---|
| `fill` | inner `while` of the scheduler | `Fork`, `StartFails`, `Abort`, `LeaveFill` |
| `errpipe` | `read(errpipe[0])` in `run_child` | `ReadEof`, `ReadError`, `InterruptRead` |
| `execwait` | `waitpid(cpid)` in `run_child` | `Waitpid`, `InterruptWaitpid` |
| `signal` | test of `rec_signal` | `NoSignal`, `StopScheduler`, `Propagate` |
| `propagate`, `propagated` | `propagate_signal`, slot by slot, then the orphans | `KillSlot`, `KillOrphans`, `PropagateEnd` |
| `check`, `wait`, `reaped` | `check_pids` | `Check`, `WaitReap`, `WaitNone`, `InterruptWait`, `RecordSlot`, `RecordStray` |
| `loop` | end of the loop body | `LoopEnd` |
| `orphans` | the hunt after the loop | `HuntOrphans`, `Exit` |

`Signalled` delivers a signal between any two of these.  The handlers are
installed without `SA_RESTART`, so a blocked call fails with `EINTR`: the three
`Interrupt...` actions.  An interrupted `read()` returns -1, which the code takes
for the length of an error report; the store behind it may or may not crash
ltp-pan, and the status of an interrupted `waitpid()` is uninitialized, so both
are nondeterministic.  The two stores of `rec_signal = send_signal = 0` are one step.  `Exec`, `ExecFails`, `TestEnds`, `Spawns` and `KidsEnd`
are the processes; `BumpClears` is an ltp-bump on the same active file.  Only
SIGKILL is certain to end a process.  History variables: `owed` (forked minus
logged), `stray`, `leaked`, `failed`, `unstarted`, `braked`, `nsig`.

Left out: option and file parsing, `%f` substitution, the contents of the log,
output capture, the choice of the command to run (random or sequential), and a
`kill()` that fails with EPERM: the group of a command that changed its user
would stay in the list of orphans and the hunt would not end, so `OrphansKilled` is
about commands ltp-pan may signal.

### The active file

`Zoo` has the file as a sequence of lines, the `fcntl` lock, and per tool the
operation it is in (`lock`, `scan`, `write`).  The actions of an ltp-pan are its
calls of `zoo_mark_cmdline()` and `zoo_clear()` in program order: itself, the
spare lines with "pids" 0, 1, ..., their clearing, its commands and orphans.  An
ltp-pan may be killed anywhere; the kernel then drops its lock and its lines stay.
Tags are compared whole, where `zoo_getpid()` compares a prefix, and an ltp-bump
looks for the tag of an ltp-pan, not for that of a command.  `kill()` finds a
process for the spare numbers 0 and 1; a higher one may be nobody's, and ltp-bump
would then clear that spare line, which is left out.  Failures of `fseek()`, `fcntl()` and `fprintf()` are
left out; some of them return with the lock held, so `AllLeave` is about a file
system that works.

`Pan` and `Zoo` see the same calls from two sides: `Pan` treats an operation on
the file as one step, and `Zoo` shows (`RegisterImplemented`) that with any number
of tools on the file this is what it amounts to.

### Checkpoints

`Checkpoint` has the local variables of a call in each process (`waked`, `msecs`,
`nr_wake`) and where it is: about to call FUTEX_WAIT, asleep, woken, about to call
FUTEX_WAKE, comparing.  The kernel's queue is the set of those asleep on an id.  A
signal sends a sleeper back to before FUTEX_WAIT, where a wake misses it.  History:
`woke` (which call ended which wait), `passed`, `returned`.

### The test run

`TstTest` follows `fork_testrun()`, `testrun()`, `run_tests()`,
`tst_reap_children()`, `run_tcases_per_fs()`, `tst_run_tcases()`, `do_exit()` and
the three signal handlers.  `fork()` and the assignment to `test_pid` are two
steps, as are the child's change of handlers and its `setpgid()`: a signal may
come in between.  An exit value is the set of its flags.  A process the kernel
hangs in survives SIGKILL until it comes back.  Time is left out: an alarm that is
set may fire at any moment.  `do_setup()` is over when the module begins, and
`do_cleanup()` is one step.  A child may be forked in `setup()` or in a test
function.  A plan says how many variants, file systems, iterations and test
functions there are; the iterations may be 0, as `-i` is an unchecked `atoi()`
(`tst_test.c:547`).  History: `heard` (the failures, warnings and breaks of
the test process, and those its children reported while it lived) and `masked` (a
test process ended with TCONF before it had waited for a child that had broken).

### Setup and cleanup

`TestEnv` takes the other side: `fork_testrun()` is its step `test`, and
`do_setup()` and `do_cleanup()` are followed call by call, for several library
processes that share the loop devices, a configuration file and the clock.  The
record `lib[t]` has the static variables the code keeps (`device_acquired`,
`mntpoint_mounted`, `ovl_mounted`, `TESTDIR`, `clock_saved`, ...); `backing`,
`mounted`, `ovl`, `dir`, `shm`, `conf` and `clock` are the system.  Every step may
fail where the code provides for it.  `tst_brk()` in the library process is
`do_exit()`, also inside `do_cleanup()`, where it begins again; `MaxDepth` such
calls fill the stack (`crashed`).  A file or the clock is represented by who set it
last.  A LOOP_CLR_FD on a device in use may make the kernel detach it later
(`AutoClear`).  History: `stuck` (refused a umount, LOOP_CLR_FD or
LOOP_SET_STATUS), `kept` (directory or `/dev/shm` file not removed), `denied` (could not write back), `robbed` (lost its device to
another test), `mixed` (saved what another test had not restored).

## 3. Runs

Passing runs:

| Run | Instance | Checks |
|---|---|---|
| `fzsync` | INT_MAX 2, 3 loops, 2 resets, fairness | `FuzzyInv` (inductive), `Rendezvous`: no thread leaves a wait the other has not entered as often; `SameIteration`: B reads only what A published for the iteration B is in; `RaceTogether`: while one thread executes its raced call the other is in the same race; `SpinsNotRaced`; `RendezvousImplemented` (refinement); `Terminates` |
| `pan_laws` | 2 slots, 3 pids, 3 commands, `-A -e -S`, 2 signals (INT, USR2), failing forks and execs | `ActiveLaw`, `VerdictLaw`, `ZooTracks`, `CleanExit`, `SlotAvailable`, `FailureShows`, `BrakesHold`, and the inductive `PanInv` |
| `pan_idle` | 2 slots, 3 pids, 3 starts, `-y`, 2 signals (of INT, USR1), an ltp-bump | `PanInv` where the scheduler goes idle, resumes and aborts, and where the file is changed behind its back |
| `pan_hunt` | 1 slot, 2 pids, `-t -y`, 2 signals (of HUP, ALRM, USR1, INT), an ltp-bump, fairness | `OrphansKilled`: from every state of the ratchet the hunt reaches SIGKILL |
| `zoo_share` | 2 ltp-pans that may be killed, 1 ltp-bump, 1 command, fairness | `Registered`, `NoWaste`, `RegisterImplemented` (refinement), `AllLeave`, and the inductive `ZooInv` |
| `checkpoint` | 3 processes, 1 checkpoint and an id out of range, 2 calls each, `nr_wake` 1 or 2, 1 signal, fairness | `WakeExact`, `OneWakeEach`, `GaveUpShort`, `EveryCallReturns`, and the inductive `CheckpointInv` |
| `tst_run` | five plans (2 variants; 2 file systems; 2 functions in 2 iterations; no timeout; `-i 0`), 1 child, 2 reports, 1 SIGINT, hangs, failing fork, fairness | `HeardShows`: what was reported while the test process lived is in the exit value; `ZeroMeansPassed`: 0 only if something passed; `NoSurvivors`: a test process that ends with 0 has waited for its children; `QuietCleanup`; `OwnGroupSpared`: where a timeout can hit the library itself; `Terminates`; and the inductive `RunInv` |
| `test_env` | 2 tests, each of four kinds (2 file systems; overlay and clock; read-only and checkpoints; a saved file), 1 device, fairness | `NothingLeft`, `DeviceIsMine`, `RestoredAlone`, `EveryTestEnds`, and `EnvInv`, which ties the flags to the system |

What the properties of `tst_run` do not say: `HeardShows` excepts the break of a
child nobody waits for, because a TCONF ends the test process first or because
there is no iteration.  With `-i 0` the exit value is 0 though no test function was
called; `ZeroMeansPassed` and `NoSurvivors` are about one iteration or more.
`OwnGroupSpared` excepts one window: in the first `fork_testrun()`, between the
alarm and the stored pid, a timeout kills the group of the library itself.
`QuietCleanup` excepts a `fork()` that failed.

What the properties of `test_env` do not say: `NothingLeft` excepts a test in
`stuck` or `kept`, `DeviceIsMine` one in `robbed`, and `RestoredAlone` tests that overlap,
were denied a write or crashed.  Those cases do happen.  Three are faults of the
code rather than of the kernel: after a failed LOOP_SET_STATUS the file stays
attached, since `device_acquired` is still 0; after a failed umount
`run_tcases_per_fs()` clears `mntpoint_mounted` all the same; and a retried
LOOP_CLR_FD may detach the file of another test.  `EveryTestEnds` has every test
exit by the last step of its cleanup, and lets only an overlay that cannot be
unmounted end in a crash before it.

Runs that are expected to fail, each with one property taken from the
documentation (quoted in `PROJECT.json` under `findings`):

| Run | Property | What the counterexample shows |
|---|---|---|
| `fzsync_frame` | `RunsGivenFunction` | `pair_reset()` returns before thread B has copied `wrap_run_b` from its frame |
| `pan_escape` | `AllDead` | one signal in `read(errpipe)`: the -1 is taken for an error report, so the running command counts as not started; `waitpid()` reaps it, nobody looks for the rest of its group, and that outlives ltp-pan |
| `pan_lost` | `SignalPropagated` | a signal between the test of `rec_signal` and `wait()` is not acted on until a test ends by itself |
| `env_ovl` | `ConfRestored` | the overlay cannot be unmounted (busy, or the test did it itself): `SAFE_UMOUNT` in `do_cleanup()` calls `do_exit()` and so `do_cleanup()` again, with `ovl_mounted` still set; the saved file is never restored |

Further configurations, not part of the regular runs.  Each ends in the violation
named:

| Configuration | Property | What it shows |
|---|---|---|
| `Pan_bump.cfg` | `AllDead` | ltp-bump clears the line of a test that was just reaped, `zoo_clear()` returns its warning 1 and ltp-pan exits with other tests running |
| `Pan_wrap.cfg` | `FailureShows` | 256 failures: the exit status is 0 |
| `Pan_execfail.cfg` | `UnstartedShows` | a command that cannot be executed is logged as FAIL and does not count |
| `Zoo_bump.cfg` | `BumpFindsTool` | ltp-bump takes the "pid" 0 of a spare line that carries the tag it looks for |
| `TstTest_reap.cfg` | `ReapReportsBroken` | of two children that have ended `wait()` returns the one with TCONF first and the TBROK of the other is lost; `doc/test-writing-guidelines.txt:699` has TBROK end the whole test |
| `TestEnv_steal.cfg` | `UsesOwnDevice` | the retries of `tst_detach_device()` detach the file another test has just attached |

A further observation, which no document contradicts: a second signal, in the
`waitpid()` behind that `read()`, leaves the child itself behind.  Reaping it later
as a stray takes `num_active` to -1, and neither the loop nor, with `-y`, the idling
that ends at `num_active == 0` then comes to an end.

**Bounds.** `IntMax` = 2 makes the counters wrap every other call, so three
iterations of three waits each cross the wrap-around in every phase; the proof
removes the bound.  Two slots and three pids are the least with a second test
running while a first is reaped and a third has escaped; one signal is enough to lose the group of a
child (`pan_escape`) and two are the least that lose the child itself (one for
`read`, one for `waitpid`) and three commands
the least with a start after both slots have been used.  The ratchet needs up to
four self-sent signals to reach SIGKILL; `HuntOrphans` is not bounded.  Pids are
symmetric.  Two ltp-pans and one ltp-bump make each operation on the file
compete with each other one; one slot gives each ltp-pan the spare "pid" 0,
which is the one they share.  Three processes are the least with one waiter too
many for a wake and with two wakes on one checkpoint.  The retries (10 SIGKILLs, 50
umounts, 40 LOOP_CLR_FDs) are cut to one or two: what matters is that there is
another one and that they end.  Two tests and one device make every acquisition
compete; a depth of 2 has a cleanup inside a cleanup.  `pan_laws` has far fewer
commands than the 256 failures at which `exit_stat` wraps; that is `Pan_wrap.cfg`.
`pan_laws` and `pan_escape` have no ltp-bump, so what one does to a reaped test is
seen in `Pan_bump.cfg` only.  One child of a test is enough for its break to be lost
behind the TCONF of the test process; two children that compete are in
`TstTest_reap.cfg`, and the proofs have any number.

**Fairness.** `FuzzySync`: both threads are scheduled and a cancellation is
delivered; nothing obliges the test to break off.  `Pan` (`Scheduled`): ltp-pan
is scheduled, and a forked child gets as far as its exec; neither tests nor
orphans have to end, so `OrphansKilled` rests on SIGKILL alone.  `Zoo`: each tool
is scheduled, and its commands end some time.  The lock needs no strong
fairness: no tool asks for it infinitely often.  `Checkpoint`: processes in a call
are scheduled and time passes; nobody has to make another call.  `TstTest`: the
library process is scheduled, its pending signals are handled and its alarm goes
off; nothing is expected of the test or its children, and the number of reports and
heartbeats is finite.  `TestEnv`: each library process is scheduled, and each test
ends, which is what `Terminates` of `TstTest` gives it.

Deadlock is checked in all of them; `Terminated` and `Done` are the stuttering
steps of a program that has ended.

## 4. Proofs

| Theorem | For all values of the constants |
|---|---|
| `PairWaitInv`, `PairWaitRendezvous`, `PairWaitRefines` | `pair_wait()` with any callers: `WInv`, `Rendezvous`, and `WSpec` implements `RendezvousSpec` |
| `FuzzyInvariant`, `FuzzyTypes` | `Spec => []FuzzyInv` of `FuzzySync`, and its types |
| `ReadsOwnIteration`, `SpinsUnshared` | `SameIteration`, `SpinsNotRaced`: no plain field of the pair is read out of its iteration or written twice at once |
| `RacesTogether` | `RaceTogether`: the two raced calls belong to the same iteration, however often the counters wrap |
| `TestRendezvous`, `TestRefines` | `Rendezvous`, and the whole test implements `RendezvousSpec` |
| `PanInvariant`, `PanTypes` | `Spec => []PanInv`, and the types |
| `ActiveCounts`, `OneVerdictEach` | `num_active` and the verdicts, always |
| `ActiveFileTracks` | without an ltp-bump the active file is exact |
| `LeavesNothing`, `AlwaysASlot` | unless a child escaped: nothing is left at exit, a slot is always found |
| `Brakes` | with `-A` and without `-y` no command starts after a failure |
| `FailuresShow` | `FailureShows`, while fewer than 255 failures have been counted |
| `ZooInvariant`, `ZooTypes` | `Spec => []ZooInv` of `Zoo`, and its types |
| `LinesRegistered`, `FileNotWasted` | `Registered`, `NoWaste`, however many tools share the file and wherever they are killed |
| `ZooImplementsRegister` | `Spec` implements `RegistrySpec` |
| `CheckpointInvariant` | `Spec => []CheckpointInv` |
| `WakesAreExact`, `WaitsAreWoken`, `GivesUpShort` | wakes and waits match one to one |
| `RunInvariant` | `Spec => []RunInv` of `TstTest` |
| `ReportsShow`, `SuccessIsEarned`, `ChildrenAwaited`, `CleansUpInPeace` | the exit value, and what has ended before it |
| `LibrarySpared` | the action property `OwnGroupSpared` |
| `EnvInvariant` | `Spec => []EnvInv` of `TestEnv` |
| `ExitsClean`, `DevicesOwned`, `RestoresAlone` | nothing is left, whose file is on a device, file and clock are restored |

*Assumptions.* `PairWait`: two distinct threads, `IntMax >= 2`.  `FuzzySync`: at
least one iteration; the numbers of samples and of restarts are arbitrary.  `Zoo`:
finitely many ltp-pans, at least one slot; ltp-pans, ltp-bumps and commands are
different processes, and none of their pids is one of the numbers below
`keep_active` that ltp-pan writes on its spare lines (the kernel gives such low pids
to its first processes only); a recycled line is not a marked one.  `Pan`: at least
one slot and one command, finitely many pids, `-A` implies `-e` (as the option
parser sets it), SIGINT and SIGTERM are among the handled signals.  `TestEnv`: a test for all
file systems has a device (`do_setup()` sets `needs_device`) and, as in all tests of
the repository, no overlay; there is at least one try and one level of cleanup.
The numbers of tests and devices are arbitrary.  `TstTest`: every plan has at least
one variant and one test function; file systems, iterations, retries, children,
reports and interrupts are arbitrary in number, 0 included.  `HeardShows` has no
further hypothesis; `ZeroMeansPassed` and `NoSurvivors` name the one they have
(`iterations > 0`) in their statement.  Besides its ASSUME the module takes it that
the children are forked before `cleanup()`, that the kernel runs init as reaper of
orphans, and that only a hang of the kernel delays a SIGKILL.  Each module's
ASSUMEs are evaluated in its runs.

*`PairWait`.* `Rendezvous` speaks of arrivals, the code compares counters.  The
two agree except between the moments at which the two threads zero theirs;
`Epoch` says that in between one thread sits in the last loop with its counter at
0 while the other's is at INT_MAX, and both have arrived equally often.  The rest
of `WInv` says who may be ahead (by one call at most), and what a load already
done but not yet used still tells.

*`FuzzySync`.* `SameIteration` relates `exec_loop`, `delay` and B's own count of
iterations, and the code has nothing that ties them together but the rendezvous.
`PlaceOfA` and `PlaceOfB` say what a thread's place in the test tells about the
number of its calls: three in every iteration but the one it is in, and in that one
as many as it has passed.  `WInv` keeps the two numbers within one of each other, so
when B reads `exit` after its first call, or `delay` after its second, A cannot have
left the iteration.  `RaceTogether` is the same count read from both sides: a thread
in its raced call has been in `pair_wait()` 3n - 1 times, and of the numbers within
one of that only 3n - 1 and 3n, the race of iteration n and the wait that ends it,
fit a place of the other.  `OneSpins` says that of two threads in the same call only the
one that came first spins, which is one half of `SpinsNotRaced`; the other, that B
has left `end_race_b` when A clears `spins`, follows from the numbers of calls.  The
steps of `FuzzySync` within `pair_wait()` are steps of `PairWait`, all others leave
its variables alone or are its cancellation and restart, so the lemmas for `WSpec`
serve for the whole test.

*`Pan`.* `ActiveLaw` counts slots and `CleanExit` speaks of processes.  What links
them, and makes `PanInv` inductive: no pid has two slots or is in a slot and an
orphan at once; the child `run_child()` is busy with is in neither; and as long
as `leaked = 0` every live process is in a slot, in flight or in an orphaned
group.  `leaked` is counted at the two places where a child can escape.
`PanProofs` first proves the types and the effect of taking and freeing a slot on
the cardinality, then has a lemma per action that changes a table, adds signals and
processes and combines them.

*The brakes.* They are a signal ltp-pan sends itself; `BrakeInv` says that
until it is acted on it is noted in `rec_signal`, which keeps the scheduler from
filling, and from then on `stop` is set.

*The exit status.* `FailureShows` is not true without a bound, as `Pan_wrap.cfg`
shows.  `FailuresShow` has the bound as a hypothesis on the behaviour: the count has
never reached 255.  Then every failure was counted (`FailInv`), or ltp-pan gave up
while it looked at it.

*`Zoo`.* `Registered` compares the number of lines of a pid with the number of tools
that list it.  A tool counts a line as its own when its operation has written it, but
decides what to do next long before.  `Expected` is what it will have listed when the
operation is done, and `PanKnows` says what that is at every place of `main()`: itself
and the spare numbers so far, or what is left of them, or some of its commands.  So
an ltp-pan never marks what it has marked or clears what it has not, although it may
clear a spare line of another with the same number; the counts agree all the same.
`Locked` says that between its scan and its write a tool holds the lock, so the line
it found still matches and, when it found none, there still is none.  `NoWaste`
follows: the file grows only if no line is free.  `BumpKnows` says that an ltp-bump
clears only the line of an ltp-pan that is dead, and so in no operation of its own.
`ZooSteps` counts what marking and clearing a line does to the cardinalities and shows once
what a step must leave alone for the other tools; then there is a lemma per action.
For the refinement, a write is a mark or a clear of the register and every other step
leaves the number of lines of each pid as it is.

*`Checkpoint`.* `WakeExact` speaks of waits that ended, the code counts in a local
variable.  `InCall` says that the two agree as long as the call lasts, and that a
wait still asleep was ended by nobody; `PastCalls` that what happened belongs to
calls already made, so a new call starts with nothing to its name.

*`TstTest`.* `HeardShows` needs to know where a report is at each moment.  `Carried`
says that failures and warnings are in the counters, and that a break is in the
status of the test process until `do_exit()` has put it in the exit value.  `Earned`
says what stands behind a status 0 when there is an iteration, `BreakKnown` what
a child that broke can still do to the status, and `Phases` which process exists when and that
`test_pid` is the current run while the library waits, or an old one or 0 before
the new one is stored, which `LibrarySpared` needs.

*`TestEnv`.* `NothingLeft` speaks of the exit, and `do_cleanup()` decides by flags
that were set at other moments than the system changed.  `Noted` relates the two at
every step: each mount, overlay, directory and attached file has its flag, and the
cleanup has not passed it yet.  `Stage` says what is not acquired yet at each step,
so that a `tst_brk()` there finds flags that are right.  `Owned` follows the file on
a device, and `Alone` the saved values: while tests do not overlap, at most one has
something to restore, and it has the values of the beginning.  Every action changes
the record of one test; a lemma says once what it must leave alone for the others,
one says what `do_exit()` needs to find, and then there is a lemma per action.

Only model-checked: all liveness (`Terminates`, `OrphansKilled`, `AllLeave`,
`EveryCallReturns`, `EveryTestEnds`), which is out of reach of the prover.  Every
safety property and refinement that a passing run checks is also proved.

## 5. Not modelled

The repository has some 610,000 lines, and nearly all of them are LTP's test cases:
over a thousand programs, each about one system call of a kernel that is not part
of the repository, and with no state in common.  The modules cover the parts that
run and judge those programs, which are a small share of the lines.  Covering a
large share would take a model per test case, each a transliteration of a
sequence of system calls.

- *Device tests.*  Each is one sequential pass of system calls over one device, with
  a comparison at the end.  Reading them showed verdicts that look inverted, such as
  `rpi2evm/dma_test/dma_test.c:328`; that is seen in the text, not by a model.
- *Old test library.*  Result flags of one process and their printing.
- *Safe macros.*  One system call each; their `tst_brk()` is the failing branch of
  the actions above.
- *Shell library, runltp, scanner, tools.*  Text processing.
- *Within the modelled parts:* option parsing, logs and messages; in `TstTest` the
  clock of `-I` (a running time is some number of iterations), `tst_reinit()` and
  children forked in `cleanup()`; in `TestEnv` a device given with `LTP_DEV`,
  several saved files, variants, a `/dev/shm` that does not exist, and the ends of a
  library process that never get to `do_cleanup()`: the `_exit(TFAIL)` of
  `alarm_handler()` after its last retry, and a signal's default action.  After
  those everything acquired stays.
