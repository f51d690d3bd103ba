----------------------------- MODULE FuzzySync ------------------------------
(***************************************************************************)
(* A test written with ltp/include/tst_fuzzy_sync.h, as the header's       *)
(* introduction prescribes it:                                             *)
(*                                                                         *)
(*   thread A: pair_reset(run_b);                                          *)
(*             while (run_a()) { start_race_a(); ...; end_race_a(); }      *)
(*   thread B: while (run_b()) { start_race_b(); ...; end_race_b(); }      *)
(*                                                                         *)
(* Every call goes through pair_wait, which is module PairWait.  at[t] is  *)
(* the place thread t continues from once it is out of pair_wait.          *)
(***************************************************************************)
EXTENDS PairWait

CONSTANTS ExecLoops,    \* pair->exec_loops
          MinSamples,   \* pair->min_samples
          MaxResets,    \* bound: how often the test calls pair_reset
          FrameIntact   \* TRUE: nothing overwrites the dead frame of pair_reset
                        \* before thread B has copied wrap_run_b out of it

ASSUME LoopsAssumption == ExecLoops \in Nat \ {0} /\ MinSamples \in Nat /\ MaxResets \in Nat
ASSUME FrameAssumption == FrameIntact \in BOOLEAN

VARIABLES at,           \* control state of the two threads
          exit,         \* pair->exit
          exec_loop,    \* pair->exec_loop
          sampling,     \* pair->sampling
          delay,        \* pair->delay: the iteration it was computed in
          cancelled,    \* pthread_cancel(thread_b) was called
          loop_b,       \* history: iterations thread B has entered
          resets        \* history: calls of pair_reset

pvars == <<at, exit, exec_loop, sampling, delay, cancelled, loop_b, resets>>
vars == <<wvars, pvars>>

Init == /\ WInit
        /\ at = [t \in Threads |-> IF t = A THEN "reset" ELSE "none"]
        /\ exit = 0 /\ exec_loop = 0 /\ sampling = 0 /\ delay = 0
        /\ cancelled = FALSE
        /\ loop_b = 0 /\ resets = 0

\* Thread t is executing its own code, outside pair_wait, at place p.
Here(t, p) == Runs(t) /\ pc[t] = "out" /\ at[t] = p

Continue(t, p) == at' = [at EXCEPT ![t] = p]

\* tst_fzsync_pair_reset() after its call of pair_cleanup, up to and including the
\* creation of thread B.
PairReset ==
    /\ Here(A, "reset") /\ resets < MaxResets
    /\ Restart
    /\ at' = [at EXCEPT ![A] = "created", ![B] = "wrapper"]
    /\ sampling' = MinSamples
    /\ exec_loop' = 0 /\ delay' = 0 /\ exit' = 0
    /\ cancelled' = FALSE /\ loop_b' = 0 /\ resets' = resets + 1

\* pair_reset returns: the frame that holds wrap_run_b is gone.
PairResetReturn ==
    /\ Here(A, "created")
    /\ Continue(A, "run_a")
    /\ UNCHANGED <<wvars, exit, exec_loop, sampling, delay, cancelled, loop_b, resets>>

\* tst_fzsync_run_a() up to its wait: the time limits may ask for the exit and may
\* end the sampling, the loop limit asks for the exit when it is exceeded.
RunA ==
    /\ Here(A, "run_a")
    /\ exec_loop' = exec_loop + 1
    /\ \E timeout \in {0, 1} : exit' = IF exec_loop + 1 > ExecLoops THEN 1 ELSE timeout
    /\ sampling' \in IF sampling > 0 THEN {sampling, 0} ELSE {sampling}
    /\ Call(A)
    /\ Continue(A, "ran")
    /\ UNCHANGED <<delay, cancelled, loop_b, resets>>

\* tst_fzsync_pair_update(): the statistics decide whether the sampling goes on
\* and which delay the iteration gets.
PairUpdate ==
    /\ delay' = exec_loop
    /\ \/ sampling > 0 /\ sampling' = sampling - 1
       \/ sampling <= 0 /\ sampling' \in {sampling, -1}

\* run_a returns 1 and start_race_a() begins: update, then wait.
StartRaceA ==
    /\ Here(A, "ran") /\ exit = 0
    /\ PairUpdate
    /\ Call(A)
    /\ Continue(A, "race_a")
    /\ UNCHANGED <<exit, exec_loop, cancelled, loop_b, resets>>

\* The raced system call, then end_race_a().
EndRaceA ==
    /\ Here(A, "race_a")
    /\ Call(A)
    /\ Continue(A, "run_a")
    /\ UNCHANGED <<exit, exec_loop, sampling, delay, cancelled, loop_b, resets>>

\* Thread A leaves the loop by tst_brk() or by a break of its own.  pair_cleanup is
\* next: the one of the test's cleanup, or, if the test function is run again, the
\* one at the head of pair_reset.
Break ==
    /\ \E p \in {"run_a", "ran", "race_a"} : Here(A, p)
    /\ exit = 0
    /\ Continue(A, "cleanup_brk")
    /\ UNCHANGED <<wvars, exit, exec_loop, sampling, delay, cancelled, loop_b, resets>>

\* tst_fzsync_pair_cleanup(): ask thread B to exit if nobody has, ...
CleanupExit ==
    /\ Here(A, "cleanup_brk") /\ exit = 0
    /\ exit' = 1
    /\ Continue(A, "cancel")
    /\ UNCHANGED <<wvars, exec_loop, sampling, delay, cancelled, loop_b, resets>>

\* Mutant: nobody cancels thread B.
CleanupNoCancel ==
    /\ Here(A, "cancel")
    /\ Continue(A, "join_brk")
    /\ UNCHANGED <<wvars, exit, exec_loop, sampling, delay, cancelled, loop_b, resets>>

\* ... cancel it after a pause, ...
CleanupCancel ==
    /\ Here(A, "cancel")
    /\ cancelled' = TRUE
    /\ Continue(A, "join_brk")
    /\ UNCHANGED <<wvars, exit, exec_loop, sampling, delay, loop_b, resets>>

\* ... and join it.  run_a's own cleanup finds pair->exit set and only joins; that
\* of pair_reset goes on with the reset, that of the test ends it.
Join ==
    /\ ~alive
    /\ \/ Here(A, "ran") /\ exit = 1 /\ Continue(A, "reset")
       \/ Here(A, "join_brk") /\ \E p \in {"reset", "end"} : Continue(A, p)
    /\ UNCHANGED <<wvars, exit, exec_loop, sampling, delay, cancelled, loop_b, resets>>

\* The test returns.
Finish ==
    /\ Here(A, "reset") /\ ~alive /\ resets > 0
    /\ Continue(A, "end")
    /\ UNCHANGED <<wvars, exit, exec_loop, sampling, delay, cancelled, loop_b, resets>>

ThreadA == PairReset \/ PairResetReturn \/ RunA \/ StartRaceA \/ EndRaceA
           \/ CleanupExit \/ CleanupCancel \/ Join \/ Finish
-----------------------------------------------------------------------------
\* tst_fzsync_thread_wrapper(): *run_thread is a local variable of pair_reset.
\* Once that call has returned the copy may read whatever is on the stack.
ThreadWrapper ==
    /\ Here(B, "wrapper")
    /\ \/ Continue(B, "run_b")
       \/ at[A] # "created" /\ ~FrameIntact /\ Continue(B, "wild")
    /\ UNCHANGED <<wvars, exit, exec_loop, sampling, delay, cancelled, loop_b, resets>>

\* tst_fzsync_run_b() up to its wait
RunB ==
    /\ Here(B, "run_b")
    /\ loop_b' = loop_b + 1
    /\ Call(B)
    /\ Continue(B, "load_exit")
    /\ UNCHANGED <<exit, exec_loop, sampling, delay, cancelled, resets>>

\* return !tst_atomic_load(&pair->exit): leave the loop and the thread
ExitB ==
    /\ Here(B, "load_exit") /\ exit = 1
    /\ ThreadEnd
    /\ UNCHANGED pvars

\* Mutant: start_race_b does not wait.
StartRaceBNoWait ==
    /\ Here(B, "load_exit") /\ exit = 0
    /\ Continue(B, "delay_b")
    /\ UNCHANGED <<wvars, exit, exec_loop, sampling, delay, cancelled, loop_b, resets>>

\* ... or go on to start_race_b()
StartRaceB ==
    /\ Here(B, "load_exit") /\ exit = 0
    /\ Call(B)
    /\ Continue(B, "delay_b")
    /\ UNCHANGED <<exit, exec_loop, sampling, delay, cancelled, loop_b, resets>>

\* delay = pair->delay, the raced system call, end_race_b()
EndRaceB ==
    /\ Here(B, "delay_b")
    /\ Call(B)
    /\ Continue(B, "run_b")
    /\ UNCHANGED <<exit, exec_loop, sampling, delay, cancelled, loop_b, resets>>

\* The cancellation takes effect.
CancelB ==
    /\ cancelled
    /\ ThreadEnd
    /\ UNCHANGED pvars

ThreadB == ThreadWrapper \/ RunB \/ ExitB \/ StartRaceB \/ EndRaceB

WaitStep(t) == Step(t) /\ UNCHANGED pvars

Terminated == at[A] = "end" /\ UNCHANGED vars

Next == ThreadA \/ ThreadB \/ CancelB \/ Break \/ Terminated
        \/ \E t \in Threads : WaitStep(t)

Spec == Init /\ [][Next]_vars

\* The scheduler runs both threads; a cancellation is eventually delivered.
\* Nothing obliges the test to break.
Fairness == /\ WF_vars(ThreadA) /\ WF_vars(ThreadB) /\ WF_vars(CancelB)
            /\ \A t \in Threads : WF_vars(WaitStep(t))

FairSpec == Spec /\ Fairness
-----------------------------------------------------------------------------
TypeOK == /\ WTypeOK
          /\ at \in [Threads -> {"none", "reset", "created", "run_a", "ran", "race_a",
                      "cleanup_brk", "cancel", "join_brk", "end",
                      "wrapper", "wild", "run_b", "load_exit", "delay_b"}]
          /\ exit \in {0, 1}
          /\ exec_loop \in 0 .. ExecLoops + 1
          /\ sampling \in -1 .. MinSamples
          /\ delay \in 0 .. ExecLoops
          /\ cancelled \in BOOLEAN
          /\ loop_b \in 0 .. ExecLoops + 1
          /\ resets \in 0 .. MaxResets

\* Thread B only ever acts on what thread A published for the iteration B is in:
\* pair->exit and pair->delay are plain fields, written by A without a lock, and
\* it is the rendezvous alone that keeps A from running an iteration ahead of a B
\* that has yet to read them.
SameIteration ==
    /\ Here(B, "load_exit") => exec_loop = loop_b
    /\ Here(B, "delay_b") => delay = loop_b

\* pair->spins is a plain int that both threads increment in their end_race wait
\* and that A clears in start_race_a: the two never spin there at once, and A
\* never clears it under a B that is still inside end_race_b.
SpinsNotRaced ==
    alive => /\ ~ /\ \A t \in Threads : pc[t] \in {"spin", "wrap_spin"}
                  /\ at[A] = "run_a" /\ at[B] = "run_b"
             /\ ~ (Here(A, "ran") /\ exit = 0 /\ at[B] = "run_b")

\* What the library is for: while one thread executes its raced call, the other is
\* in the race of the same iteration, or in the wait that ends it.  Only a thread A
\* that broke off, and a thread B that runs something else, are elsewhere.
RaceTogether ==
    alive =>
      /\ Here(A, "race_a") /\ at[B] # "wild" =>
           loop_b = exec_loop /\ at[B] \in {"delay_b", "run_b"}
      /\ Here(B, "delay_b") /\ at[A] \notin {"cleanup_brk", "cancel", "join_brk"} =>
           loop_b = exec_loop /\ at[A] \in {"race_a", "run_a"}

\* Thread t is spinning, or will be once it has loaded the other counter.
Spinning(t) == \/ pc[t] \in {"spin", "wrap_spin"}
               \/ pc[t] = "load_other" /\ ld[t] < mine(t)

\* The calls of pair_wait thread t has made since the last pair_reset.
Calls(t) == IF pc[t] = "call" THEN arr[t] + 1 ELSE arr[t]

\* Thread A has made three calls in every iteration but the one it is in, and has
\* computed the delay of that one between the first and the second.
Entered == Calls(A) = 3 * exec_loop - 2 /\ delay = exec_loop - 1
Racing == Calls(A) = 3 * exec_loop - 1 /\ delay = exec_loop
Raced == Calls(A) = 3 * exec_loop /\ delay = exec_loop

PlaceOfA ==
    /\ at[A] \in {"reset", "created", "run_a", "ran", "race_a",
                  "cleanup_brk", "cancel", "join_brk", "end"}
    /\ at[A] \notin {"run_a", "ran", "race_a"} => pc[A] = "out"
    /\ at[A] \in {"created", "run_a", "race_a", "cleanup_brk"} => exit = 0
    /\ exit = 0 \/ at[A] \in {"cancel", "join_brk"} => exec_loop <= ExecLoops
    /\ at[A] = "created" => exec_loop = 0
    /\ at[A] \in {"created", "run_a"} => Raced
    /\ at[A] = "ran" => Entered
    /\ at[A] = "race_a" => Racing
    /\ at[A] \in {"cleanup_brk", "cancel", "join_brk"} => Entered \/ Racing \/ Raced

PlaceOfB ==
    /\ at[B] \in {"none", "wrapper", "wild", "run_b", "load_exit", "delay_b"}
    /\ at[B] = "wrapper" => loop_b = 0
    /\ at[B] \in {"wrapper", "run_b"} => Calls(B) = 3 * loop_b
    /\ at[B] = "load_exit" => Calls(B) = 3 * loop_b - 2
    /\ at[B] = "delay_b" => Calls(B) = 3 * loop_b - 1

\* Of two threads in the same call of pair_wait only the first to arrive spins.
OneSpins == ~ (arr[A] = arr[B] /\ Spinning(A) /\ Spinning(B))

\* The inductive strengthening of SameIteration and SpinsNotRaced: the place of a
\* thread in the test determines its calls of pair_wait, which the rendezvous keeps
\* in step.
FuzzyInv == /\ TypeOK /\ WInv /\ OneSpins /\ PlaceOfA /\ PlaceOfB
            /\ alive => at[A] \notin {"reset", "end"} /\ at[B] # "none"

\* Thread B executes the function pair_reset was given.
RunsGivenFunction == at[B] # "wild"

\* The test ends, with thread B joined, however the threads interleave and whether
\* or not thread A breaks off.
Terminates == <>(at[A] = "end" /\ ~alive)
=============================================================================
