----------------------------- MODULE Checkpoint -----------------------------
(***************************************************************************)
(* Checkpoints (ltp/lib/tst_checkpoint.c): processes of one test wait for  *)
(* and wake each other on the words of a shared page.  A word never        *)
(* changes, it is only a futex to sleep on; a wake is repeated every       *)
(* millisecond until it has ended as many waits as it was asked to, or     *)
(* its time is over.                                                       *)
(*                                                                         *)
(* A process makes calls of its choice, MaxCalls at most, and breaks the   *)
(* test (tst_brkm) when one fails.  A wait is named by the process and the *)
(* number of the call, so that what a wake ended can be told apart.        *)
(***************************************************************************)
EXTENDS Integers, FiniteSets

CONSTANTS Procs,
          MaxFutexes,   \* tst_max_futexes: the checkpoints there are
          NrWakes,      \* the values of nr_wake a test passes
          MsecTimeout,  \* DEFAULT_MSEC_TIMEOUT of a wake
          MaxCalls,     \* bound: calls per process
          MaxSignals    \* bound: signals that interrupt a wait

ASSUME CheckpointConstants ==
    /\ IsFiniteSet(Procs) /\ MaxFutexes \in Nat \ {0} /\ NrWakes \subseteq Nat
    /\ MsecTimeout \in Nat /\ MaxCalls \in Nat /\ MaxSignals \in Nat

VARIABLES
    pc,         \* pc[p]: where p is
    id,         \* id[p]: the checkpoint of its call
    nr_wake,    \* nr_wake[p]: argument of a wake
    waked,      \* waked[p]: its local variable
    msecs,      \* msecs[p]: the same
    andWait,    \* andWait[p]: the wake is that of a WAKE_AND_WAIT
    calls,      \* calls[p]: calls begun
    nsig,       \* signals delivered
    woke,       \* history: <<wait, wake>>, which call ended which wait
    passed,     \* history: the waits that returned 0
    returned    \* history: the wakes that returned 0, with their nr_wake

history == <<woke, passed, returned>>
vars == <<pc, id, nr_wake, waked, msecs, andWait, calls, nsig, history>>

Ids == 0 .. MaxFutexes              \* the last one is out of range
Rest == {"test", "expired", "gaveup", "toolarge"}   \* p is in no call
Calls == Procs \X (1 .. MaxCalls)
Call(p) == <<p, calls[p]>>         \* the call p is in

Init == /\ pc = [p \in Procs |-> "test"]
        /\ id = [p \in Procs |-> 0]
        /\ nr_wake = [p \in Procs |-> 0] /\ waked = [p \in Procs |-> 0]
        /\ msecs = [p \in Procs |-> 0] /\ andWait = [p \in Procs |-> FALSE]
        /\ calls = [p \in Procs |-> 0] /\ nsig = 0
        /\ woke = {} /\ passed = {} /\ returned = {}
-----------------------------------------------------------------------------
\* TST_CHECKPOINT_WAIT: the process is about to enter the futex call, unless
\* there is no such checkpoint (EOVERFLOW, tst_brkm).
Wait(p, i) ==
    /\ pc[p] = "test" /\ calls[p] < MaxCalls
    /\ pc' = [pc EXCEPT ![p] = IF i < MaxFutexes THEN "wait" ELSE "toolarge"]
    /\ id' = [id EXCEPT ![p] = IF i < MaxFutexes THEN i ELSE @]
    /\ calls' = [calls EXCEPT ![p] = @ + 1]
    /\ UNCHANGED <<nr_wake, waked, msecs, andWait, nsig, history>>

\* TST_CHECKPOINT_WAKE2, and with w the wake of a WAKE_AND_WAIT.
Wake(p, i, n, w) ==
    /\ pc[p] = "test" /\ calls[p] < MaxCalls
    /\ w => n = 1 /\ calls[p] + 1 < MaxCalls
    /\ pc' = [pc EXCEPT ![p] = IF i < MaxFutexes THEN "wake" ELSE "toolarge"]
    /\ id' = [id EXCEPT ![p] = IF i < MaxFutexes THEN i ELSE @]
    /\ nr_wake' = [nr_wake EXCEPT ![p] = n]
    /\ andWait' = [andWait EXCEPT ![p] = w]
    /\ calls' = [calls EXCEPT ![p] = @ + 1]
    /\ UNCHANGED <<waked, msecs, nsig, history>>

\* FUTEX_WAIT: the word still has the value that was read, so p sleeps.
FutexWait(p) ==
    /\ pc[p] = "wait"
    /\ pc' = [pc EXCEPT ![p] = "asleep"]
    /\ UNCHANGED <<id, nr_wake, waked, msecs, andWait, calls, nsig, history>>

\* Mutant: a signal ends the wait.
InterruptReturns(p) ==
    /\ pc[p] = "asleep" /\ nsig < MaxSignals
    /\ pc' = [pc EXCEPT ![p] = "woken"]
    /\ nsig' = nsig + 1
    /\ UNCHANGED <<id, nr_wake, waked, msecs, andWait, calls, history>>

\* A signal ends FUTEX_WAIT with EINTR; the loop calls it again.
Interrupt(p) ==
    /\ pc[p] = "asleep" /\ nsig < MaxSignals
    /\ pc' = [pc EXCEPT ![p] = "wait"]
    /\ nsig' = nsig + 1
    /\ UNCHANGED <<id, nr_wake, waked, msecs, andWait, calls, history>>

\* The time of FUTEX_WAIT is over: ETIMEDOUT, and tst_brkm.
WaitTimeout(p) ==
    /\ pc[p] = "asleep"
    /\ pc' = [pc EXCEPT ![p] = "expired"]
    /\ UNCHANGED <<id, nr_wake, waked, msecs, andWait, calls, nsig, history>>

\* FUTEX_WAIT returned 0.
WaitReturns(p) ==
    /\ pc[p] = "woken"
    /\ pc' = [pc EXCEPT ![p] = "test"]
    /\ passed' = passed \cup {Call(p)}
    /\ id' = [id EXCEPT ![p] = 0]
    /\ UNCHANGED <<nr_wake, waked, msecs, andWait, calls, nsig, woke, returned>>

\* Those that sleep on checkpoint i.
Asleep(i) == {q \in Procs : pc[q] = "asleep" /\ id[q] = i}

\* Mutant: "waked =" for "waked +=".
FutexWakeLast(p) ==
    LET W == Asleep(id[p])
    IN /\ pc[p] = "wake"
       /\ waked' = [waked EXCEPT ![p] = Cardinality(W)]
       /\ pc' = [q \in Procs |-> IF q \in W THEN "woken"
                                 ELSE IF q = p THEN "compare" ELSE pc[q]]
       /\ woke' = woke \cup {<<Call(q), Call(p)>> : q \in W}
       /\ UNCHANGED <<id, nr_wake, msecs, andWait, calls, nsig, passed, returned>>

\* waked += FUTEX_WAKE(INT_MAX): all who sleep on the word are woken.
FutexWake(p) ==
    LET W == Asleep(id[p])
    IN /\ pc[p] = "wake"
       /\ waked' = [waked EXCEPT ![p] = @ + Cardinality(W)]
       /\ pc' = [q \in Procs |-> IF q \in W THEN "woken"
                                 ELSE IF q = p THEN "compare" ELSE pc[q]]
       /\ woke' = woke \cup {<<Call(q), Call(p)>> : q \in W}
       /\ UNCHANGED <<id, nr_wake, msecs, andWait, calls, nsig, passed, returned>>

\* waked == nr_wake: the wake returns 0, its arguments and locals are gone; a WAKE_AND_WAIT
\* goes on to wait.
WakeReturns(p) ==
    /\ pc[p] = "compare" /\ waked[p] = nr_wake[p]
    /\ pc' = [pc EXCEPT ![p] = IF andWait[p] THEN "wait" ELSE "test"]
    /\ calls' = [calls EXCEPT ![p] = IF andWait[p] THEN @ + 1 ELSE @]
    /\ returned' = returned \cup {<<Call(p), nr_wake[p]>>}
    /\ nr_wake' = [nr_wake EXCEPT ![p] = 0] /\ waked' = [waked EXCEPT ![p] = 0]
    /\ msecs' = [msecs EXCEPT ![p] = 0] /\ andWait' = [andWait EXCEPT ![p] = FALSE]
    /\ id' = [id EXCEPT ![p] = IF andWait[p] THEN @ ELSE 0]
    /\ UNCHANGED <<nsig, woke, passed>>

\* Mutant: the wake is tried for ever.
WakeRetryForever(p) ==
    /\ pc[p] = "compare" /\ waked[p] # nr_wake[p]
    /\ pc' = [pc EXCEPT ![p] = "wake"]
    /\ UNCHANGED <<id, nr_wake, waked, msecs, andWait, calls, nsig, history>>

\* Mutant: the time is compared before what was woken.
WakeRetryEarly(p) ==
    /\ pc[p] = "compare"
    /\ msecs' = [msecs EXCEPT ![p] = @ + 1]
    /\ pc' = [pc EXCEPT ![p] = IF msecs[p] + 1 >= MsecTimeout THEN "gaveup"
                               ELSE "wake"]
    /\ UNCHANGED <<id, nr_wake, waked, andWait, calls, nsig, history>>

\* Mutant: the milliseconds are counted down.
WakeRetryDown(p) ==
    /\ pc[p] = "compare" /\ waked[p] # nr_wake[p]
    /\ msecs' = [msecs EXCEPT ![p] = @ - 1]
    /\ pc' = [pc EXCEPT ![p] = IF msecs[p] = 0 THEN "gaveup" ELSE "wake"]
    /\ UNCHANGED <<id, nr_wake, waked, andWait, calls, nsig, history>>

\* usleep(1000); msecs++; either the time is over (tst_brkm) or once more.
WakeRetry(p) ==
    /\ pc[p] = "compare" /\ waked[p] # nr_wake[p]
    /\ msecs' = [msecs EXCEPT ![p] = @ + 1]
    /\ pc' = [pc EXCEPT ![p] = IF msecs[p] + 1 >= MsecTimeout THEN "gaveup"
                               ELSE "wake"]
    /\ UNCHANGED <<id, nr_wake, waked, andWait, calls, nsig, history>>

Proceed(p) == FutexWait(p) \/ WaitReturns(p) \/ FutexWake(p)
              \/ WakeReturns(p) \/ WakeRetry(p)

\* The processes may all have ended, or make no more calls.
Over == /\ \A p \in Procs : pc[p] \in Rest
        /\ UNCHANGED vars

Next == \/ \E p \in Procs :
              \/ \E i \in Ids : Wait(p, i)
              \/ \E i \in Ids, n \in NrWakes, w \in BOOLEAN : Wake(p, i, n, w)
              \/ Proceed(p) \/ Interrupt(p) \/ WaitTimeout(p)
        \/ Over

Spec == Init /\ [][Next]_vars

\* Processes are scheduled and time passes; no test has to make another call.
FairSpec == Spec /\ \A p \in Procs : WF_vars(Proceed(p)) /\ WF_vars(WaitTimeout(p))
-----------------------------------------------------------------------------
TypeOK ==
    /\ pc \in [Procs -> {"test", "wait", "asleep", "woken", "wake", "compare"} \cup Rest]
    /\ id \in [Procs -> Ids] /\ nr_wake \in [Procs -> Nat]
    /\ waked \in [Procs -> Nat] /\ msecs \in [Procs -> Nat]
    /\ andWait \in [Procs -> BOOLEAN] /\ calls \in [Procs -> 0 .. MaxCalls] /\ nsig \in Nat
    /\ woke \subseteq Calls \X Calls
    /\ passed \subseteq Calls /\ returned \subseteq Calls \X Nat

\* The waits a wake call ended.
EndedBy(c) == {w \in Calls : <<w, c>> \in woke}

(* A wake that returned 0 ended exactly nr_wake waits, over all its         *)
(* repetitions and whatever other wakes did on the checkpoint meanwhile     *)
(* (tst_checkpoint_wake: "waked == nr_wake").                               *)
WakeExact == \A r \in returned : Cardinality(EndedBy(r[1])) = r[2]

(* Each wait that returned 0 was ended by exactly one wake: no wait passes  *)
(* unwoken, for instance on a signal (the EINTR loop of                     *)
(* tst_checkpoint_wait), and no wake is paid twice for it.                  *)
OneWakeEach == \A w \in passed : \E v \in woke : {u \in woke : u[1] = w} = {v}

(* A wake that gives up has not done what it was asked to: the test for     *)
(* success comes before the test of the time in tst_checkpoint_wake.        *)
GaveUpShort == \A p \in Procs : pc[p] = "gaveup" => Cardinality(EndedBy(Call(p))) # nr_wake[p]

\* The call p is in has ended what its local variable says; a wait that still
\* sleeps has been ended by nobody.
InCall(p) ==
    /\ pc[p] # "test" => calls[p] > 0
    /\ pc[p] \in {"wake", "compare"} /\ andWait[p] => calls[p] < MaxCalls
    /\ pc[p] \in {"wake", "compare", "gaveup"} =>
           /\ Cardinality(EndedBy(Call(p))) = waked[p]
           /\ \A r \in returned : r[1] # Call(p)
    /\ pc[p] \in {"test", "wait", "asleep", "woken"} => waked[p] = 0
    /\ pc[p] \in {"wait", "asleep"} => \A v \in woke : v[1] # Call(p)
    /\ pc[p] = "woken" => \E v \in woke : v[1] = Call(p)
    /\ pc[p] = "gaveup" => waked[p] # nr_wake[p]

\* What has happened was done by calls that were made, and a wait was ended once.
PastCalls ==
    /\ \A v \in woke : v[1][2] <= calls[v[1][1]] /\ v[2][2] <= calls[v[2][1]]
    /\ \A r \in returned : r[1][2] <= calls[r[1][1]]
    /\ \A u, v \in woke : u[1] = v[1] => u = v
    /\ \A w \in passed : \E v \in woke : v[1] = w

(* The inductive invariant behind the three laws: it relates the local      *)
(* variables of tst_checkpoint_wake to the waits that were really ended.    *)
CheckpointInv == TypeOK /\ (\A p \in Procs : InCall(p)) /\ PastCalls /\ WakeExact

(* Every call returns, whatever the other processes do: waits by their      *)
(* timeout, wakes because the milliseconds are counted.                     *)
EveryCallReturns == \A p \in Procs : pc[p] \notin Rest ~> pc[p] \in Rest
=============================================================================
