------------------------------ MODULE PairWait ------------------------------
(***************************************************************************)
(* tst_fzsync_pair_wait() of ltp/include/tst_fuzzy_sync.h: the spinning    *)
(* rendezvous of the fuzzy synchronisation library.  The two threads share *)
(* two int counters.  A thread increments the OTHER thread's counter and   *)
(* then spins until its own has caught up; when the counter it increments  *)
(* reaches INT_MAX both counters are taken back to zero.  Each atomic      *)
(* access of the C code is one action here, so every interleaving of the   *)
(* two threads' loads and stores is a behaviour of Spec.                   *)
(*                                                                         *)
(* IntMax stands for INT_MAX.  arr and dep are history variables: how many *)
(* calls a thread has begun (its increment is done) and returned from.     *)
(***************************************************************************)
EXTENDS Integers

CONSTANTS A, B,       \* the two threads
          IntMax      \* INT_MAX

ASSUME ThreadsDistinct == A # B
ASSUME IntMaxAtLeast2 == IntMax \in Nat /\ IntMax >= 2

VARIABLES cntr,       \* cntr[A] is pair->a_cntr, cntr[B] is pair->b_cntr
          pc,         \* where each thread is inside pair_wait
          ld,         \* the value of our_cntr the last load returned
          alive,      \* thread B exists
          arr, dep    \* history: arrivals and departures

wvars == <<cntr, pc, ld, alive, arr, dep>>

Threads == {A, B}

Other(t) == IF t = A THEN B ELSE A

Wrapping == {"positive", "below_max", "wrap_spin", "store_zero"}

Waiting == {"load_our", "load_other", "spin", "drain"} \cup Wrapping

PcValues == {"out", "call"} \cup Waiting

WInit == /\ cntr = [t \in Threads |-> 0]
         /\ pc   = [t \in Threads |-> "out"]
         /\ ld   = [t \in Threads |-> 0]
         /\ alive = FALSE
         /\ arr  = [t \in Threads |-> 0]
         /\ dep  = [t \in Threads |-> 0]

Runs(t) == t = B => alive

Goto(t, from, to) == /\ Runs(t)
                     /\ pc[t] = from
                     /\ pc' = [pc EXCEPT ![t] = to]

Return(t, from) == /\ Goto(t, from, "out")
                   /\ dep' = [dep EXCEPT ![t] = @ + 1]

\* A thread calls pair_wait.
Call(t) == Goto(t, "out", "call") /\ UNCHANGED <<cntr, ld, alive, arr, dep>>

\* Mutant: the wrap-around is one increment late.
IncOtherLate(t) ==
    /\ cntr' = [cntr EXCEPT ![Other(t)] = @ + 1]
    /\ arr'  = [arr EXCEPT ![t] = @ + 1]
    /\ Goto(t, "call", IF cntr[Other(t)] = IntMax THEN "positive" ELSE "load_our")
    /\ UNCHANGED <<ld, alive, dep>>

\* tst_atomic_inc(other_cntr) == INT_MAX
IncOther(t) ==
    /\ cntr' = [cntr EXCEPT ![Other(t)] = @ + 1]
    /\ arr'  = [arr EXCEPT ![t] = @ + 1]
    /\ Goto(t, "call", IF cntr[Other(t)] + 1 = IntMax THEN "positive" ELSE "load_our")
    /\ UNCHANGED <<ld, alive, dep>>

\* tst_atomic_load(our_cntr), the left operand of the comparison
LoadOur(t) ==
    /\ Goto(t, "load_our", "load_other")
    /\ ld' = [ld EXCEPT ![t] = cntr[t]]
    /\ UNCHANGED <<cntr, alive, arr, dep>>

\* Mutant: <= where the code has <.
LoadOtherSpinEq(t) ==
    /\ ld[t] <= cntr[Other(t)]
    /\ Goto(t, "load_other", "spin")
    /\ UNCHANGED <<cntr, ld, alive, arr, dep>>

\* ... < tst_atomic_load(other_cntr): go round the loop
LoadOtherSpin(t) ==
    /\ ld[t] < cntr[Other(t)]
    /\ Goto(t, "load_other", "spin")
    /\ UNCHANGED <<cntr, ld, alive, arr, dep>>

\* Mutant: satisfied one arrival too early.
LoadOtherReturnEarly(t) ==
    /\ ld[t] + 1 >= cntr[Other(t)]
    /\ Return(t, "load_other")
    /\ UNCHANGED <<cntr, ld, alive, arr>>

LoadOtherReturn(t) ==
    /\ ld[t] >= cntr[Other(t)]
    /\ Return(t, "load_other")
    /\ UNCHANGED <<cntr, ld, alive, arr>>

\* (*spins)++
CountSpin(t) ==
    /\ \/ Goto(t, "spin", "load_our")
       \/ Goto(t, "wrap_spin", "positive")
    /\ UNCHANGED <<cntr, ld, alive, arr, dep>>

\* tst_atomic_load(our_cntr) > 0
Positive(t) ==
    /\ Goto(t, "positive", IF cntr[t] > 0 THEN "below_max" ELSE "store_zero")
    /\ UNCHANGED <<cntr, ld, alive, arr, dep>>

\* Mutant: the first wrap-around loop ends one arrival too early.
BelowMaxEarly(t) ==
    /\ Goto(t, "below_max", IF cntr[t] < IntMax - 1 THEN "wrap_spin" ELSE "store_zero")
    /\ UNCHANGED <<cntr, ld, alive, arr, dep>>

\* tst_atomic_load(our_cntr) < INT_MAX
BelowMax(t) ==
    /\ Goto(t, "below_max", IF cntr[t] < IntMax THEN "wrap_spin" ELSE "store_zero")
    /\ UNCHANGED <<cntr, ld, alive, arr, dep>>

\* tst_atomic_store(0, other_cntr)
StoreZero(t) ==
    /\ Goto(t, "store_zero", "drain")
    /\ cntr' = [cntr EXCEPT ![Other(t)] = 0]
    /\ UNCHANGED <<ld, alive, arr, dep>>

\* Mutant: the second wrap-around loop is missing.
DrainAtOnce(t) ==
    /\ Return(t, "drain")
    /\ UNCHANGED <<cntr, ld, alive, arr>>

\* while (tst_atomic_load(our_cntr) > 1) ;
Drain(t) ==
    /\ cntr[t] <= 1
    /\ Return(t, "drain")
    /\ UNCHANGED <<cntr, ld, alive, arr>>

\* One step of thread t inside pair_wait.
Step(t) == \/ IncOther(t) \/ LoadOur(t) \/ LoadOtherSpin(t) \/ LoadOtherReturn(t)
           \/ CountSpin(t) \/ Positive(t) \/ BelowMax(t) \/ StoreZero(t) \/ Drain(t)

\* Thread B ends: it returns from its function, or is cancelled wherever it is
\* (its cancel type is asynchronous).
ThreadEnd == /\ alive
             /\ alive' = FALSE
             /\ UNCHANGED <<cntr, pc, ld, arr, dep>>

\* tst_fzsync_pair_reset(), called by thread A when thread B is joined: both
\* counters are zeroed and a new thread B is started.
Restart == /\ pc[A] = "out" /\ ~alive
           /\ alive' = TRUE
           /\ cntr' = [t \in Threads |-> 0]
           /\ pc'  = [pc EXCEPT ![B] = "out"]
           /\ ld'  = [ld EXCEPT ![B] = 0]
           /\ arr' = [t \in Threads |-> 0]
           /\ dep' = [t \in Threads |-> 0]

WNext == \/ \E t \in Threads : Call(t) \/ Step(t)
         \/ ThreadEnd
         \/ Restart

WSpec == WInit /\ [][WNext]_wvars
-----------------------------------------------------------------------------
WTypeOK == /\ cntr \in [Threads -> 0..IntMax]
           /\ pc \in [Threads -> PcValues]
           /\ ld \in [Threads -> 0..IntMax]
           /\ alive \in BOOLEAN
           /\ arr \in [Threads -> Nat]
           /\ dep \in [Threads -> Nat]

\* The counter thread t increments; nobody else writes it.
mine(t) == cntr[Other(t)]

\* The rendezvous: a thread that is out of pair_wait has been matched, call for
\* call, by the other thread, across every wrap-around of the counters.
Rendezvous == \A t \in Threads : pc[t] \in {"out", "call"} => arr[Other(t)] >= arr[t]

\* The two counters agree with the number of arrivals, except while one thread
\* has zeroed its counter and the other has yet to: the first then sits in the
\* last loop of pair_wait, and both have arrived equally often.
Epoch(t) ==
    LET o == Other(t) IN
    \/ mine(t) - mine(o) = arr[t] - arr[o]
    \/ pc[t] = "drain" /\ mine(t) = 0 /\ mine(o) = IntMax /\ arr[t] = arr[o]
    \/ pc[o] = "drain" /\ mine(o) = 0 /\ mine(t) = IntMax /\ arr[t] = arr[o]

\* The inductive strengthening of Rendezvous.
WInv ==
    /\ WTypeOK
    /\ Rendezvous
    /\ \A t \in Threads :
         LET o == Other(t) IN
         /\ Epoch(t)
         /\ arr[t] <= arr[o] + 1
         /\ mine(t) = IntMax <=> pc[t] \in Wrapping
         /\ pc[t] \in Wrapping => arr[o] <= arr[t]
         /\ pc[t] = "drain" => mine(t) = 0
         /\ pc[t] \in {"store_zero", "drain"} => arr[o] >= arr[t]
         /\ pc[t] = "load_other" /\ ld[t] >= mine(t) => arr[o] >= arr[t]
         /\ dep[t] = IF pc[t] \in {"out", "call"} THEN arr[t] ELSE arr[t] - 1
         /\ pc[t] \in Waiting => arr[t] > 0

\* Refinement: pair_wait implements the abstract rendezvous.
R == INSTANCE RendezvousSpec
RendezvousImplemented == R!RSpec
=============================================================================
