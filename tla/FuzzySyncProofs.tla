-------------------------- MODULE FuzzySyncProofs ---------------------------
(***************************************************************************)
(* For every value of INT_MAX from 2 up, tst_fzsync_pair_wait() is a       *)
(* rendezvous: WInv is inductive, it implies Rendezvous, and every step    *)
(* is a step of the abstract RendezvousSpec or leaves arr and dep alone.   *)
(*                                                                         *)
(* For every number of loops, samples and resets the test around it keeps  *)
(* its two threads in the same iteration: FuzzyInv is inductive.           *)
(***************************************************************************)
EXTENDS FuzzySync, TLAPS

USE IntMaxAtLeast2, ThreadsDistinct

LEMMA OtherIsThread == \A t \in Threads : /\ Other(t) \in Threads
                                          /\ Other(t) # t
                                          /\ Other(Other(t)) = t
  BY DEF Threads, Other

\* The third call of pair_wait completes an iteration.
LEMMA LastCall == ASSUME NEW l \in Nat PROVE (3 * l - 1) + 1 = 3 * l
  OBVIOUS

\* Three calls of pair_wait make an iteration: a thread A that has made the first
\* call of its iteration and a thread B that has completed its own are not in step.
LEMMA ThreeCalls ==
    ASSUME NEW a \in Nat, NEW b \in Nat, NEW e \in Nat, NEW l \in Nat,
           a = 3 * e - 2, a <= b, b <= a + 1, b = 3 * l \/ (b + 1 = 3 * l /\ a >= b)
    PROVE  FALSE
  OBVIOUS

\* A thread in its raced call has been in pair_wait twice in this iteration; c calls
\* of the other thread, b of them begun, then belong to the same race.
LEMMA SameRace ==
    ASSUME NEW a \in Nat, NEW b \in Nat, NEW e \in Nat, NEW l \in Nat, NEW c \in Int,
           a = 3 * e - 1, a <= b, b <= a + 1, c = b \/ (c = b + 1 /\ b <= a)
    PROVE  /\ c # 0 /\ c # 3 * l - 2
           /\ c = 3 * l \/ c = 3 * l - 1 => l = e
  <1>1. c = 3 * e - 1 \/ c = 3 * e OBVIOUS
  <1>2. e >= 1 OBVIOUS
  <1>3. c # 0 BY <1>1, <1>2
  <1>4. c # 3 * l - 2 BY <1>1
  <1>5. c = 3 * l \/ c = 3 * l - 1 => l = e BY <1>1
  <1> QED BY <1>3, <1>4, <1>5

LEMMA InitInv == WInit => WInv
  <1> SUFFICES ASSUME WInit PROVE WInv OBVIOUS
  <1> USE DEF WInit, Threads, Other, PcValues, Waiting, Wrapping
  <1>1. WTypeOK
    <2>1. alive \in BOOLEAN BY Zenon
    <2>2. pc \in [Threads -> PcValues] OBVIOUS
    <2> QED BY <2>1, <2>2 DEF WTypeOK
  <1>2. Rendezvous BY DEF Rendezvous
  <1>3. \A t \in Threads : Epoch(t) BY DEF Epoch, mine
  <1> QED BY <1>1, <1>2, <1>3 DEF WInv, mine

\* Returning from pair_wait preserves the invariant when the other thread has
\* arrived and the counters of both belong to the same epoch.
LEMMA ReturnInv ==
    ASSUME WInv, NEW t \in Threads, NEW from \in {"load_other", "drain"},
           arr[Other(t)] >= arr[t],
           mine(t) - mine(Other(t)) = arr[t] - arr[Other(t)],
           Return(t, from), UNCHANGED <<cntr, ld, alive, arr>>
    PROVE  WInv'
  <1> DEFINE o == Other(t)
  <1> o \in Threads /\ o # t /\ Other(o) = t /\ \A x \in Threads : x = t \/ x = o
    BY DEF Threads, Other
  <1>1. /\ pc[t] = from /\ pc' = [pc EXCEPT ![t] = "out"]
        /\ dep' = [dep EXCEPT ![t] = dep[t] + 1]
    BY DEF Return, Goto
  <1>2. WTypeOK' BY <1>1 DEF WInv, WTypeOK, PcValues
  <1>3. dep[t] + 1 = arr[t] BY <1>1 DEF WInv, WTypeOK
  <1>4. mine(t) # IntMax BY <1>1 DEF WInv, Wrapping
  <1>5. Rendezvous' BY <1>1 DEF WInv, WTypeOK, Rendezvous
  <1>6. \A x \in Threads : Epoch(x)' BY DEF Epoch, mine, WInv, WTypeOK
  <1>7. pc'[t] = "out" /\ pc'[o] = pc[o] /\ dep'[t] = arr[t] /\ dep'[o] = dep[o]
    BY <1>1, <1>3 DEF WInv, WTypeOK
  <1>8. \A x \in Threads : mine(x)' = mine(x) BY DEF mine
  <1> QED BY <1>2, <1>4, <1>5, <1>6, <1>7, <1>8 DEF WInv, Waiting, Wrapping

\* WInv as it concerns thread t, o being the other one: the level of the counters,
\* and what follows from the place of t.
Level(t, o) == \/ cntr[o] - cntr[t] = arr[t] - arr[o]
               \/ pc[t] = "drain" /\ cntr[o] = 0 /\ cntr[t] = IntMax /\ arr[t] = arr[o]
               \/ pc[o] = "drain" /\ cntr[t] = 0 /\ cntr[o] = IntMax /\ arr[t] = arr[o]

Place(t, o) ==
    /\ pc[t] \in {"out", "call"} => arr[o] >= arr[t]
    /\ arr[t] <= arr[o] + 1
    /\ cntr[o] = IntMax <=> pc[t] \in Wrapping
    /\ pc[t] \in Wrapping => arr[o] <= arr[t]
    /\ pc[t] = "drain" => cntr[o] = 0
    /\ pc[t] \in {"store_zero", "drain"} => arr[o] >= arr[t]
    /\ pc[t] = "load_other" /\ ld[t] >= cntr[o] => arr[o] >= arr[t]
    /\ dep[t] = IF pc[t] \in {"out", "call"} THEN arr[t] ELSE arr[t] - 1
    /\ pc[t] \in Waiting => arr[t] > 0

Halves(t, o) == WTypeOK /\ Level(t, o) /\ Level(o, t) /\ Place(t, o) /\ Place(o, t)

\* The invariant says this of both threads, before and after a step.
LEMMA HalvesInv ==
    ASSUME NEW t \in Threads, NEW o \in Threads, o = Other(t)
    PROVE  (WInv <=> Halves(t, o)) /\ (WInv' <=> Halves(t, o)')
  <1>1. t # o /\ Other(o) = t /\ Other(t) = o /\ Threads = {t, o} BY DEF Threads, Other
  <1>2. WInv <=> Halves(t, o)
    BY <1>1 DEF WInv, Rendezvous, Epoch, mine, Halves, Level, Place
  <1>3. WInv' <=> Halves(t, o)'
    BY <1>1 DEF WInv, Rendezvous, Epoch, mine, Halves, Level, Place
  <1> QED BY <1>2, <1>3

\* Every step of a thread inside pair_wait preserves the invariant.
LEMMA StepInv == ASSUME WInv, NEW t \in Threads, Step(t)
                 PROVE  WInv'
  <1> DEFINE o == Other(t)
  <1>o. o \in Threads /\ o # t /\ o = Other(t) BY OtherIsThread
  <1>h. WTypeOK' /\ (Level(t, o)' /\ Level(o, t)') /\ Place(t, o)' /\ Place(o, t)' => WInv'
    BY <1>o, HalvesInv DEF Halves
  <1>0. /\ WTypeOK /\ Level(t, o) /\ Level(o, t) /\ Place(t, o) /\ Place(o, t)
        /\ o \in Threads /\ o # t
    BY <1>o, HalvesInv DEF Halves
  <1>v. /\ cntr[t] \in 0 .. IntMax /\ cntr[o] \in 0 .. IntMax /\ arr[t] \in Nat /\ arr[o] \in Nat
        /\ dep[t] \in Nat /\ dep[o] \in Nat /\ ld[t] \in 0 .. IntMax /\ ld[o] \in 0 .. IntMax
    BY <1>0 DEF WTypeOK
  <1> HIDE DEF o
  <1>1. CASE IncOther(t)
    <2>1. /\ cntr' = [cntr EXCEPT ![o] = cntr[o] + 1] /\ arr' = [arr EXCEPT ![t] = arr[t] + 1]
          /\ UNCHANGED <<ld, alive, dep>> /\ pc[t] = "call"
          /\ pc' = [pc EXCEPT ![t] = IF cntr[o] + 1 = IntMax THEN "positive" ELSE "load_our"]
      BY <1>1, <1>o DEF IncOther, Goto
    <2>2. /\ cntr'[o] = cntr[o] + 1 /\ cntr'[t] = cntr[t]
          /\ arr'[t] = arr[t] + 1 /\ arr'[o] = arr[o] /\ pc'[o] = pc[o]
          /\ pc'[t] = IF cntr[o] + 1 = IntMax THEN "positive" ELSE "load_our"
      BY <1>0, <2>1 DEF WTypeOK
    <2>3. /\ cntr[o] < IntMax /\ arr[o] >= arr[t] /\ arr[o] <= arr[t] + 1 /\ dep[t] = arr[t]
      BY <1>0, <1>v, <2>1 DEF Place, Wrapping
    <2>4. cntr[o] - cntr[t] = arr[t] - arr[o]
      BY <1>0, <1>v, <2>1, <2>3 DEF Level
    <2>5. WTypeOK' BY <1>0, <1>v, <2>1, <2>3 DEF WTypeOK, PcValues, Waiting, Wrapping
    <2>6. Level(t, o)' /\ Level(o, t)' BY <1>v, <2>2, <2>4 DEF Level
    <2>7. Place(t, o)' BY <1>v, <2>1, <2>2, <2>3 DEF Place, Wrapping, Waiting
    <2>8. Place(o, t)'
      <3>1. cntr[t] = IntMax => arr[t] + 1 <= arr[o] BY <1>v, <2>3, <2>4
      <3> QED BY <1>0, <1>v, <2>1, <2>2, <2>3, <3>1 DEF Place
    <2> QED BY <1>h, <2>5, <2>6, <2>7, <2>8
  <1>2. CASE LoadOur(t)
    <2>1. /\ UNCHANGED <<cntr, alive, arr, dep>> /\ pc'[o] = pc[o] /\ ld'[o] = ld[o]
          /\ pc[t] = "load_our" /\ pc'[t] = "load_other" /\ ld'[t] = cntr[t]
      BY <1>2, <1>0 DEF LoadOur, Goto, WTypeOK
    <2>2. WTypeOK' BY <1>0, <1>v, <1>2, <2>1 DEF LoadOur, Goto, WTypeOK, PcValues, Waiting
    <2>3. cntr[t] >= cntr[o] => arr[o] >= arr[t] BY <1>0, <1>v DEF Level
    <2>4. Level(t, o)' /\ Level(o, t)' BY <1>0, <2>1 DEF Level
    <2>5. Place(t, o)' BY <1>0, <1>v, <2>1, <2>3 DEF Place, Wrapping, Waiting
    <2>6. Place(o, t)' BY <1>0, <2>1 DEF Place
    <2> QED BY <1>h, <2>2, <2>4, <2>5, <2>6
  <1>3. CASE LoadOtherSpin(t)
    <2>1. /\ UNCHANGED <<cntr, ld, alive, arr, dep>> /\ pc'[o] = pc[o]
          /\ pc[t] = "load_other" /\ pc'[t] = "spin"
      BY <1>3, <1>0 DEF LoadOtherSpin, Goto, WTypeOK
    <2>2. WTypeOK' BY <1>0, <1>3, <2>1 DEF LoadOtherSpin, Goto, WTypeOK, PcValues, Waiting, Wrapping
    <2>4. Level(t, o)' /\ Level(o, t)' BY <1>0, <2>1 DEF Level
    <2>5. Place(t, o)' BY <1>0, <1>v, <2>1 DEF Place, Wrapping, Waiting
    <2>6. Place(o, t)' BY <1>0, <2>1 DEF Place
    <2> QED BY <1>h, <2>2, <2>4, <2>5, <2>6
  <1>4. CASE LoadOtherReturn(t)
    <2>1. /\ pc[t] = "load_other" /\ ld[t] >= cntr[o]
          /\ Return(t, "load_other") /\ UNCHANGED <<cntr, ld, alive, arr>>
      BY <1>4, <1>o DEF LoadOtherReturn, Return, Goto
    <2>2. arr[o] >= arr[t] /\ cntr[o] - cntr[t] = arr[t] - arr[o]
      <3>1. arr[o] >= arr[t] /\ cntr[o] # IntMax BY <1>0, <2>1 DEF Place, Wrapping
      <3> QED BY <1>0, <2>1, <3>1 DEF Level
    <2>3. mine(t) = cntr[o] /\ mine(o) = cntr[t] BY OtherIsThread, <1>o DEF mine, o
    <2> QED BY <1>o, <2>1, <2>2, <2>3, ReturnInv
  <1>5. CASE CountSpin(t)
    <2>1. /\ UNCHANGED <<cntr, ld, alive, arr, dep>> /\ pc'[o] = pc[o]
          /\ \/ pc[t] = "spin" /\ pc'[t] = "load_our"
             \/ pc[t] = "wrap_spin" /\ pc'[t] = "positive"
      BY <1>5, <1>0 DEF CountSpin, Goto, WTypeOK
    <2>2. WTypeOK' BY <1>0, <1>5, <2>1 DEF CountSpin, Goto, WTypeOK, PcValues, Waiting, Wrapping
    <2>4. Level(t, o)' /\ Level(o, t)' BY <1>0, <2>1 DEF Level
    <2>5. Place(t, o)' BY <1>0, <1>v, <2>1 DEF Place, Wrapping, Waiting
    <2>6. Place(o, t)' BY <1>0, <2>1 DEF Place
    <2> QED BY <1>h, <2>2, <2>4, <2>5, <2>6
  <1>6. CASE Positive(t)
    <2>1. /\ UNCHANGED <<cntr, ld, alive, arr, dep>> /\ pc'[o] = pc[o]
          /\ pc[t] = "positive" /\ pc'[t] = IF cntr[t] > 0 THEN "below_max" ELSE "store_zero"
      BY <1>6, <1>0 DEF Positive, Goto, WTypeOK
    <2>2. WTypeOK' BY <1>0, <1>6, <2>1 DEF Positive, Goto, WTypeOK, PcValues, Waiting, Wrapping
    <2>3. cntr[t] = 0 => arr[o] >= arr[t]
      <3>1. cntr[o] = IntMax /\ arr[t] <= arr[o] + 1 BY <1>0, <2>1 DEF Place, Wrapping
      <3> QED BY <1>0, <1>v, <3>1 DEF Level
    <2>4. Level(t, o)' /\ Level(o, t)' BY <1>0, <2>1 DEF Level
    <2>5. Place(t, o)' BY <1>0, <1>v, <2>1, <2>3 DEF Place, Wrapping, Waiting
    <2>6. Place(o, t)' BY <1>0, <2>1 DEF Place
    <2> QED BY <1>h, <2>2, <2>4, <2>5, <2>6
  <1>7. CASE BelowMax(t)
    <2>1. /\ UNCHANGED <<cntr, ld, alive, arr, dep>> /\ pc'[o] = pc[o]
          /\ pc[t] = "below_max" /\ pc'[t] = IF cntr[t] < IntMax THEN "wrap_spin" ELSE "store_zero"
      BY <1>7, <1>0 DEF BelowMax, Goto, WTypeOK
    <2>2. WTypeOK' BY <1>0, <1>7, <2>1 DEF BelowMax, Goto, WTypeOK, PcValues, Waiting, Wrapping
    <2>3. cntr[t] = IntMax => arr[o] >= arr[t]
      <3>1. cntr[o] = IntMax BY <1>0, <2>1 DEF Place, Wrapping
      <3> QED BY <1>0, <1>v, <3>1 DEF Level
    <2>4. Level(t, o)' /\ Level(o, t)' BY <1>0, <2>1 DEF Level
    <2>5. Place(t, o)' BY <1>0, <1>v, <2>1, <2>3 DEF Place, Wrapping, Waiting
    <2>6. Place(o, t)' BY <1>0, <2>1 DEF Place
    <2> QED BY <1>h, <2>2, <2>4, <2>5, <2>6
  <1>8. CASE StoreZero(t)
    <2>1. /\ cntr'[o] = 0 /\ cntr'[t] = cntr[t] /\ pc[t] = "store_zero" /\ pc'[t] = "drain"
          /\ UNCHANGED <<ld, alive, arr, dep>> /\ pc'[o] = pc[o]
      BY <1>8, <1>0, <1>o DEF StoreZero, Goto, WTypeOK
    <2>2. WTypeOK' BY <1>0, <1>o, <1>8, <2>1 DEF StoreZero, Goto, WTypeOK, PcValues, Waiting
    <2>3. cntr[o] = IntMax /\ arr[o] = arr[t] /\ dep[t] = arr[t] - 1 /\ arr[t] > 0
      BY <1>0, <1>v, <2>1 DEF Place, Wrapping, Waiting
    <2>4. cntr[t] \in {0, IntMax} BY <1>0, <1>v, <2>1, <2>3 DEF Level
    <2>5. Level(t, o)' /\ Level(o, t)' BY <1>v, <2>1, <2>3, <2>4 DEF Level
    <2>6. Place(t, o)' BY <1>v, <2>1, <2>3 DEF Place, Wrapping, Waiting
    <2>7. Place(o, t)' BY <1>0, <2>1 DEF Place
    <2> QED BY <1>h, <2>2, <2>5, <2>6, <2>7
  <1>9. CASE Drain(t)
    <2>1. /\ pc[t] = "drain" /\ cntr[t] <= 1
          /\ Return(t, "drain") /\ UNCHANGED <<cntr, ld, alive, arr>>
      BY <1>9 DEF Drain, Return, Goto
    <2>2. arr[o] >= arr[t] /\ cntr[o] - cntr[t] = arr[t] - arr[o]
      <3>1. arr[o] >= arr[t] /\ cntr[o] # IntMax BY <1>0, <2>1 DEF Place, Wrapping
      <3> QED BY <1>0, <1>v, <2>1, <3>1 DEF Level
    <2>3. mine(t) = cntr[o] /\ mine(o) = cntr[t] BY OtherIsThread, <1>o DEF mine, o
    <2> QED BY <1>o, <2>1, <2>2, <2>3, ReturnInv
  <1> QED BY <1>1, <1>2, <1>3, <1>4, <1>5, <1>6, <1>7, <1>8, <1>9, Zenon DEF Step

\* A call changes nothing that the other thread could see.
LEMMA CallInv == ASSUME WInv, NEW t \in Threads, Call(t)
                 PROVE  WInv'
  <1> DEFINE o == Other(t)
  <1>o. o \in Threads /\ o # t /\ o = Other(t) BY OtherIsThread
  <1>h. WTypeOK' /\ (Level(t, o)' /\ Level(o, t)') /\ Place(t, o)' /\ Place(o, t)' => WInv'
    BY <1>o, HalvesInv DEF Halves
  <1>0. /\ WTypeOK /\ Level(t, o) /\ Level(o, t) /\ Place(t, o) /\ Place(o, t)
        /\ o \in Threads /\ o # t
    BY <1>o, HalvesInv DEF Halves
  <1> HIDE DEF o
  <1>1. /\ UNCHANGED <<cntr, ld, alive, arr, dep>> /\ pc'[o] = pc[o]
        /\ pc[t] = "out" /\ pc'[t] = "call"
    BY <1>0 DEF Call, Goto, WTypeOK
  <1>2. WTypeOK' BY <1>0, <1>1 DEF Call, Goto, WTypeOK, PcValues
  <1>3. Level(t, o)' /\ Level(o, t)' BY <1>0, <1>1 DEF Level
  <1>4. Place(t, o)' BY <1>0, <1>1, ZenonT(30) DEF Place, Wrapping, Waiting
  <1>5. Place(o, t)' BY <1>0, <1>1, ZenonT(30) DEF Place
  <1> QED BY <1>h, <1>2, <1>3, <1>4, <1>5

\* tst_fzsync_pair_reset() starts both threads from the beginning.
LEMMA RestartInv == ASSUME WInv, Restart
                    PROVE  WInv'
  BY DEF Restart, WInv, WTypeOK, Rendezvous, Epoch, mine, Threads, Other, PcValues,
         Waiting, Wrapping

\* Thread B ends.
LEMMA ThreadEndInv == ASSUME WInv, ThreadEnd \/ UNCHANGED wvars
                      PROVE  WInv'
  <1>1. UNCHANGED <<cntr, pc, ld, arr, dep>> /\ alive' \in {alive, FALSE}
    BY Zenon DEF ThreadEnd, wvars
  <1>2. WTypeOK' BY <1>1, Zenon DEF WInv, WTypeOK
  <1>3. Rendezvous' BY <1>1 DEF WInv, Rendezvous
  <1> QED BY <1>1, <1>2, <1>3 DEF WInv, Epoch, mine

\* The inductive invariant holds in every reachable state.
THEOREM PairWaitInv == WSpec => []WInv
  <1>1. WInv /\ [WNext]_wvars => WInv'
    BY StepInv, CallInv, RestartInv, ThreadEndInv DEF WNext
  <1> QED BY <1>1, InitInv, PTL DEF WSpec

\* No thread ever leaves pair_wait before the other one has arrived as often as it
\* has, whatever INT_MAX is and however the loads and stores interleave.
THEOREM PairWaitRendezvous == WSpec => []Rendezvous
  <1>1. WInv => Rendezvous BY DEF WInv
  <1> QED BY <1>1, PairWaitInv, PTL

\* pair_wait implements the abstract rendezvous: its increment is the arrival, its
\* return the departure, and every other access to the counters is invisible.
THEOREM PairWaitRefines == WSpec => RendezvousImplemented
  <1> USE DEF R!Threads, R!Other, R!rvars, Threads, Other
  <1>1. WInit => R!RInit BY DEF WInit, R!RInit
  <1>2. WInv /\ [WNext]_wvars => [R!RNext]_(R!rvars)
    <2> SUFFICES ASSUME WInv, [WNext]_wvars PROVE [R!RNext]_(R!rvars) OBVIOUS
    <2> USE DEF R!RNext
    <2>1. ASSUME NEW t \in Threads, IncOther(t) PROVE R!RArrive(t)
      BY <2>1 DEF IncOther, Goto, R!RArrive, WInv
    <2>2. ASSUME NEW t \in Threads, LoadOtherReturn(t) \/ Drain(t) PROVE R!RLeave(t)
      BY <2>2 DEF LoadOtherReturn, Drain, Return, Goto, R!RLeave, WInv, WTypeOK,
                  Waiting, Wrapping, mine
    <2>3. ASSUME NEW t \in Threads,
                 Call(t) \/ LoadOur(t) \/ LoadOtherSpin(t) \/ CountSpin(t) \/ Positive(t)
                 \/ BelowMax(t) \/ StoreZero(t)
          PROVE UNCHANGED R!rvars
      BY <2>3 DEF Call, LoadOur, LoadOtherSpin, CountSpin, Positive, BelowMax, StoreZero
    <2>4. CASE ThreadEnd \/ UNCHANGED wvars BY <2>4 DEF ThreadEnd, wvars
    <2>5. CASE Restart BY <2>5 DEF Restart, R!RReset
    <2> QED BY <2>1, <2>2, <2>3, <2>4, <2>5 DEF WNext, Step
  <1> QED BY <1>1, <1>2, PairWaitInv, PTL DEF WSpec, RendezvousImplemented, R!RSpec
-----------------------------------------------------------------------------
(* The test around pair_wait *)

\* Every step of a test is a step of pair_wait or leaves its variables alone.
LEMMA StepsOfPairWait == [Next]_vars => [WNext]_wvars
  <1>1. ThreadA => WNext \/ UNCHANGED wvars
    BY DEF ThreadA, PairReset, PairResetReturn, RunA, StartRaceA, EndRaceA, CleanupExit,
           CleanupCancel, Join, Finish, WNext, Threads
  <1>2. ThreadB => WNext \/ UNCHANGED wvars
    BY DEF ThreadB, ThreadWrapper, RunB, ExitB, StartRaceB, EndRaceB, WNext, Threads
  <1>3. CancelB \/ Break \/ Terminated => WNext \/ UNCHANGED wvars
    BY DEF CancelB, Break, Terminated, WNext, vars
  <1>4. (\E t \in Threads : WaitStep(t)) => WNext BY DEF WaitStep, WNext
  <1> QED BY <1>1, <1>2, <1>3, <1>4 DEF Next, vars

\* The test is a client of pair_wait.
LEMMA ClientOfPairWait == Spec => WSpec
  <1>1. Init => WInit BY DEF Init
  <1> QED BY <1>1, StepsOfPairWait, PTL DEF Spec, WSpec

\* A step inside pair_wait neither makes nor undoes a call.
LEMMA StepCalls ==
    ASSUME WTypeOK, NEW t \in Threads, Step(t)
    PROVE  /\ pc[t] # "out" /\ pc'[Other(t)] = pc[Other(t)]
           /\ \A x \in Threads : Calls(x)' = Calls(x)
           /\ alive' = alive
  <1> DEFINE o == Other(t)
  <1>o. o \in Threads /\ o # t /\ \A x \in Threads : x = t \/ x = o BY DEF Threads, Other
  <1>1. CASE IncOther(t)
    <2>1. /\ pc[t] = "call" /\ pc'[t] # "call" /\ pc'[o] = pc[o]
          /\ arr'[t] = arr[t] + 1 /\ arr'[o] = arr[o] /\ alive' = alive
      BY <1>1, <1>o DEF IncOther, Goto, WTypeOK
    <2> QED BY <2>1, <1>o DEF Calls
  <1>2. CASE ~IncOther(t)
    <2>1. /\ pc[t] \notin {"out", "call"} /\ pc'[t] # "call" /\ pc'[o] = pc[o]
          /\ arr' = arr /\ alive' = alive
      BY <1>2, <1>o DEF Step, LoadOur, LoadOtherSpin, LoadOtherReturn, CountSpin, Positive,
                 BelowMax, StoreZero, Drain, Return, Goto, WTypeOK
    <2> QED BY <2>1, <1>o DEF Calls
  <1> QED BY <1>1, <1>2

\* A call of pair_wait.
LEMMA CallCalls ==
    ASSUME WTypeOK, NEW t \in Threads, Call(t)
    PROVE  /\ Calls(t)' = Calls(t) + 1 /\ Calls(Other(t))' = Calls(Other(t))
           /\ Calls(t) = arr[t] /\ ~Spinning(t)' /\ arr' = arr
           /\ alive' = alive /\ pc'[Other(t)] = pc[Other(t)]
  <1>1. /\ pc[t] = "out" /\ pc'[t] = "call" /\ pc'[Other(t)] = pc[Other(t)]
        /\ arr' = arr /\ alive' = alive
    BY OtherIsThread DEF Call, Goto, WTypeOK
  <1> QED BY <1>1 DEF Calls, Spinning

\* The thread that arrives second finds the first one's increment and does not spin.
LEMMA StepSpins == ASSUME WInv, OneSpins, NEW t \in Threads, Step(t)
                   PROVE  OneSpins'
  <1> DEFINE o == Other(t)
  <1>o. o \in Threads /\ o # t /\ o = Other(t) /\ Other(o) = t BY OtherIsThread
  <1>s. /\ OneSpins <=> ~ (arr[t] = arr[o] /\ Spinning(t) /\ Spinning(o))
        /\ OneSpins' <=> ~ (arr'[t] = arr'[o] /\ Spinning(t)' /\ Spinning(o)')
    BY <1>o DEF OneSpins, Threads
  <1>m. /\ mine(t) = cntr[o] /\ mine(o) = cntr[t]
        /\ mine(t)' = cntr'[o] /\ mine(o)' = cntr'[t] BY <1>o DEF mine
  <1>0. WTypeOK /\ Level(t, o) /\ Place(t, o) /\ Place(o, t)
    BY <1>o, HalvesInv DEF Halves
  <1>v. /\ cntr[t] \in 0 .. IntMax /\ cntr[o] \in 0 .. IntMax /\ arr[t] \in Nat /\ arr[o] \in Nat
        /\ ld[t] \in 0 .. IntMax /\ ld[o] \in 0 .. IntMax
    BY <1>0, <1>o, ZenonT(30) DEF WTypeOK
  <1> HIDE DEF o
  <1>1. CASE LoadOur(t)
    <2>1. /\ UNCHANGED <<cntr, arr>> /\ pc[t] = "load_our" /\ pc'[t] = "load_other"
          /\ ld'[t] = cntr[t]
      BY <1>1, <1>0, ZenonT(30) DEF LoadOur, Goto, WTypeOK
    <2>2. cntr[o] # IntMax BY <1>0, <2>1, ZenonT(30) DEF Place, Wrapping
    <2>3. arr[t] = arr[o] => cntr[t] >= cntr[o] BY <1>0, <1>v, <2>1, <2>2 DEF Level
    <2> QED BY <1>s, <1>m, <1>v, <2>1, <2>3 DEF Spinning
  <1>2. CASE BelowMax(t)
    <2>1. /\ UNCHANGED <<cntr, arr, ld>> /\ pc[t] = "below_max" /\ pc'[o] = pc[o]
          /\ pc'[t] = IF cntr[t] < IntMax THEN "wrap_spin" ELSE "store_zero"
      BY <1>2, <1>0, <1>o, ZenonT(30) DEF BelowMax, Goto, WTypeOK
    <2>2. cntr[o] = IntMax BY <1>0, <2>1, ZenonT(30) DEF Place, Wrapping
    <2>3. arr[t] = arr[o] => cntr[t] = IntMax \/ pc[o] = "drain"
      BY <1>0, <1>v, <2>1, <2>2 DEF Level
    <2> QED BY <1>s, <1>m, <1>v, <2>1, <2>3 DEF Spinning
  <1>3. CASE LoadOtherSpin(t)
    <2>1. /\ UNCHANGED <<cntr, arr, ld>> /\ pc[t] = "load_other" /\ pc'[o] = pc[o]
          /\ ld[t] < cntr[o]
      BY <1>3, <1>0, <1>o DEF LoadOtherSpin, Goto, WTypeOK
    <2> QED BY <1>s, <1>m, <2>1 DEF Spinning
  <1>4. CASE ~(LoadOur(t) \/ BelowMax(t) \/ LoadOtherSpin(t))
    <2>1. pc'[t] \notin {"load_other", "spin", "wrap_spin"}
      BY <1>4, <1>0, ZenonT(30) DEF Step, IncOther, LoadOtherReturn, CountSpin, Positive,
                 StoreZero, Drain, Return, Goto, WTypeOK
    <2> QED BY <1>s, <2>1 DEF Spinning
  <1> QED BY <1>1, <1>2, <1>3, <1>4

\* A step inside pair_wait moves neither thread in the test.
LEMMA WaitStepKeeps == ASSUME FuzzyInv, NEW t \in Threads, WaitStep(t)
                       PROVE  FuzzyInv'
  <1>1. Step(t) /\ UNCHANGED pvars BY DEF WaitStep
  <1>2. TypeOK /\ WTypeOK /\ WInv /\ OneSpins BY ZenonT(30) DEF FuzzyInv, TypeOK
  <1>3. /\ pc[t] # "out" /\ pc'[Other(t)] = pc[Other(t)] /\ alive' = alive
        /\ Calls(A)' = Calls(A) /\ Calls(B)' = Calls(B)
    BY <1>1, <1>2, StepCalls DEF Threads
  <1>4. WInv' /\ OneSpins' BY <1>1, <1>2, StepInv, StepSpins, SMTT(20)
  <1>5. TypeOK' BY <1>1, <1>2, <1>4, ZenonT(30) DEF TypeOK, WInv, pvars
  <1>6. pc[A] = "out" => pc'[A] = "out" BY <1>3, ZenonT(30) DEF Threads, Other
  <1>7. PlaceOfA'
    BY <1>1, <1>3, <1>6, ZenonT(30) DEF FuzzyInv, PlaceOfA, pvars, Entered, Racing, Raced
  <1>8. PlaceOfB' BY <1>1, <1>3 DEF FuzzyInv, PlaceOfB, pvars
  <1> QED BY <1>1, <1>3, <1>4, <1>5, <1>7, <1>8 DEF FuzzyInv, pvars

\* What a call of pair_wait by one thread means for both.
LEMMA CallKeeps == ASSUME WInv, OneSpins, NEW t \in Threads, Call(t)
                   PROVE  WInv' /\ OneSpins'
  <1>1. ~Spinning(t)' BY CallCalls DEF WInv
  <1> QED BY <1>1, CallInv DEF OneSpins, Threads

\* Thread A enters, begins and ends an iteration.
LEMMA CallsOfA ==
    ASSUME FuzzyInv, RunA \/ StartRaceA \/ EndRaceA
    PROVE  FuzzyInv'
  <1>1. /\ Call(A) /\ pc[A] = "out" /\ A \in Threads /\ B \in Threads /\ Other(A) = B
        /\ UNCHANGED <<cancelled, loop_b, resets>>
    BY DEF RunA, StartRaceA, EndRaceA, Here, Threads, Other
  <1>2. TypeOK /\ WTypeOK /\ WInv /\ OneSpins /\ PlaceOfA /\ PlaceOfB BY DEF FuzzyInv, TypeOK
  <1>3. WInv' /\ OneSpins' BY <1>1, <1>2, CallKeeps
  <1>4. /\ Calls(A)' = Calls(A) + 1 /\ Calls(B)' = Calls(B) /\ alive' = alive
        /\ Calls(A) = arr[A] /\ arr[A] \in Nat
    BY <1>1, <1>2, CallCalls DEF WTypeOK
  <1>5. at'[B] = at[B] /\ at'[A] \in {"ran", "race_a", "run_a"}
    BY <1>1, <1>2 DEF RunA, StartRaceA, EndRaceA, Continue, TypeOK
  <1>6. PlaceOfB' BY <1>1, <1>2, <1>4, <1>5 DEF PlaceOfB
  <1>7. TypeOK' /\ PlaceOfA'
    <2>0. exec_loop \in Nat /\ ExecLoops \in Nat /\ MinSamples \in Nat /\ sampling \in Int
      <3>1. exec_loop \in 0 .. ExecLoops + 1 /\ sampling \in -1 .. MinSamples
        BY <1>2, ZenonT(30) DEF TypeOK
      <3> QED BY <3>1, LoopsAssumption
    <2>t. at' \in [Threads -> {"none", "reset", "created", "run_a", "ran", "race_a",
                      "cleanup_brk", "cancel", "join_brk", "end",
                      "wrapper", "wild", "run_b", "load_exit", "delay_b"}] /\ WTypeOK'
      BY <1>1, <1>2, <1>3, ZenonT(30) DEF RunA, StartRaceA, EndRaceA, Continue, TypeOK, WInv
    <2>1. CASE RunA
      <3>1. /\ at[A] = "run_a" /\ at'[A] = "ran" /\ exec_loop' = exec_loop + 1 /\ delay' = delay
            /\ exit' \in {0, 1} /\ (exec_loop + 1 > ExecLoops => exit' = 1)
            /\ sampling' \in {sampling, 0}
        BY <1>1, <1>2, <2>1 DEF RunA, Here, Continue, TypeOK
      <3>2. exec_loop <= ExecLoops /\ Raced BY <1>2, <3>1 DEF PlaceOfA
      <3>3. TypeOK' BY <1>1, <1>2, <2>0, <2>t, <3>1, <3>2 DEF TypeOK
      <3>4. Entered' BY <2>0, <3>1, <3>2, <1>4 DEF Raced, Entered
      <3> QED BY <2>0, <3>1, <3>3, <3>4 DEF PlaceOfA
    <2>2. CASE StartRaceA
      <3>1. /\ at[A] = "ran" /\ at'[A] = "race_a" /\ exec_loop' = exec_loop /\ delay' = exec_loop
            /\ exit = 0 /\ exit' = exit
            /\ (sampling > 0 /\ sampling' = sampling - 1) \/ sampling' \in {sampling, -1}
        BY <1>1, <1>2, <2>2 DEF StartRaceA, PairUpdate, Here, Continue, TypeOK
      <3>2. exec_loop <= ExecLoops /\ Entered BY <1>2, <3>1 DEF PlaceOfA
      <3>3. TypeOK' BY <1>1, <1>2, <2>0, <2>t, <3>1, <3>2 DEF TypeOK
      <3>4. Racing' BY <2>0, <3>1, <3>2, <1>4 DEF Racing, Entered
      <3> QED BY <2>0, <3>1, <3>2, <3>3, <3>4 DEF PlaceOfA
    <2>3. CASE EndRaceA
      <3>1. /\ at[A] = "race_a" /\ at'[A] = "run_a"
            /\ UNCHANGED <<exec_loop, delay, exit, sampling>>
        BY <1>1, <1>2, <2>3 DEF EndRaceA, Here, Continue, TypeOK
      <3>2. Racing /\ exit = 0 /\ exec_loop <= ExecLoops BY <1>2, <3>1 DEF PlaceOfA
      <3>3. TypeOK' BY <1>1, <1>2, <2>t, <3>1 DEF TypeOK
      <3>4. Raced' BY <2>0, <3>1, <3>2, <1>4 DEF Racing, Raced
      <3> QED BY <2>0, <3>1, <3>2, <3>3, <3>4 DEF PlaceOfA
    <2> QED BY <2>1, <2>2, <2>3
  <1> QED BY <1>3, <1>4, <1>5, <1>6, <1>7 DEF FuzzyInv

\* Steps of thread A that stay away from pair_wait.
LEMMA MovesOfA ==
    ASSUME FuzzyInv,
           PairResetReturn \/ CleanupExit \/ CleanupCancel \/ Join \/ Finish \/ Break
    PROVE  FuzzyInv'
  <1>1. /\ UNCHANGED <<wvars, exec_loop, sampling, delay, loop_b, resets>>
        /\ pc[A] = "out" /\ \E p : at' = [at EXCEPT ![A] = p]
        /\ \/ at[A] = "created" /\ at'[A] = "run_a" /\ exit' = exit
           \/ at[A] = "cleanup_brk" /\ exit = 0 /\ exit' = 1 /\ at'[A] = "cancel"
           \/ at[A] = "cancel" /\ exit' = exit /\ at'[A] = "join_brk"
           \/ at[A] = "ran" /\ exit = 1 /\ exit' = exit /\ at'[A] = "reset" /\ ~alive
           \/ at[A] = "join_brk" /\ exit' = exit /\ at'[A] \in {"reset", "end"} /\ ~alive
           \/ at[A] = "reset" /\ exit' = exit /\ at'[A] = "end" /\ ~alive
           \/ /\ at[A] \in {"run_a", "ran", "race_a"} /\ exit = 0 /\ exit' = exit
              /\ at'[A] = "cleanup_brk"
    BY DEF FuzzyInv, TypeOK, PairResetReturn, CleanupExit, CleanupCancel, Join, Finish, Break, Here,
           Continue, Threads
  <1>c. cancelled' \in BOOLEAN
    BY Zenon DEF FuzzyInv, TypeOK, PairResetReturn, CleanupExit, CleanupCancel, Join, Finish, Break
  <1>2. TypeOK /\ WTypeOK /\ WInv /\ OneSpins /\ PlaceOfA /\ PlaceOfB
    BY SMTT(20) DEF FuzzyInv, TypeOK
  <1>3. WInv' /\ OneSpins'
    BY <1>1, <1>2, ThreadEndInv, ZenonT(30) DEF OneSpins, Spinning, mine, wvars
  <1>4. Calls(A)' = Calls(A) /\ Calls(B)' = Calls(B) /\ pc' = pc /\ alive' = alive
    BY <1>1, ZenonT(30) DEF Calls, wvars
  <1>5. at'[B] = at[B] /\ TypeOK'
    <2>1. at'[B] = at[B] BY <1>1, <1>2 DEF TypeOK, Threads
    <2>2. at' \in [Threads -> {"none", "reset", "created", "run_a", "ran", "race_a",
                      "cleanup_brk", "cancel", "join_brk", "end",
                      "wrapper", "wild", "run_b", "load_exit", "delay_b"}]
      BY <1>1, <1>2 DEF TypeOK, Threads
    <2> QED BY <1>1, <1>c, <1>2, <1>3, <2>1, <2>2, ZenonT(30) DEF TypeOK, WInv
  <1>6. PlaceOfB' BY <1>1, <1>2, <1>4, <1>5, ZenonT(30) DEF PlaceOfB
  <1>7. PlaceOfA'
    <2>1. (Entered' <=> Entered) /\ (Racing' <=> Racing) /\ (Raced' <=> Raced)
      BY <1>1, <1>4 DEF Entered, Racing, Raced
    <2> QED BY <1>1, <1>2, <1>4, <2>1 DEF PlaceOfA
  <1> QED BY <1>1, <1>3, <1>4, <1>5, <1>6, <1>7, ZenonT(30) DEF FuzzyInv

\* pair_reset() begins the next run of the test.
LEMMA PairResetKeeps == ASSUME FuzzyInv, PairReset PROVE FuzzyInv'
  <1>1. TypeOK /\ WInv /\ Restart /\ pc[A] = "out" /\ pc'[A] = "out" /\ pc'[B] = "out"
    BY DEF FuzzyInv, TypeOK, WTypeOK, PairReset, Restart, Threads
  <1>2. WInv' BY <1>1, RestartInv
  <1>3. OneSpins' BY <1>1 DEF OneSpins, Spinning
  <1>4. Calls(A)' = 0 /\ Calls(B)' = 0 BY <1>1 DEF Calls, Restart, Threads
  <1>5. at'[A] = "created" /\ at'[B] = "wrapper"
    BY <1>1, ZenonT(30) DEF PairReset, TypeOK, Threads
  <1>6. TypeOK'
    <2>1. resets' \in 0 .. MaxResets BY <1>1, LoopsAssumption DEF PairReset, TypeOK
    <2>2. sampling' \in -1 .. MinSamples BY LoopsAssumption DEF PairReset
    <2>3. cancelled' \in BOOLEAN BY Zenon DEF PairReset
    <2> QED BY <1>1, <1>2, <2>1, <2>2, <2>3, LoopsAssumption DEF PairReset, TypeOK, WInv, Threads
  <1>7. PlaceOfA' /\ PlaceOfB'
    BY <1>1, <1>4, <1>5, LoopsAssumption DEF PairReset, PlaceOfA, PlaceOfB, Raced
  <1> QED BY <1>2, <1>3, <1>5, <1>6, <1>7, ZenonT(30) DEF FuzzyInv

\* Thread B ends.
LEMMA EndOfB == ASSUME FuzzyInv, ExitB \/ CancelB \/ UNCHANGED vars PROVE FuzzyInv'
  <1>1. /\ UNCHANGED <<cntr, pc, ld, arr, dep, pvars>> /\ alive' \in {alive, FALSE}
        /\ ThreadEnd \/ UNCHANGED wvars
    BY Zenon DEF ExitB, CancelB, ThreadEnd, vars, wvars
  <1>2. WInv' BY <1>1, ThreadEndInv DEF FuzzyInv
  <1>3. OneSpins' BY <1>1, ZenonT(30) DEF FuzzyInv, OneSpins, Spinning, mine
  <1>4. PlaceOfA' /\ PlaceOfB'
    BY <1>1, SMTT(20) DEF FuzzyInv, PlaceOfA, PlaceOfB, Entered, Racing, Raced, Calls, pvars
  <1>5. TypeOK' BY <1>1, <1>2, ZenonT(30) DEF FuzzyInv, TypeOK, WInv, pvars
  <1>6. alive' => alive BY <1>1, Zenon
  <1>7. at' = at BY <1>1 DEF pvars
  <1> QED BY <1>2, <1>3, <1>4, <1>5, <1>6, <1>7 DEF FuzzyInv

\* While thread B is outside pair_wait, thread A is in the same call or in the next.
LEMMA InStep ==
    ASSUME FuzzyInv, alive, pc[B] = "out"
    PROVE  /\ arr[B] <= arr[A] /\ arr[A] <= arr[B] + 1 /\ Calls(B) = arr[B]
           /\ Calls(A) \in {arr[A], arr[A] + 1} /\ (pc[A] = "out" => Calls(A) = arr[A])
           /\ arr[A] = arr[B] + 1 => pc[A] # "call"
           /\ arr[A] \in Nat /\ arr[B] \in Nat
  <1>1. /\ A \in Threads /\ B \in Threads /\ Other(A) = B /\ Other(B) = A /\ WInv
        /\ arr[A] \in Nat /\ arr[B] \in Nat
    BY ZenonT(30) DEF FuzzyInv, Threads, Other, WInv, WTypeOK
  <1>2. arr[B] <= arr[A] /\ (pc[A] = "call" => arr[A] <= arr[B]) BY <1>1 DEF WInv, Rendezvous
  <1>3. arr[A] <= arr[B] + 1 BY <1>1, ZenonT(30) DEF WInv
  <1> QED BY <1>1, <1>2, <1>3 DEF Calls

\* Thread B in iteration i: thread A is in it as well, or waits in the next one.
LEMMA Published ==
    ASSUME FuzzyInv, alive, pc[B] = "out"
    PROVE  /\ at[B] = "run_b" => loop_b <= ExecLoops
           /\ at[B] = "load_exit" => exec_loop = loop_b
           /\ at[B] = "delay_b" => delay = loop_b
  <1>1. /\ loop_b \in Nat /\ exec_loop \in Nat /\ delay \in Nat /\ ExecLoops \in Nat
        /\ exec_loop <= ExecLoops + 1
    BY LoopsAssumption DEF FuzzyInv, TypeOK
  <1>2. /\ Entered \/ Racing \/ Raced
        /\ Racing \/ Raced => exec_loop <= ExecLoops
    <2>1. PlaceOfA /\ at[A] \notin {"reset", "end"} BY DEF FuzzyInv
    <2>2. Entered \/ Racing \/ Raced BY <2>1 DEF PlaceOfA
    <2>3. Racing \/ Raced => at[A] # "ran"
      BY <1>1, <2>1 DEF PlaceOfA, Entered, Racing, Raced
    <2> QED BY <2>1, <2>2, <2>3 DEF PlaceOfA
  <1>3. PlaceOfB BY ZenonT(30) DEF FuzzyInv
  <1> QED BY <1>1, <1>2, <1>3, InStep DEF PlaceOfB, Entered, Racing, Raced

\* Thread B enters, begins and ends an iteration.
LEMMA CallsOfB ==
    ASSUME FuzzyInv, RunB \/ StartRaceB \/ EndRaceB
    PROVE  FuzzyInv'
  <1>1. /\ Call(B) /\ alive /\ pc[B] = "out" /\ A \in Threads /\ B \in Threads /\ Other(B) = A
        /\ UNCHANGED <<exit, exec_loop, sampling, delay, cancelled, resets>>
    BY DEF RunB, StartRaceB, EndRaceB, Here, Runs, Threads, Other
  <1>2. TypeOK /\ WTypeOK /\ WInv /\ OneSpins /\ PlaceOfA /\ PlaceOfB BY DEF FuzzyInv, TypeOK
  <1>3. WInv' /\ OneSpins' BY <1>1, <1>2, CallKeeps
  <1>4. /\ Calls(B)' = Calls(B) + 1 /\ Calls(A)' = Calls(A) /\ alive' = alive
        /\ Calls(B) = arr[B] /\ arr[B] \in Nat /\ pc'[A] = pc[A]
    BY <1>1, <1>2, CallCalls, ZenonT(30) DEF WTypeOK
  <1>5. /\ at'[A] = at[A]
        /\ \/ at[B] = "run_b" /\ at'[B] = "load_exit" /\ loop_b' = loop_b + 1
           \/ at[B] = "load_exit" /\ at'[B] = "delay_b" /\ loop_b' = loop_b
           \/ at[B] = "delay_b" /\ at'[B] = "run_b" /\ loop_b' = loop_b
    BY <1>1, <1>2, ZenonT(30) DEF RunB, StartRaceB, EndRaceB, Continue, Here, TypeOK
  <1>6. PlaceOfA'
    BY <1>1, <1>2, <1>4, <1>5 DEF PlaceOfA, Entered, Racing, Raced
  <1>7. loop_b \in Nat
    <2>1. loop_b \in 0 .. ExecLoops + 1 BY <1>2, ZenonT(30) DEF TypeOK
    <2> QED BY <2>1, LoopsAssumption
  <1>8. PlaceOfB'
    <2>1. Calls(B) \in Nat BY <1>4, Zenon
    <2>2. CASE at[B] = "run_b" /\ at'[B] = "load_exit" /\ loop_b' = loop_b + 1
      <3>1. Calls(B) = 3 * loop_b BY <1>2, <2>2, Zenon DEF PlaceOfB
      <3>2. Calls(B)' = 3 * loop_b' - 2 BY <1>4, <1>7, <2>1, <2>2, <3>1
      <3> QED BY <2>2, <3>2, Zenon DEF PlaceOfB
    <2>3. CASE at[B] = "load_exit" /\ at'[B] = "delay_b" /\ loop_b' = loop_b
      <3>1. Calls(B) = 3 * loop_b - 2 BY <1>2, <2>3, Zenon DEF PlaceOfB
      <3>2. Calls(B)' = 3 * loop_b' - 1 BY <1>4, <1>7, <2>1, <2>3, <3>1
      <3> QED BY <2>3, <3>2, Zenon DEF PlaceOfB
    <2>4. CASE at[B] = "delay_b" /\ at'[B] = "run_b" /\ loop_b' = loop_b
      <3>1. Calls(B) = 3 * loop_b - 1 BY <1>2, <2>4, Zenon DEF PlaceOfB
      <3>2. Calls(B)' = 3 * loop_b' BY <1>4, <1>7, <2>4, <3>1, LastCall, ZenonT(30)
      <3> QED BY <2>4, <3>2, Zenon DEF PlaceOfB
    <2> QED BY <1>5, <2>2, <2>3, <2>4, Zenon
  <1>9. TypeOK'
    <2>1. at' \in [Threads -> {"none", "reset", "created", "run_a", "ran", "race_a",
                      "cleanup_brk", "cancel", "join_brk", "end",
                      "wrapper", "wild", "run_b", "load_exit", "delay_b"}]
      BY <1>1, <1>2, ZenonT(30) DEF RunB, StartRaceB, EndRaceB, Continue, TypeOK
    <2>2. loop_b' \in 0 .. ExecLoops + 1
      BY <1>1, <1>2, <1>5, Published, LoopsAssumption DEF TypeOK
    <2> QED BY <1>1, <1>2, <1>3, <2>1, <2>2 DEF TypeOK, WInv
  <1> QED BY <1>1, <1>3, <1>4, <1>5, <1>6, <1>8, <1>9, ZenonT(30) DEF FuzzyInv

\* tst_fzsync_thread_wrapper() copies the function it is to run.
LEMMA WrapperKeeps == ASSUME FuzzyInv, ThreadWrapper PROVE FuzzyInv'
  <1>1. /\ UNCHANGED <<wvars, exit, exec_loop, sampling, delay, cancelled, loop_b, resets>>
        /\ at[B] = "wrapper" /\ at'[A] = at[A] /\ at'[B] \in {"run_b", "wild"}
        /\ at' \in [Threads -> {"none", "reset", "created", "run_a", "ran", "race_a",
                      "cleanup_brk", "cancel", "join_brk", "end",
                      "wrapper", "wild", "run_b", "load_exit", "delay_b"}]
    BY DEF FuzzyInv, TypeOK, ThreadWrapper, Continue, Here, Threads
  <1>2. TypeOK /\ WTypeOK /\ WInv /\ OneSpins /\ PlaceOfA /\ PlaceOfB
    BY ZenonT(30) DEF FuzzyInv, TypeOK
  <1>3. WInv' /\ OneSpins'
    BY <1>1, <1>2, ThreadEndInv DEF OneSpins, Spinning, mine, wvars
  <1>4. Calls(A)' = Calls(A) /\ Calls(B)' = Calls(B) /\ pc' = pc /\ alive' = alive
    BY <1>1, ZenonT(30) DEF Calls, wvars
  <1>5. TypeOK' BY <1>1, <1>2, <1>3, ZenonT(30) DEF TypeOK, WInv
  <1>6. PlaceOfA' BY <1>1, <1>2, <1>4 DEF PlaceOfA, Entered, Racing, Raced
  <1>7. PlaceOfB' BY <1>1, <1>2, <1>4 DEF PlaceOfB
  <1> QED BY <1>1, <1>3, <1>4, <1>5, <1>6, <1>7 DEF FuzzyInv

\* The first pair_reset() finds everything zeroed.
LEMMA FuzzyInitInv == Init => FuzzyInv
  <1> SUFFICES ASSUME Init PROVE FuzzyInv OBVIOUS
  <1>1. WInv /\ WInit BY InitInv, ZenonT(30) DEF Init
  <1>2. TypeOK
    <2>1. cancelled \in BOOLEAN BY Zenon DEF Init
    <2> QED BY <1>1, <2>1, LoopsAssumption DEF TypeOK, Init, WInv
  <1>3. at[A] = "reset" /\ at[B] = "none" /\ pc[A] = "out" /\ pc[B] = "out" /\ ~alive
    BY DEF Init, WInit, Threads
  <1>4. PlaceOfA /\ PlaceOfB BY <1>3, LoopsAssumption DEF Init, PlaceOfA, PlaceOfB
  <1> QED BY <1>1, <1>2, <1>3, <1>4 DEF FuzzyInv, OneSpins, Spinning

\* The inductive invariant of the test, for every number of loops, samples and resets
\* and every value of INT_MAX.
THEOREM FuzzyInvariant == Spec => []FuzzyInv
  <1>1. FuzzyInv /\ [Next]_vars => FuzzyInv'
    <2> SUFFICES ASSUME FuzzyInv, [Next]_vars PROVE FuzzyInv' OBVIOUS
    <2>1. CASE ThreadA
      BY <2>1, CallsOfA, MovesOfA, PairResetKeeps DEF ThreadA
    <2>2. CASE ThreadB
      BY <2>2, CallsOfB, WrapperKeeps, EndOfB DEF ThreadB
    <2>3. CASE CancelB \/ Break \/ Terminated \/ UNCHANGED vars
      BY <2>3, EndOfB, MovesOfA DEF Terminated
    <2>4. CASE \E t \in Threads : WaitStep(t) BY <2>4, WaitStepKeeps
    <2> QED BY <2>1, <2>2, <2>3, <2>4 DEF Next
  <1> QED BY <1>1, FuzzyInitInv, PTL DEF Spec

\* Every variable keeps its type; above all, thread A's loop counter exceeds
\* pair->exec_loops by at most the one iteration that ends the test, and thread B
\* never enters an iteration beyond it.
THEOREM FuzzyTypes == Spec => []TypeOK
  <1>1. FuzzyInv => TypeOK BY DEF FuzzyInv
  <1> QED BY <1>1, FuzzyInvariant, PTL

\* Thread B reads pair->exit and pair->delay of the iteration it is in, although
\* thread A writes them without a lock.
THEOREM ReadsOwnIteration == Spec => []SameIteration
  <1>1. FuzzyInv => SameIteration
    BY Published DEF SameIteration, Here, Runs
  <1> QED BY <1>1, FuzzyInvariant, PTL

\* The unprotected spin counter is never incremented by both threads at once, nor
\* cleared by thread A while thread B may still increment it.
THEOREM SpinsUnshared == Spec => []SpinsNotRaced
  <1>1. FuzzyInv => SpinsNotRaced
    <2> SUFFICES ASSUME FuzzyInv, alive PROVE SpinsNotRaced BY ZenonT(30) DEF SpinsNotRaced
    <2>1. /\ A \in Threads /\ B \in Threads /\ Other(A) = B /\ Other(B) = A
          /\ WInv /\ PlaceOfA /\ PlaceOfB /\ OneSpins
          /\ arr[A] \in Nat /\ arr[B] \in Nat /\ exec_loop \in Nat /\ loop_b \in Nat
      BY SMTT(20) DEF FuzzyInv, TypeOK, Threads, Other, WInv, WTypeOK
    <2>2. arr[A] <= arr[B] + 1 /\ arr[B] <= arr[A] + 1 BY <2>1, Zenon DEF WInv
    <2>3. ASSUME pc[A] \in {"spin", "wrap_spin"}, pc[B] \in {"spin", "wrap_spin"},
                 at[A] = "run_a", at[B] = "run_b"
          PROVE  FALSE
      <3>1. arr[A] = 3 * exec_loop /\ arr[B] = 3 * loop_b
        BY <2>1, <2>3 DEF PlaceOfA, PlaceOfB, Raced, Calls
      <3>2. arr[A] = arr[B] BY <2>1, <2>2, <3>1
      <3> QED BY <2>1, <2>3, <3>2, ZenonT(30) DEF OneSpins, Spinning
    <2>4. ASSUME Here(A, "ran"), at[B] = "run_b" PROVE FALSE
      <3>1. arr[A] = 3 * exec_loop - 2 /\ arr[B] >= arr[A]
        BY <2>1, <2>4 DEF Here, PlaceOfA, Entered, Calls, WInv, Rendezvous
      <3>2. arr[B] = 3 * loop_b \/ (pc[B] = "call" /\ arr[B] + 1 = 3 * loop_b)
        BY <2>1, <2>4, ZenonT(30) DEF PlaceOfB, Calls
      <3>3. pc[B] = "call" => arr[A] >= arr[B] BY <2>1, ZenonT(30) DEF WInv, Rendezvous
      <3>4. arr[A] \in Nat /\ arr[B] \in Nat /\ exec_loop \in Nat /\ loop_b \in Nat
        BY <2>1, Zenon
      <3> QED BY <2>2, <3>1, <3>2, <3>3, <3>4, ThreeCalls, ZenonT(30)
    <2> QED BY <2>3, <2>4 DEF SpinsNotRaced, Threads
  <1> QED BY <1>1, FuzzyInvariant, PTL

\* While one thread executes its raced call, the other is in the race of the same
\* iteration, or in the wait that ends it.
THEOREM RacesTogether == Spec => []RaceTogether
  <1>1. FuzzyInv => RaceTogether
    <2> SUFFICES ASSUME FuzzyInv, alive PROVE RaceTogether BY ZenonT(30) DEF RaceTogether
    <2>1. /\ A \in Threads /\ B \in Threads /\ Other(A) = B /\ Other(B) = A
          /\ TypeOK /\ WInv /\ PlaceOfA /\ PlaceOfB /\ Rendezvous
          /\ at[A] \notin {"reset", "end"} /\ at[B] # "none"
      BY ZenonT(30) DEF FuzzyInv, Threads, Other, WInv
    <2>2. /\ arr[A] \in Nat /\ arr[B] \in Nat /\ exec_loop \in Nat /\ loop_b \in Nat
          /\ Calls(A) \in Int /\ Calls(B) \in Int
      <3>1. /\ exec_loop \in 0 .. ExecLoops + 1 /\ loop_b \in 0 .. ExecLoops + 1
            /\ arr[A] \in Nat /\ arr[B] \in Nat
        BY <2>1, ZenonT(30) DEF TypeOK, WTypeOK
      <3> QED BY <3>1, LoopsAssumption DEF Calls
    <2>3. arr[A] <= arr[B] + 1 /\ arr[B] <= arr[A] + 1 BY <2>1, ZenonT(30) DEF WInv
    <2>4. \A t \in Threads :
            \/ Calls(t) = arr[t]
            \/ pc[t] = "call" /\ Calls(t) = arr[t] + 1 /\ arr[t] <= arr[Other(t)]
      <3>1. \A t \in Threads : pc[t] = "call" => arr[Other(t)] >= arr[t]
        BY <2>1, ZenonT(30) DEF Rendezvous
      <3>2. \A t \in Threads : arr[t] \in Nat /\ arr[Other(t)] \in Nat
        BY <2>1, <2>2, ZenonT(30) DEF Threads
      <3> QED BY <3>1, <3>2 DEF Calls
    <2>5. ASSUME Here(A, "race_a"), at[B] # "wild"
          PROVE  loop_b = exec_loop /\ at[B] \in {"delay_b", "run_b"}
      <3>1. pc[A] = "out" /\ at[A] = "race_a" BY <2>5, Zenon DEF Here
      <3>2. arr[A] = 3 * exec_loop - 1
        BY <2>1, <3>1, ZenonT(30) DEF PlaceOfA, Racing, Calls
      <3>3. arr[A] <= arr[B]
        <4>1. arr[B] >= arr[A] BY <2>1, <3>1, ZenonT(30) DEF Rendezvous
        <4> QED BY <2>2, <4>1
      <3>4. Calls(B) = arr[B] \/ (Calls(B) = arr[B] + 1 /\ arr[B] <= arr[A])
        BY <2>1, <2>4, Zenon
      <3>5. /\ Calls(B) # 0 /\ Calls(B) # 3 * loop_b - 2
            /\ Calls(B) = 3 * loop_b \/ Calls(B) = 3 * loop_b - 1 => loop_b = exec_loop
        BY <2>2, <2>3, <3>2, <3>3, <3>4, SameRace
      <3>6. at[B] # "wrapper"
        <4>1. at[B] = "wrapper" => loop_b = 0 /\ Calls(B) = 3 * loop_b
          BY <2>1, ZenonT(30) DEF PlaceOfB
        <4> QED BY <3>5, <4>1
      <3> QED BY <2>1, <2>5, <3>5, <3>6, ZenonT(30) DEF PlaceOfB
    <2>6. ASSUME Here(B, "delay_b"), at[A] \notin {"cleanup_brk", "cancel", "join_brk"}
          PROVE  loop_b = exec_loop /\ at[A] \in {"race_a", "run_a"}
      <3>1. pc[B] = "out" /\ at[B] = "delay_b" BY <2>6, Zenon DEF Here
      <3>2. arr[B] = 3 * loop_b - 1 BY <2>1, <3>1, ZenonT(30) DEF PlaceOfB, Calls
      <3>3. arr[B] <= arr[A]
        <4>1. arr[A] >= arr[B] BY <2>1, <3>1, ZenonT(30) DEF Rendezvous
        <4> QED BY <2>2, <4>1
      <3>4. Calls(A) = arr[A] \/ (Calls(A) = arr[A] + 1 /\ arr[A] <= arr[B])
        BY <2>1, <2>4, Zenon
      <3>5. /\ Calls(A) # 0 /\ Calls(A) # 3 * exec_loop - 2
            /\ Calls(A) = 3 * exec_loop \/ Calls(A) = 3 * exec_loop - 1 => exec_loop = loop_b
        BY <2>2, <2>3, <3>2, <3>3, <3>4, SameRace
      <3>6. at[A] # "created"
        <4>1. at[A] = "created" => exec_loop = 0 /\ Calls(A) = 3 * exec_loop
          BY <2>1, ZenonT(30) DEF PlaceOfA, Raced
        <4> QED BY <3>5, <4>1
      <3> QED BY <2>1, <2>6, <3>5, <3>6, ZenonT(30) DEF PlaceOfA, Entered, Racing, Raced
    <2> QED BY <2>5, <2>6, ZenonT(30) DEF RaceTogether
  <1> QED BY <1>1, FuzzyInvariant, PTL

\* The whole test keeps the promise of pair_wait, pair_reset and cancellation included.
THEOREM TestRendezvous == Spec => []Rendezvous
  BY ClientOfPairWait, PairWaitRendezvous, PTL

\* The whole test implements the abstract rendezvous.
THEOREM TestRefines == Spec => RendezvousImplemented
  BY ClientOfPairWait, PairWaitRefines, PTL
=============================================================================
