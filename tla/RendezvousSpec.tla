--------------------------- MODULE RendezvousSpec ---------------------------
(***************************************************************************)
(* What tst_fzsync_pair_wait() promises to its two callers, without any    *)
(* counter, wrap-around or spin loop: a reusable two-party rendezvous.     *)
(* arr[t] is the number of times thread t has arrived at the rendezvous,   *)
(* dep[t] the number of times it has left it.  A thread that has arrived   *)
(* leaves only once the other one has arrived as often as it has.          *)
(***************************************************************************)
EXTENDS Naturals

CONSTANTS A, B

VARIABLES arr, dep

rvars == <<arr, dep>>

Threads == {A, B}

Other(t) == IF t = A THEN B ELSE A

RInit == /\ arr = [t \in Threads |-> 0]
         /\ dep = [t \in Threads |-> 0]

RArrive(t) == /\ dep[t] = arr[t]
              /\ arr' = [arr EXCEPT ![t] = @ + 1]
              /\ dep' = dep

RLeave(t) == /\ dep[t] < arr[t]
             /\ arr[Other(t)] >= arr[t]
             /\ dep' = [dep EXCEPT ![t] = @ + 1]
             /\ arr' = arr

\* tst_fzsync_pair_reset(): the pair starts again from the beginning.
RReset == /\ arr' = [t \in Threads |-> 0]
          /\ dep' = [t \in Threads |-> 0]

RNext == \/ \E t \in Threads : RArrive(t) \/ RLeave(t)
         \/ RReset

RSpec == RInit /\ [][RNext]_rvars
=============================================================================
