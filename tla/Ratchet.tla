------------------------------ MODULE Ratchet -------------------------------
(***************************************************************************)
(* The signal ratchet of ltp-pan: wait_handler() of ltp/pan/ltp-pan.c,     *)
(* which is both the handler of every signal ltp-pan catches and the       *)
(* function the scheduler calls to signal itself.  It notes the signal     *)
(* received and chooses the one to send to the process groups; "none"      *)
(* stands for the value 0.  SIGUSR2 is noted but never sent on.            *)
(***************************************************************************)
CONSTANTS Signals,      \* the signals that reach ltp-pan
          Handled       \* the signals it catches

VARIABLES rec_signal, send_signal, lastsent

rvars == <<rec_signal, send_signal, lastsent>>

Sendable == (Handled \ {"USR2"}) \cup {"INT", "TERM", "HUP", "KILL"}

RatchetInit == rec_signal = "none" /\ send_signal = "none" /\ lastsent = "none"

\* Mutant: the ratchet stops at SIGHUP.
EscalateNoKill(sig) ==
    IF lastsent = "none" THEN sig
    ELSE IF lastsent = "USR1" THEN "INT"
    ELSE IF lastsent = sig THEN "TERM"
    ELSE IF lastsent = "TERM" THEN "HUP"
    ELSE send_signal

\* The signal to send when sig is received; with no rule for the last signal sent,
\* send_signal keeps what it holds.
Escalate(sig) ==
    IF lastsent = "none" THEN sig
    ELSE IF lastsent = "USR1" THEN "INT"
    ELSE IF lastsent = sig THEN "TERM"
    ELSE IF lastsent = "TERM" THEN "HUP"
    ELSE IF lastsent = "HUP" THEN "KILL"
    ELSE send_signal

\* wait_handler(sig), sig # 0
WaitHandler(sig) ==
    /\ rec_signal' = sig
    /\ IF sig = "USR2"
       THEN UNCHANGED <<send_signal, lastsent>>
       ELSE /\ send_signal' = Escalate(sig)
            /\ lastsent' = Escalate(sig)

\* wait_handler(0): reset the ratchet.
ResetRatchet == lastsent' = "none" /\ UNCHANGED <<rec_signal, send_signal>>

\* rec_signal = send_signal = 0: two stores, one step.  A signal handled between them,
\* which would be forgotten with the ratchet one notch further, is left out.
TakeSignal == rec_signal' = "none" /\ send_signal' = "none" /\ UNCHANGED lastsent

RatchetTypeOK ==
    /\ rec_signal \in Handled \cup {"none"}
    /\ send_signal \in Sendable \cup {"none"}
    /\ lastsent \in Sendable \cup {"none"}
=============================================================================
