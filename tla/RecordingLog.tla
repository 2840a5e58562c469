---------------------------- MODULE RecordingLog ----------------------------
(***************************************************************************)
(* What a recorder promises to the code that owns it: a log of readings    *)
(* that only grows, in the order the readings were taken, and only between *)
(* the return of StartRecording and the return of StopRecording.  Nothing  *)
(* here knows about threads, the switch or the mutex: module Recorder is   *)
(* shown to implement it.                                                  *)
(***************************************************************************)
EXTENDS Naturals, Sequences

VARIABLES
    open,   \* between a successful StartRecording and the end of StopRecording
    log     \* the readings recorded so far, each named by the order it was taken in

logVars == <<open, log>>

LogInit ==
    /\ open = FALSE
    /\ log = <<>>

Open ==
    /\ ~open
    /\ open' = TRUE
    /\ UNCHANGED log

\* One reading, newer than every recorded one, is added behind them.
Record ==
    /\ open
    /\ Len(log') = Len(log) + 1
    /\ \A i \in DOMAIN log : log'[i] = log[i] /\ log[i] < log'[Len(log')]
    /\ UNCHANGED open

Close ==
    /\ open
    /\ open' = FALSE
    /\ UNCHANGED log

LogNext == Open \/ Record \/ Close

LogSpec == LogInit /\ [][LogNext]_logVars
=============================================================================
