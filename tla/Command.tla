------------------------------ MODULE Command ------------------------------
(***************************************************************************)
(* The lifecycle of a Command as the Scheduler drives it.  Command.cpp is  *)
(* not part of this repository's sources, so the operators below are      *)
(* modelled from the specification (sections 4.2 and 6): a command is     *)
(* NotScheduled until admitted, Running while the scheduler steps it,      *)
(* Canceled once cancel() was called on it while running, and Completed    *)
(* once the scheduler removed it and called removed().                     *)
(*                                                                         *)
(* A lifecycle state is kept per command in a function st; each operator  *)
(* returns the function after the call.                                    *)
(***************************************************************************)

Status == {"NotScheduled", "Running", "Canceled", "Completed"}

\* startRunning(): invoked once by the scheduler when it admits the command.
StartRunning(st, c) == [st EXCEPT ![c] = "Running"]

\* cancel() on every command of S: only a running command becomes Canceled,
\* so a second cancel, or a cancel of a command that is not running, is a
\* no-op.
CancelAll(st, S) ==
    [d \in DOMAIN st |-> IF d \in S /\ st[d] = "Running" THEN "Canceled" ELSE st[d]]

\* removed() on every command of S: the scheduler has dropped it.
RemovedAll(st, S) == [d \in DOMAIN st |-> IF d \in S THEN "Completed" ELSE st[d]]

\* Fault variant of RunReportsDone that ignores the cancel flag.
RunReportsFinishedOnly(st, c, finished) == finished

\* run(): a canceled command reports that it is done without executing;
\* otherwise whether it is finished is the application's isFinished().
RunReportsDone(st, c, finished) == st[c] = "Canceled" \/ finished

=============================================================================
