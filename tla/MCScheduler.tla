---------------------------- MODULE MCScheduler ----------------------------
(***************************************************************************)
(* Instances of the Scheduler for TLC.  Commands and subsystems are model  *)
(* values; the definitions below give their requirements, defaults,        *)
(* buttons and hooks for each run.                                         *)
(*                                                                         *)
(* The robot of the main runs: Arm (A) needs S1, Both (B) needs S1 and S2  *)
(* and is not interruptible, Climb (C) needs S2.  A is S1's default; S2    *)
(* has none.  Buttons start B, cancel B and toggle C; another thread may  *)
(* start C.  No removed() hook starts a command in the main run.           *)
(***************************************************************************)
EXTENDS Scheduler, TLC

CONSTANTS A, B, C, S1, S2

MCCmds == {A, B, C}
MCSubs == {S1, S2}
MCReq == [c \in MCCmds |-> CASE c = A -> {S1} [] c = B -> {S1, S2} [] c = C -> {S2}]
MCSubOrder == <<S1, S2>>
MCCmdOrder == <<A, B, C>>

MCInterruptible == {A, C}
MCDefault == [s \in MCSubs |-> IF s = S1 THEN A ELSE None]
MCButtons == << [cmd |-> B, kind |-> "whenPressed"],
                [cmd |-> B, kind |-> "cancelWhenPressed"],
                [cmd |-> C, kind |-> "toggleWhenPressed"] >>
MCExternalStarts == {C}

\* Hooks on interruptible commands: removing C starts A.  S1's default is
\* B and S2's is C, so the default fill may displace C with the additions
\* mutex free, and a queued B may displace it with the mutex held.
MCHookDefault == [s \in MCSubs |-> IF s = S1 THEN B ELSE C]
MCHookOnRemoved == [c \in MCCmds |-> IF c = C THEN A ELSE None]
MCHookInterruptible == {A, B, C}
MCHookButtons == << [cmd |-> B, kind |-> "whileHeld"],
                    [cmd |-> A, kind |-> "whenPressed"] >>

\* Two defaults whose requirements overlap: S1's default A needs S1, S2's
\* default B needs S1 and S2, so filling S2 displaces what S1 confirmed.
MCOverlapDefault == [s \in MCSubs |-> IF s = S1 THEN A ELSE B]
MCNoButtons == << >>
MCNoHooks == [c \in MCCmds |-> None]
=============================================================================
