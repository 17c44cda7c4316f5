----------------------------- MODULE Allocation -----------------------------
(***************************************************************************)
(* What the command Scheduler promises about subsystems, stated without    *)
(* ticks, queues, buttons or the dashboard (specification sections 4.3 and *)
(* 4.5): commands are admitted one at a time and atomically.               *)
(*                                                                         *)
(* Admission takes every subsystem the command requires.  Each holder it   *)
(* displaces must be interruptible, and it loses all its subsystems and    *)
(* its place among the active commands.  A release drops a set of active   *)
(* commands and frees what they held.                                      *)
(***************************************************************************)
CONSTANTS Cmds, Subs, None, Req, Interruptible

VARIABLES
    holder,  \* the command holding each subsystem, or None
    active   \* the admitted commands

avars == <<holder, active>>

Init ==
    /\ holder = [s \in Subs |-> None]
    /\ active = {}

\* Admit c: all or nothing, and only over interruptible holders.
Admit(c) ==
    LET victims == {holder[s] : s \in Req[c]} \ {None} IN
    /\ c \notin active
    /\ victims \subseteq Interruptible
    /\ active' = (active \ victims) \cup {c}
    /\ holder' = [s \in Subs |-> IF s \in Req[c] THEN c
                                 ELSE IF holder[s] \in victims THEN None
                                 ELSE holder[s]]

\* Release the active commands of D.
Release(D) ==
    /\ D # {} /\ D \subseteq active
    /\ active' = active \ D
    /\ holder' = [s \in Subs |-> IF holder[s] \in D THEN None ELSE holder[s]]

Next == (\E c \in Cmds : Admit(c)) \/ (\E D \in SUBSET active : Release(D))

Spec == Init /\ [][Next]_avars
=============================================================================
