----------------------------- MODULE Scheduler -----------------------------
(***************************************************************************)
(* The command Scheduler of wpilibc (Commands/Scheduler.cpp) together with *)
(* the robot loop that drives it: every loop iteration calls               *)
(* Scheduler::Run() and then the dashboard update callback installed by    *)
(* Scheduler::InitSendable().  Run() is modelled as the sequence of its    *)
(* phases, one step per button polled, per command stepped, per queued     *)
(* addition processed and per subsystem filled with its default, so that  *)
(* the other threads (AddCommand from another thread, the dashboard        *)
(* writing the Cancel entry) interleave with it where the code lets them.  *)
(***************************************************************************)
EXTENDS Naturals, Sequences, FiniteSets, Command

CONSTANTS
    Cmds,           \* the commands of the robot program
    Subs,           \* the registered subsystems (RegisterSubsystem)
    None,           \* nullptr
    Req,            \* Command::GetRequirements()
    Interruptible,  \* the commands whose IsInterruptible() is true
    Default,        \* Subsystem::GetDefaultCommand()
    SubOrder,       \* iteration order of the std::set m_subsystems
    CmdOrder,       \* iteration order of the std::set m_commands
    Buttons,        \* m_buttons, in registration order
    OnRemoved,      \* command whose Start() a command's removed() calls
    ExternalStarts  \* commands other threads may Start()

ButtonKinds == {"whenPressed", "cancelWhenPressed", "toggleWhenPressed", "whileHeld"}

\* A sequence that lists every element of S exactly once.
IsOrderOf(seq, S) ==
    /\ seq \in [1..Len(seq) -> S]
    /\ \A x \in S : \E i \in 1..Len(seq) : seq[i] = x
    /\ \A i, j \in 1..Len(seq) : seq[i] = seq[j] => i = j

ASSUME NoneAssumption == None \notin Cmds
ASSUME ReqAssumption == Req \in [Cmds -> SUBSET Subs]
ASSUME InterruptibleAssumption == Interruptible \subseteq Cmds
\* Subsystem::SetDefaultCommand refuses a command that does not require it.
ASSUME DefaultAssumption ==
    /\ Default \in [Subs -> Cmds \cup {None}]
    /\ \A s \in Subs : Default[s] # None => s \in Req[Default[s]]
ASSUME OrderAssumption == IsOrderOf(SubOrder, Subs) /\ IsOrderOf(CmdOrder, Cmds)
ASSUME ButtonsAssumption == Buttons \in Seq([cmd : Cmds, kind : ButtonKinds])
ASSUME ExternalAssumption == ExternalStarts \subseteq Cmds
\* Removal hooks start at most one command, and no command's requirements
\* meet those of two hooked commands, so one admission fires at most one
\* hook.
Hooked == {c \in Cmds : OnRemoved[c] # None}
ASSUME HookAssumption ==
    /\ OnRemoved \in [Cmds -> Cmds \cup {None}]
    /\ \A c \in Cmds, d1, d2 \in Hooked :
          (Req[d1] \cap Req[c] # {} /\ Req[d2] \cap Req[c] # {}) => d1 = d2

VARIABLES
    enabled,     \* Scheduler::m_enabled
    commands,    \* Scheduler::m_commands, the running set
    additions,   \* Scheduler::m_additions, guarded by m_additionsMutex
    changed,     \* Scheduler::m_runningCommandsChanged
    current,     \* Subsystem::m_currentCommand of every subsystem
    confirmed,   \* the holder each subsystem last reconciled in ConfirmCommand()
    status,      \* the lifecycle state of every command (module Command)
    published,   \* the ids last written to the dashboard's Ids entry
    cancelEntry, \* the dashboard's Cancel entry
    toCancel,    \* Scheduler::toCancel, read from the Cancel entry
    pc,          \* where the robot-loop thread is
    idx          \* its loop index within the phase

vars == <<enabled, commands, additions, changed, current, confirmed, status,
          published, cancelEntry, toCancel, pc, idx>>

Phases == {"idle", "buttons", "step", "drain", "fill", "update", "clear",
           "blocked", "removeAll"}

-----------------------------------------------------------------------------
(* Helpers                                                                 *)

\* AddCommand(): append unless already queued.
AddCommand(q, c) ==
    IF \E i \in 1..Len(q) : q[i] = c THEN q ELSE Append(q, c)

\* The commands holding a requirement of c: ProcessCommandAddition cancels
\* and removes each of them.
Displaced(c) == {current[s] : s \in Req[c]} \ {None}

\* The commands started by the removed() hooks of the displaced commands.
HookStarts(c) == {OnRemoved[d] : d \in Displaced(c)} \ {None}

\* Fault variant of CanAdmit without the IsInterruptible() test.
CanAdmitAnyHolder(c) == c # None /\ c \notin commands

\* The guards of ProcessCommandAddition: not null, not already running, and
\* no requirement held by a command that is not interruptible.
CanAdmit(c) ==
    /\ c # None
    /\ c \notin commands
    /\ \A s \in Req[c] : current[s] = None \/ current[s] \in Interruptible

\* ProcessCommandAddition, the admission of c once CanAdmit(c) holds:
\* every displaced command is canceled and removed (its requirements
\* released), c becomes the holder of its requirements, joins the running
\* set, and StartRunning() is called on it.
Grant(c) ==
    LET D == Displaced(c) IN
    /\ commands' = (commands \ D) \cup {c}
    /\ current' = [s \in Subs |-> IF s \in Req[c] THEN c
                                  ELSE IF current[s] \in D THEN None
                                  ELSE current[s]]
    /\ status' = StartRunning(RemovedAll(CancelAll(status, D), D), c)
    /\ changed' = TRUE

\* Fault variants of Remove: a removal that forgets to release the
\* requirements, and one that forgets to call removed().
RemoveKeepingHolders(c) ==
    /\ commands' = commands \ {c}
    /\ UNCHANGED current
    /\ status' = RemovedAll(status, {c})

RemoveSkippingRemoved(c) ==
    /\ commands' = commands \ {c}
    /\ current' = [s \in Subs |-> IF s \in Req[c] THEN None ELSE current[s]]
    /\ UNCHANGED status

\* Scheduler::Remove(c) for a running c: erase it, clear each of its
\* requirements, then call removed().
Remove(c) ==
    /\ commands' = commands \ {c}
    /\ current' = [s \in Subs |-> IF s \in Req[c] THEN None ELSE current[s]]
    /\ status' = RemovedAll(status, {c})

\* The dashboard update writes the running set to the Ids entry when it
\* changed during the tick.
Publish == published' = IF changed THEN commands ELSE published

-----------------------------------------------------------------------------
(* The robot-loop thread                                                   *)

Init ==
    /\ enabled = TRUE
    /\ commands = {}
    /\ additions = <<>>
    /\ changed = FALSE
    /\ current = [s \in Subs |-> None]
    /\ confirmed = [s \in Subs |-> None]
    /\ status = [c \in Cmds |-> "NotScheduled"]
    /\ published = {}
    /\ cancelEntry = {}
    /\ toCancel = {}
    /\ pc = "idle"
    /\ idx = 0

\* Run() when enabled: start polling the buttons from the last one.
RunStart ==
    /\ pc = "idle" /\ enabled
    /\ pc' = "buttons" /\ idx' = Len(Buttons)
    /\ UNCHANGED <<enabled, commands, additions, changed, current, confirmed,
                   status, published, cancelEntry, toCancel>>

\* Run() when disabled returns at once; the loop goes on to the dashboard.
RunDisabled ==
    /\ pc = "idle" /\ ~enabled
    /\ pc' = "update"
    /\ UNCHANGED <<enabled, commands, additions, changed, current, confirmed,
                   status, published, cancelEntry, toCancel, idx>>

\* ButtonScheduler::Execute() of button idx: depending on the input, it
\* starts its command (AddCommand), cancels it, or does nothing.
PollButton ==
    /\ pc = "buttons" /\ idx > 0
    /\ LET b == Buttons[idx]
           running == status[b.cmd] \in {"Running", "Canceled"}
           start == additions' = AddCommand(additions, b.cmd) /\ UNCHANGED status
           cancel == status' = CancelAll(status, {b.cmd}) /\ UNCHANGED additions
       IN \/ UNCHANGED <<additions, status>>
          \/ b.kind \in {"whenPressed", "whileHeld"} /\ start
          \/ b.kind \in {"cancelWhenPressed", "whileHeld"} /\ cancel
          \/ b.kind = "toggleWhenPressed" /\ IF running THEN cancel ELSE start
    /\ idx' = idx - 1
    /\ UNCHANGED <<enabled, commands, changed, current, confirmed, published,
                   cancelEntry, toCancel, pc>>

\* After the buttons: every subsystem's Periodic() (no scheduler state) and
\* the reset of m_runningCommandsChanged.
EndButtons ==
    /\ pc = "buttons" /\ idx = 0
    /\ changed' = FALSE
    /\ pc' = "step" /\ idx' = 1
    /\ UNCHANGED <<enabled, commands, additions, current, confirmed, status,
                   published, cancelEntry, toCancel>>

\* Fault variant of StepRemoval that does not flag the change.
StepRemovalUnflagged(c) ==
    /\ Remove(c)
    /\ additions' = IF OnRemoved[c] = None THEN additions
                    ELSE AddCommand(additions, OnRemoved[c])
    /\ UNCHANGED changed

\* A command that reported done is removed: Remove() (its removed() hook
\* may Start another command, which is queued: the additions mutex is free
\* here), and the running set is flagged as changed.
StepRemoval(c) ==
    /\ Remove(c)
    /\ additions' = IF OnRemoved[c] = None THEN additions
                    ELSE AddCommand(additions, OnRemoved[c])
    /\ changed' = TRUE

\* One iteration of the command loop: Run() the command at the iterator;
\* when it reports done, StepRemoval.
StepCommand ==
    /\ pc = "step" /\ idx \in 1..Len(CmdOrder)
    /\ LET c == CmdOrder[idx] IN
       \/ /\ c \notin commands
          /\ UNCHANGED <<commands, additions, changed, current, status>>
       \/ /\ c \in commands
          /\ ~RunReportsDone(status, c, FALSE)
          /\ UNCHANGED <<commands, additions, changed, current, status>>
       \/ /\ c \in commands
          /\ \E finished \in BOOLEAN : RunReportsDone(status, c, finished)
          /\ StepRemoval(c)
    /\ idx' = idx + 1
    /\ UNCHANGED <<enabled, confirmed, published, cancelEntry, toCancel, pc>>

EndStep ==
    /\ pc = "step" /\ idx = Len(CmdOrder) + 1
    /\ pc' = "drain" /\ idx' = 0
    /\ UNCHANGED <<enabled, commands, additions, changed, current, confirmed,
                   status, published, cancelEntry, toCancel>>

\* A queued command ProcessCommandAddition refuses is dropped.
DrainReject(c) ==
    /\ ~CanAdmit(c)
    /\ additions' = Tail(additions)
    /\ UNCHANGED <<commands, changed, current, status, pc>>

\* ProcessCommandAddition on the next queued command, with m_additionsMutex
\* held.  A removed() hook of a displaced command that calls Start() locks
\* that mutex again from the same thread: the thread blocks for good.
DrainAddition ==
    /\ pc = "drain" /\ additions # <<>>
    /\ LET c == Head(additions) IN
       \/ DrainReject(c)
       \/ /\ CanAdmit(c) /\ HookStarts(c) = {}
          /\ Grant(c)
          /\ additions' = Tail(additions)
          /\ UNCHANGED pc
       \/ /\ CanAdmit(c) /\ HookStarts(c) # {}
          /\ pc' = "blocked"
          /\ UNCHANGED <<commands, additions, changed, current, status>>
    /\ UNCHANGED <<enabled, confirmed, published, cancelEntry, toCancel, idx>>

EndDrain ==
    /\ pc = "drain" /\ additions = <<>>
    /\ pc' = "fill" /\ idx' = 1
    /\ UNCHANGED <<enabled, commands, additions, changed, current, confirmed,
                   status, published, cancelEntry, toCancel>>

\* One iteration of the default loop: an idle subsystem gets its default
\* command through ProcessCommandAddition (hooks of displaced commands
\* queue their Start(): the mutex is free), then ConfirmCommand().
FillDefault ==
    /\ pc = "fill" /\ idx \in 1..Len(SubOrder)
    /\ LET s == SubOrder[idx]
           c == Default[s]
       IN \/ /\ current[s] = None /\ CanAdmit(c)
             /\ Grant(c)
             /\ additions' = IF HookStarts(c) = {} THEN additions
                             ELSE AddCommand(additions, CHOOSE h \in HookStarts(c) : TRUE)
             /\ confirmed' = [confirmed EXCEPT ![s] = c]
          \/ /\ ~(current[s] = None /\ CanAdmit(c))
             /\ confirmed' = [confirmed EXCEPT ![s] = current[s]]
             /\ UNCHANGED <<commands, additions, changed, current, status>>
    /\ idx' = idx + 1
    /\ UNCHANGED <<enabled, published, cancelEntry, toCancel, pc>>

EndFill ==
    /\ pc = "fill" /\ idx = Len(SubOrder) + 1
    /\ pc' = "update" /\ idx' = 0
    /\ UNCHANGED <<enabled, commands, additions, changed, current, confirmed,
                   status, published, cancelEntry, toCancel>>

\* The dashboard update callback, first half: read the Cancel entry and
\* cancel the running commands it names.  When it named none, publish and
\* finish the loop iteration.
ReadCancels ==
    /\ pc = "update"
    /\ toCancel' = cancelEntry
    /\ status' = CancelAll(status, commands \cap cancelEntry)
    /\ IF cancelEntry = {}
         THEN Publish /\ pc' = "idle"
         ELSE UNCHANGED published /\ pc' = "clear"
    /\ UNCHANGED <<enabled, commands, additions, changed, current, confirmed,
                   cancelEntry, idx>>

\* Second half: write the emptied toCancel back to the Cancel entry, then
\* publish the running set if it changed.
ClearCancels ==
    /\ pc = "clear"
    /\ cancelEntry' = {} /\ toCancel' = {}
    /\ Publish
    /\ pc' = "idle"
    /\ UNCHANGED <<enabled, commands, additions, changed, current, confirmed,
                   status, idx>>

-----------------------------------------------------------------------------
(* The other threads                                                       *)

\* Scheduler::SetEnabled, called by the robot program between iterations.
SetEnabled ==
    /\ pc = "idle"
    /\ \E b \in BOOLEAN : enabled' = b
    /\ UNCHANGED <<commands, additions, changed, current, confirmed, status,
                   published, cancelEntry, toCancel, pc, idx>>

\* Start() of a command from another thread: AddCommand takes
\* m_additionsMutex, which the drain holds.
ExternalStart ==
    /\ pc \notin {"drain", "blocked"}
    /\ \E c \in ExternalStarts : additions' = AddCommand(additions, c)
    /\ UNCHANGED <<enabled, commands, changed, current, confirmed, status,
                   published, cancelEntry, toCancel, pc, idx>>

\* The dashboard adds the id of a published command to the Cancel entry.
DashboardCancel ==
    /\ \E c \in published \ cancelEntry : cancelEntry' = cancelEntry \cup {c}
    /\ UNCHANGED <<enabled, commands, additions, changed, current, confirmed,
                   status, published, toCancel, pc, idx>>

\* Scheduler::RemoveAll() is called by the robot program between loop
\* iterations, on the loop thread: while (m_commands.size() > 0) it calls
\* Remove(*m_commands.begin()).  It never sets m_runningCommandsChanged.
RemoveAllCall ==
    /\ pc = "idle"
    /\ pc' = "removeAll"
    /\ UNCHANGED <<enabled, commands, additions, changed, current, confirmed,
                   status, published, cancelEntry, toCancel, idx>>

\* c is *m_commands.begin(): no running command precedes it in CmdOrder.
IsFirstRunning(c) ==
    \A i \in 1..Len(CmdOrder) :
        CmdOrder[i] \in commands => \E j \in 1..i : CmdOrder[j] = c

\* Fault variant of RemoveAllStep that erases the command from m_commands
\* without Remove(), as the m_commands.clear() of ResetAll does.
RemoveAllErasing ==
    /\ pc = "removeAll"
    /\ \E c \in commands : IsFirstRunning(c) /\ commands' = commands \ {c}
    /\ UNCHANGED <<enabled, additions, changed, current, confirmed, status,
                   published, cancelEntry, toCancel, pc, idx>>

\* One iteration of the loop: Remove() the first running command; its
\* removed() hook may Start() a command, which is queued (the additions
\* mutex is free).
RemoveAllStep ==
    /\ pc = "removeAll"
    /\ \E c \in commands :
         /\ IsFirstRunning(c)
         /\ Remove(c)
         /\ additions' = IF OnRemoved[c] = None THEN additions
                         ELSE AddCommand(additions, OnRemoved[c])
    /\ UNCHANGED <<enabled, changed, confirmed, published, cancelEntry,
                   toCancel, pc, idx>>

\* The loop ends when m_commands is empty, and RemoveAll() returns.
RemoveAllReturn ==
    /\ pc = "removeAll" /\ commands = {}
    /\ pc' = "idle"
    /\ UNCHANGED <<enabled, commands, additions, changed, current, confirmed,
                   status, published, cancelEntry, toCancel, idx>>

RemoveAll == RemoveAllCall \/ RemoveAllStep \/ RemoveAllReturn

-----------------------------------------------------------------------------

LoopStep ==
    \/ RunStart \/ RunDisabled \/ PollButton \/ EndButtons
    \/ StepCommand \/ EndStep \/ DrainAddition \/ EndDrain
    \/ FillDefault \/ EndFill \/ ReadCancels \/ ClearCancels

Next == LoopStep \/ SetEnabled \/ ExternalStart \/ DashboardCancel

\* The robot loop calls Run() and the dashboard update over and over: the
\* thread is weakly fair.  The other threads are not.
Spec == Init /\ [][Next]_vars /\ WF_vars(LoopStep)

\* A robot program that also calls RemoveAll() (commonly on disable).
\* Once called, RemoveAll() runs to its end on the loop thread, which stays
\* weakly fair; whether the program calls it is not.
SpecWithRemoveAll ==
    /\ Init /\ [][Next \/ RemoveAll]_vars
    /\ WF_vars(LoopStep \/ RemoveAllStep \/ RemoveAllReturn)

-----------------------------------------------------------------------------
(* Properties                                                              *)

\* Every variable holds a value of its type.
TypeOK ==
    /\ enabled \in BOOLEAN
    /\ commands \subseteq Cmds
    /\ additions \in Seq(Cmds)
    /\ changed \in BOOLEAN
    /\ current \in [Subs -> Cmds \cup {None}]
    /\ confirmed \in [Subs -> Cmds \cup {None}]
    /\ status \in [Cmds -> Status]
    /\ published \subseteq Cmds
    /\ cancelEntry \subseteq Cmds
    /\ toCancel \subseteq Cmds
    /\ pc \in Phases
    /\ idx \in Nat

\* Subsystem ownership and the running set agree (ProcessCommandAddition,
\* Remove): a subsystem is held only by a running command that requires
\* it, and a running command holds every subsystem it requires.  Two
\* running commands therefore never require the same subsystem.
OwnershipConsistent ==
    /\ \A s \in Subs : current[s] # None =>
            current[s] \in commands /\ s \in Req[current[s]]
    /\ \A c \in commands : \A s \in Req[c] : current[s] = c

\* A command is in the scheduler's running set exactly while its own
\* lifecycle says it runs: every path that drops it from m_commands calls
\* removed(), and every admission calls StartRunning().
LifecycleMatchesMembership ==
    \A c \in Cmds : c \in commands <=> status[c] \in {"Running", "Canceled"}

\* Between loop iterations the dashboard's Ids entry lists exactly the
\* running commands: every change of m_commands in a tick sets
\* m_runningCommandsChanged before the update callback publishes.
PublishedIsRunning == pc = "idle" => published = commands

\* A subsystem held by a command that is not interruptible changes hands
\* only in the command loop, when that command itself reports done: no
\* admission, of a queued command or of a default, takes it away.
NonInterruptibleKept ==
    [][\A s \in Subs :
          (current[s] \notin Interruptible \cup {None} /\ current'[s] # current[s])
             => pc = "step"]_vars

\* Every iteration of the robot loop that starts comes back to the idle
\* point: Run() and the dashboard update always return.
TickCompletes == (pc # "idle") ~> (pc = "idle")

\* Once the scheduler stays enabled, a canceled command is removed: the
\* command loop steps it, its Run() reports done, and Remove() drops it.
CanceledEventuallyRemoved ==
    <>[]enabled => \A c \in Cmds : (status[c] = "Canceled") ~> (c \notin commands)

\* The Scheduler implements the abstract allocator of module Allocation:
\* seen through the subsystems' holders and m_commands, every step of the
\* loop, of the hooks, of the buttons and of RemoveAll is an atomic
\* all-or-nothing admission over interruptible holders, a release of
\* running commands, or nothing.
Alloc == INSTANCE Allocation WITH holder <- current, active <- commands

AllocationRefined == Alloc!Spec

-----------------------------------------------------------------------------
(* Statements of the specification the code does not meet                 *)

\* The specification (sections 3 and 9): a disabled scheduler skips only
\* the button poll, and still steps its commands; so a canceled command is
\* removed whether or not the scheduler is enabled.
CanceledRemovedEvenIfDisabled ==
    \A c \in Cmds : (status[c] = "Canceled") ~> (c \notin commands)

\* The specification (section 8): the dashboard's Ids entry shows the
\* running commands.  Every dashboard update, at the step that ends it,
\* leaves the published list equal to m_commands, whatever the program did
\* between the iterations (a RemoveAll() included).  Run() resets
\* m_runningCommandsChanged at line 135 before the update reads it.
PublishedAfterUpdate ==
    [][(pc \in {"update", "clear"} /\ pc' = "idle") => published' = commands']_vars

\* The specification (sections 5 and 8): the ids the dashboard writes to
\* the Cancel entry are canceled; the update callback never clears a
\* request it has not read.
CancelRequestsKept ==
    [][(cancelEntry # {} /\ cancelEntry' = {}) => cancelEntry \subseteq toCancel]_vars

=============================================================================
