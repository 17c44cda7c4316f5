-------------------------- MODULE SchedulerProofs --------------------------
(***************************************************************************)
(* Proofs about the Scheduler for every value of its constants: the type  *)
(* invariant, and the consistency of subsystem ownership with the running  *)
(* set.                                                                    *)
(***************************************************************************)
EXTENDS Scheduler, TLAPS

\* The button index stays within m_buttons while the buttons are polled.
ButtonIndexOK == pc = "buttons" => idx \in 0..Len(Buttons)

\* The inductive form of the type invariant.
TypeInv == TypeOK /\ ButtonIndexOK

LEMMA AddCommandType ==
    ASSUME NEW q \in Seq(Cmds), NEW c \in Cmds
    PROVE  AddCommand(q, c) \in Seq(Cmds)
<1>1. CASE \E i \in 1..Len(q) : q[i] = c
  BY <1>1 DEF AddCommand
<1>2. CASE ~\E i \in 1..Len(q) : q[i] = c
  <2>1. Append(q, c) \in Seq(Cmds)
    OBVIOUS
  <2>. QED
    BY <1>2, <2>1, Zenon DEF AddCommand
<1>. QED
  BY <1>1, <1>2

LEMMA SeqElement ==
    ASSUME NEW T, NEW s \in Seq(T), NEW i \in 1..Len(s)
    PROVE  s[i] \in T
OBVIOUS

LEMMA ButtonAt ==
    ASSUME NEW i \in 1..Len(Buttons)
    PROVE  Buttons[i] \in [cmd : Cmds, kind : ButtonKinds]
<1>1. Buttons \in Seq([cmd : Cmds, kind : ButtonKinds])
  BY ButtonsAssumption
<1>. QED
  BY <1>1, SeqElement, Zenon

LEMMA DisplacedType ==
    ASSUME TypeOK, NEW c \in Cmds
    PROVE  /\ Displaced(c) \subseteq Cmds
           /\ HookStarts(c) \subseteq Cmds
BY ReqAssumption, HookAssumption DEF TypeOK, Displaced, HookStarts

LEMMA GrantType ==
    ASSUME TypeOK, NEW c \in Cmds, Grant(c)
    PROVE  /\ commands' \subseteq Cmds
           /\ current' \in [Subs -> Cmds \cup {None}]
           /\ status' \in [Cmds -> Status]
           /\ changed' \in BOOLEAN
<1>1. Displaced(c) \subseteq Cmds
  BY DisplacedType
<1>. QED
  BY <1>1 DEF Grant, TypeOK, StartRunning, RemovedAll, CancelAll, Status

LEMMA RemoveType ==
    ASSUME TypeOK, NEW c \in Cmds, Remove(c)
    PROVE  /\ commands' \subseteq Cmds
           /\ current' \in [Subs -> Cmds \cup {None}]
           /\ status' \in [Cmds -> Status]
BY DEF Remove, TypeOK, RemovedAll, Status

LEMMA InitTypeInv == Init => TypeInv
<1> SUFFICES ASSUME Init PROVE TypeInv
  OBVIOUS
<1>1. additions \in Seq(Cmds)
  BY DEF Init
<1>2. current \in [Subs -> Cmds \cup {None}] /\ confirmed \in [Subs -> Cmds \cup {None}]
  BY DEF Init
<1>3. status \in [Cmds -> Status]
  BY DEF Init, Status
<1>4. pc \in Phases /\ idx \in Nat /\ ButtonIndexOK
  BY DEF Init, Phases, ButtonIndexOK
<1>5. enabled \in BOOLEAN /\ changed \in BOOLEAN
  BY Zenon DEF Init
<1>6. commands \subseteq Cmds /\ published \subseteq Cmds
      /\ cancelEntry \subseteq Cmds /\ toCancel \subseteq Cmds
  BY DEF Init
<1>. QED
  BY <1>1, <1>2, <1>3, <1>4, <1>5, <1>6, Zenon DEF TypeInv, TypeOK

LEMMA NextTypeInv == TypeInv /\ [Next]_vars => TypeInv'
<1> SUFFICES ASSUME TypeInv, [Next]_vars PROVE TypeInv'
  OBVIOUS
<1>. USE DEF TypeInv, TypeOK, ButtonIndexOK, Phases
<1>1. CASE RunStart
  BY <1>1 DEF RunStart
<1>2. CASE RunDisabled
  BY <1>2 DEF RunDisabled
<1>3. CASE PollButton
  <2>0. idx \in 1..Len(Buttons)
    BY <1>3 DEF PollButton
  <2>1. Buttons[idx] \in [cmd : Cmds, kind : ButtonKinds]
    BY <2>0, ButtonAt
  <2>2. CancelAll(status, {Buttons[idx].cmd}) \in [Cmds -> Status]
    BY <2>1 DEF CancelAll, Status
  <2>3. AddCommand(additions, Buttons[idx].cmd) \in Seq(Cmds)
    BY <2>1, AddCommandType
  <2>4. additions' \in Seq(Cmds) /\ status' \in [Cmds -> Status]
    BY <1>3, <2>2, <2>3, Zenon DEF PollButton
  <2>5. idx' \in Nat /\ (pc' = "buttons" => idx' \in 0..Len(Buttons))
    BY <1>3 DEF PollButton
  <2>. QED
    BY <1>3, <2>4, <2>5, Zenon DEF PollButton
<1>4. CASE EndButtons
  BY <1>4, Zenon DEF EndButtons
<1>5. CASE StepCommand
  <2>1. CmdOrder[idx] \in Cmds
    BY <1>5, OrderAssumption DEF StepCommand, IsOrderOf
  <2>2. OnRemoved[CmdOrder[idx]] \in Cmds \cup {None}
    BY <2>1, HookAssumption
  <2>3. CASE StepRemoval(CmdOrder[idx])
    <3>1. /\ commands' \subseteq Cmds
          /\ current' \in [Subs -> Cmds \cup {None}]
          /\ status' \in [Cmds -> Status]
      BY <2>1, <2>3, RemoveType DEF StepRemoval
    <3>2. additions' \in Seq(Cmds)
      BY <2>2, <2>3, AddCommandType DEF StepRemoval
    <3>3. changed' \in BOOLEAN
      BY <2>3, Zenon DEF StepRemoval
    <3>4. idx' \in Nat /\ pc' = "step"
      BY <1>5 DEF StepCommand
    <3>. QED
      BY <1>5, <3>1, <3>2, <3>3, <3>4, Zenon DEF StepCommand
  <2>4. CASE UNCHANGED <<commands, additions, changed, current, status>>
    <3>1. idx' \in Nat /\ pc' = "step"
      BY <1>5 DEF StepCommand
    <3>. QED
      BY <1>5, <2>4, <3>1, Zenon DEF StepCommand
  <2>. QED
    BY <1>5, <2>3, <2>4, Zenon DEF StepCommand
<1>6. CASE EndStep
  BY <1>6 DEF EndStep
<1>7. CASE DrainAddition
  <2> DEFINE c == Head(additions)
  <2>1. c \in Cmds /\ Tail(additions) \in Seq(Cmds)
    BY <1>7 DEF DrainAddition
  <2>2. CASE DrainReject(c)
    BY <1>7, <2>1, <2>2, Zenon DEF DrainAddition, DrainReject
  <2>3. CASE Grant(c) /\ additions' = Tail(additions) /\ UNCHANGED pc
    <3>1. /\ commands' \subseteq Cmds
          /\ current' \in [Subs -> Cmds \cup {None}]
          /\ status' \in [Cmds -> Status]
          /\ changed' \in BOOLEAN
      BY <2>1, <2>3, GrantType
    <3>. QED
      BY <1>7, <2>1, <2>3, <3>1, Zenon DEF DrainAddition
  <2>4. CASE pc' = "blocked" /\ UNCHANGED <<commands, additions, changed, current, status>>
    BY <1>7, <2>4, Zenon DEF DrainAddition
  <2>. QED
    BY <1>7, <2>2, <2>3, <2>4, Zenon DEF DrainAddition
<1>8. CASE EndDrain
  BY <1>8 DEF EndDrain
<1>9. CASE FillDefault
  <2> DEFINE s == SubOrder[idx]
             c == Default[s]
  <2>1. s \in Subs
    BY <1>9, OrderAssumption DEF FillDefault, IsOrderOf
  <2>2. CASE current[s] = None /\ CanAdmit(c) /\ Grant(c)
    <3>1. c \in Cmds
      BY <2>1, <2>2, DefaultAssumption DEF CanAdmit
    <3>2. HookStarts(c) # {} => (CHOOSE h \in HookStarts(c) : TRUE) \in Cmds
      BY <3>1, DisplacedType
    <3>3. additions' \in Seq(Cmds)
      BY <1>9, <2>2, <3>1, <3>2, AddCommandType DEF FillDefault, CanAdmit
    <3>. QED
      BY <1>9, <2>1, <2>2, <3>1, <3>3, GrantType DEF FillDefault, CanAdmit
  <2>3. CASE ~(current[s] = None /\ CanAdmit(c))
    BY <1>9, <2>1, <2>3 DEF FillDefault
  <2>. QED
    BY <1>9, <2>2, <2>3 DEF FillDefault
<1>10. CASE EndFill
  BY <1>10 DEF EndFill
<1>11. CASE ReadCancels
  BY <1>11 DEF ReadCancels, Publish, CancelAll, Status
<1>12. CASE ClearCancels
  BY <1>12 DEF ClearCancels, Publish
<1>13. CASE SetEnabled
  BY <1>13 DEF SetEnabled
<1>14. CASE ExternalStart
  BY <1>14, ExternalAssumption, AddCommandType DEF ExternalStart
<1>15. CASE DashboardCancel
  BY <1>15 DEF DashboardCancel
<1>16. CASE UNCHANGED vars
  BY <1>16 DEF vars
<1>. QED
  BY <1>1, <1>2, <1>3, <1>4, <1>5, <1>6, <1>7, <1>8, <1>9, <1>10, <1>11,
     <1>12, <1>13, <1>14, <1>15, <1>16 DEF Next, LoopStep

\* The scheduler's variables always hold values of their types.
THEOREM TypeCorrect == Spec => []TypeOK
<1>1. Spec => []TypeInv
  BY InitTypeInv, NextTypeInv, PTL DEF Spec
<1>. QED
  BY <1>1, PTL DEF TypeInv

-----------------------------------------------------------------------------
(* Non-interruptible holders                                               *)

\* An admission that passed CanAdmit leaves every subsystem held by a
\* command that is not interruptible with that holder.
LEMMA GrantKeepsHolder ==
    ASSUME TypeOK, NEW c \in Cmds, CanAdmit(c), Grant(c),
           NEW s \in Subs, current[s] \notin Interruptible \cup {None}
    PROVE  current'[s] = current[s]
<1>1. s \notin Req[c]
  BY DEF CanAdmit
<1>2. current[s] \notin Displaced(c)
  BY DEF CanAdmit, Displaced
<1>. QED
  BY <1>1, <1>2 DEF Grant

\* Only the command loop takes a subsystem from a holder that is not
\* interruptible (NonInterruptibleKept), for every value of the constants.
THEOREM NonInterruptibleHolderKept == Spec => NonInterruptibleKept
<1> DEFINE A == \A s \in Subs :
                 (current[s] \notin Interruptible \cup {None} /\ current'[s] # current[s])
                    => pc = "step"
<1>1. TypeInv /\ [Next]_vars => [A]_vars
  <2> SUFFICES ASSUME TypeInv, [Next]_vars, NEW s \in Subs,
                      current[s] \notin Interruptible \cup {None},
                      current'[s] # current[s], pc # "step"
               PROVE  FALSE
    OBVIOUS
  <2>0. TypeOK
    BY DEF TypeInv
  <2>1. CASE DrainAddition
    <3>1. Head(additions) \in Cmds
      BY <2>0, <2>1 DEF DrainAddition, TypeOK
    <3>2. CASE CanAdmit(Head(additions)) /\ Grant(Head(additions))
      BY <2>0, <3>1, <3>2, GrantKeepsHolder
    <3>. QED
      BY <2>1, <3>2 DEF DrainAddition, DrainReject
  <2>2. CASE FillDefault
    <3> DEFINE c == Default[SubOrder[idx]]
    <3>1. CASE CanAdmit(c) /\ Grant(c)
      <4>1. c \in Cmds
        BY <2>2, <3>1, OrderAssumption, DefaultAssumption
           DEF FillDefault, IsOrderOf, CanAdmit
      <4>. QED
        BY <2>0, <3>1, <4>1, GrantKeepsHolder
    <3>. QED
      BY <2>2, <3>1 DEF FillDefault
  <2>3. CASE StepCommand
    BY <2>3 DEF StepCommand
  <2>4. CASE \/ RunStart \/ RunDisabled \/ PollButton \/ EndButtons \/ EndStep
             \/ EndDrain \/ EndFill \/ ReadCancels \/ ClearCancels
             \/ SetEnabled \/ ExternalStart \/ DashboardCancel \/ UNCHANGED vars
    BY <2>4 DEF RunStart, RunDisabled, PollButton, EndButtons, EndStep, EndDrain,
                EndFill, ReadCancels, ClearCancels, SetEnabled, ExternalStart,
                DashboardCancel, vars
  <2>. QED
    BY <2>1, <2>2, <2>3, <2>4 DEF Next, LoopStep
<1>2. Spec => []TypeInv
  BY InitTypeInv, NextTypeInv, PTL DEF Spec
<1>. QED
  BY <1>1, <1>2, PTL DEF Spec, NonInterruptibleKept

-----------------------------------------------------------------------------
(* Ownership                                                               *)

\* The inductive invariant behind OwnershipConsistent: ownership and the
\* lifecycle are consistent with the running set, and the types hold.
Inv == TypeInv /\ OwnershipConsistent /\ LifecycleMatchesMembership

\* What Grant(c) leaves in the lifecycle of every command.
LEMMA GrantStatus ==
    ASSUME TypeOK, NEW c \in Cmds, Grant(c), NEW x \in Cmds
    PROVE  status'[x] = IF x = c THEN "Running"
                        ELSE IF x \in Displaced(c) THEN "Completed"
                        ELSE status[x]
BY DEF Grant, TypeOK, StartRunning, RemovedAll, CancelAll

\* ProcessCommandAddition keeps ownership and the lifecycle consistent.
LEMMA GrantOwnership ==
    ASSUME TypeOK, OwnershipConsistent, LifecycleMatchesMembership,
           NEW c \in Cmds, CanAdmit(c), Grant(c)
    PROVE  OwnershipConsistent' /\ LifecycleMatchesMembership'
<1> DEFINE D == Displaced(c)
<1>0. Req[c] \subseteq Subs /\ None \notin Cmds
  BY ReqAssumption, NoneAssumption
<1>1. D \subseteq commands
  BY <1>0 DEF Displaced, OwnershipConsistent, TypeOK
<1>2. c \notin D /\ c \notin commands
  BY <1>1 DEF CanAdmit
<1>3. commands' = (commands \ D) \cup {c}
  BY DEF Grant
<1>4. \A s \in Subs : current'[s] = IF s \in Req[c] THEN c
                                   ELSE IF current[s] \in D THEN None
                                   ELSE current[s]
  BY DEF Grant
<1>5. ASSUME NEW s \in Subs, current'[s] # None
      PROVE  current'[s] \in commands' /\ s \in Req[current'[s]]
  <2>1. CASE s \in Req[c]
    BY <2>1, <1>3, <1>4
  <2>2. CASE s \notin Req[c] /\ current[s] \in D
    BY <2>2, <1>4, <1>5
  <2>3. CASE s \notin Req[c] /\ current[s] \notin D
    BY <2>3, <1>3, <1>4, <1>5 DEF OwnershipConsistent
  <2>. QED
    BY <2>1, <2>2, <2>3
<1>6. ASSUME NEW d \in commands', NEW s \in Req[d]
      PROVE  current'[s] = d
  <2>1. CASE d = c
    BY <2>1, <1>0, <1>4
  <2>2. CASE d \in commands \ D
    <3>1. s \in Subs /\ current[s] = d /\ d \in Cmds
      BY <2>2, ReqAssumption DEF OwnershipConsistent, TypeOK
    <3>2. s \notin Req[c]
      BY <2>2, <3>1, <1>0 DEF Displaced
    <3>. QED
      BY <2>2, <3>1, <3>2, <1>4
  <2>. QED
    BY <2>1, <2>2, <1>3
<1>7. OwnershipConsistent'
  BY <1>5, <1>6 DEF OwnershipConsistent
<1>8. LifecycleMatchesMembership'
  <2> SUFFICES ASSUME NEW x \in Cmds
               PROVE  x \in commands' <=> status'[x] \in {"Running", "Canceled"}
    BY DEF LifecycleMatchesMembership
  <2>1. status'[x] = IF x = c THEN "Running"
                     ELSE IF x \in D THEN "Completed"
                     ELSE status[x]
    BY GrantStatus
  <2>. QED
    BY <2>1, <1>2, <1>3 DEF LifecycleMatchesMembership
<1>. QED
  BY <1>7, <1>8

\* Scheduler::Remove keeps ownership and the lifecycle consistent.
LEMMA RemoveOwnership ==
    ASSUME TypeOK, OwnershipConsistent, LifecycleMatchesMembership,
           NEW c \in commands, Remove(c)
    PROVE  OwnershipConsistent' /\ LifecycleMatchesMembership'
<1>0. c \in Cmds /\ Req[c] \subseteq Subs /\ None \notin Cmds
  BY ReqAssumption, NoneAssumption DEF TypeOK
<1>1. \A s \in Subs : current'[s] = IF s \in Req[c] THEN None ELSE current[s]
  BY DEF Remove
<1>2. commands' = commands \ {c}
  BY DEF Remove
<1>3. ASSUME NEW s \in Subs, current'[s] # None
      PROVE  current'[s] \in commands' /\ s \in Req[current'[s]]
  BY <1>1, <1>2, <1>3 DEF OwnershipConsistent
<1>4. ASSUME NEW d \in commands', NEW s \in Req[d]
      PROVE  current'[s] = d
  <2>1. s \in Subs /\ current[s] = d /\ d # c
    BY <1>2, ReqAssumption DEF OwnershipConsistent, TypeOK
  <2>2. s \notin Req[c]
    BY <2>1, <1>0 DEF OwnershipConsistent
  <2>. QED
    BY <2>1, <2>2, <1>1
<1>5. \A x \in Cmds : status'[x] = IF x = c THEN "Completed" ELSE status[x]
  BY DEF Remove, RemovedAll, TypeOK
<1>. QED
  BY <1>2, <1>3, <1>4, <1>5 DEF OwnershipConsistent, LifecycleMatchesMembership
\* cancel() never changes whether a command is running.
LEMMA CancelLifecycle ==
    ASSUME TypeOK, LifecycleMatchesMembership, NEW S,
           status' = CancelAll(status, S), commands' = commands
    PROVE  LifecycleMatchesMembership'
BY DEF CancelAll, LifecycleMatchesMembership, TypeOK

\* A step that leaves the running set, the holders and the lifecycle alone.
LEMMA FrameOwnership ==
    ASSUME OwnershipConsistent, LifecycleMatchesMembership,
           UNCHANGED <<commands, current, status>>
    PROVE  OwnershipConsistent' /\ LifecycleMatchesMembership'
BY DEF OwnershipConsistent, LifecycleMatchesMembership

LEMMA NextInv == Inv /\ [Next]_vars => Inv'
<1> SUFFICES ASSUME Inv, [Next]_vars
             PROVE  OwnershipConsistent' /\ LifecycleMatchesMembership'
  BY NextTypeInv DEF Inv
<1>0. TypeOK /\ OwnershipConsistent /\ LifecycleMatchesMembership
  BY DEF Inv, TypeInv
<1>1. CASE PollButton
  <2>1. CASE UNCHANGED status
    BY <1>0, <1>1, <2>1, FrameOwnership DEF PollButton
  <2>2. CASE \E S : status' = CancelAll(status, S)
    <3>1. PICK S : status' = CancelAll(status, S)
      BY <2>2
    <3>2. UNCHANGED <<commands, current>>
      BY <1>1 DEF PollButton
    <3>3. OwnershipConsistent'
      BY <1>0, <3>2 DEF OwnershipConsistent
    <3>. QED
      BY <1>0, <3>1, <3>2, <3>3, CancelLifecycle
  <2>. QED
    BY <1>1, <2>1, <2>2 DEF PollButton
<1>2. CASE StepCommand
  <2>1. CmdOrder[idx] \in Cmds
    BY <1>2, OrderAssumption DEF StepCommand, IsOrderOf
  <2>2. CASE CmdOrder[idx] \in commands /\ Remove(CmdOrder[idx])
    BY <1>0, <2>2, RemoveOwnership
  <2>3. CASE UNCHANGED <<commands, current, status>>
    BY <1>0, <2>3, FrameOwnership
  <2>. QED
    BY <1>2, <2>2, <2>3, Zenon DEF StepCommand, StepRemoval
<1>3. CASE DrainAddition
  <2>1. Head(additions) \in Cmds
    BY <1>0, <1>3 DEF DrainAddition, TypeOK
  <2>2. CASE CanAdmit(Head(additions)) /\ Grant(Head(additions))
    BY <1>0, <2>1, <2>2, GrantOwnership
  <2>3. CASE UNCHANGED <<commands, current, status>>
    BY <1>0, <2>3, FrameOwnership
  <2>. QED
    BY <1>3, <2>2, <2>3 DEF DrainAddition, DrainReject
<1>4. CASE FillDefault
  <2> DEFINE c == Default[SubOrder[idx]]
  <2>1. CASE CanAdmit(c) /\ Grant(c)
    <3>1. c \in Cmds
      BY <1>4, <2>1, OrderAssumption, DefaultAssumption
         DEF FillDefault, IsOrderOf, CanAdmit
    <3>. QED
      BY <1>0, <2>1, <3>1, GrantOwnership
  <2>2. CASE UNCHANGED <<commands, current, status>>
    BY <1>0, <2>2, FrameOwnership
  <2>. QED
    BY <1>4, <2>1, <2>2 DEF FillDefault
<1>5. CASE ReadCancels
  <2>1. UNCHANGED <<commands, current>>
    BY <1>5 DEF ReadCancels
  <2>2. OwnershipConsistent'
    BY <1>0, <2>1 DEF OwnershipConsistent
  <2>. QED
    BY <1>0, <1>5, <2>1, <2>2, CancelLifecycle DEF ReadCancels
<1>6. CASE \/ RunStart \/ RunDisabled \/ EndButtons \/ EndStep \/ EndDrain
           \/ EndFill \/ ClearCancels \/ SetEnabled \/ ExternalStart
           \/ DashboardCancel \/ UNCHANGED vars
  <2>1. UNCHANGED <<commands, current, status>>
    BY <1>6 DEF RunStart, RunDisabled, EndButtons, EndStep, EndDrain, EndFill,
                ClearCancels, SetEnabled, ExternalStart, DashboardCancel, vars
  <2>. QED
    BY <1>0, <2>1, FrameOwnership
<1>. QED
  BY <1>1, <1>2, <1>3, <1>4, <1>5, <1>6 DEF Next, LoopStep

\* Inv holds in every reachable state.
LEMMA InvHolds == Spec => []Inv
<1>1. Init => Inv
  BY InitTypeInv DEF Init, Inv, OwnershipConsistent, LifecycleMatchesMembership
<1>. QED
  BY <1>1, NextInv, PTL DEF Spec

\* Ownership invariant (ProcessCommandAddition, Remove): in every reachable
\* state a held subsystem's holder is running and requires it, and every
\* running command holds all of its requirements, for every number of
\* commands, subsystems, buttons and hooks.
THEOREM OwnershipInvariant == Spec => []OwnershipConsistent
BY InvHolds, PTL DEF Inv

\* The running set and the lifecycle of every command agree in every
\* reachable state (Remove calls removed(), admission calls StartRunning()).
THEOREM LifecycleInvariant == Spec => []LifecycleMatchesMembership
BY InvHolds, PTL DEF Inv
-----------------------------------------------------------------------------
(* Refinement of the abstract allocator                                    *)

\* ProcessCommandAddition past its guards is an abstract admission.
LEMMA GrantRefines ==
    ASSUME NEW c \in Cmds, CanAdmit(c), Grant(c)
    PROVE  Alloc!Admit(c)
<1>1. {current[s] : s \in Req[c]} \ {None} = Displaced(c)
  BY DEF Displaced
<1>2. Displaced(c) \subseteq Interruptible
  BY DEF CanAdmit, Displaced
<1>. QED
  BY <1>1, <1>2 DEF Alloc!Admit, CanAdmit, Grant

\* Scheduler::Remove of a running command is an abstract release: what the
\* command holds are exactly its requirements (OwnershipConsistent).
LEMMA RemoveRefines ==
    ASSUME TypeOK, OwnershipConsistent, NEW c \in commands, Remove(c)
    PROVE  Alloc!Release({c})
<1>1. \A s \in Subs : (s \in Req[c]) <=> (current[s] \in {c})
  <2>1. c \in Cmds /\ None \notin Cmds
    BY NoneAssumption DEF TypeOK
  <2>. QED
    BY <2>1 DEF OwnershipConsistent
<1>2. current' = [s \in Subs |-> IF current[s] \in {c} THEN None ELSE current[s]]
  BY <1>1 DEF Remove
<1>. QED
  BY <1>2 DEF Remove, Alloc!Release

\* Every step of the robot loop and of the other threads is an abstract
\* admission, an abstract release or leaves holders and running set alone.
LEMMA NextRefines ==
    Inv /\ [Next]_vars => [Alloc!Next]_<<current, commands>>
<1> SUFFICES ASSUME Inv, [Next]_vars
             PROVE  [Alloc!Next]_<<current, commands>>
  OBVIOUS
<1>0. TypeOK /\ OwnershipConsistent
  BY DEF Inv, TypeInv
<1>1. ASSUME NEW c \in Cmds, CanAdmit(c), Grant(c)
      PROVE  Alloc!Next
  BY <1>1, GrantRefines DEF Alloc!Next
<1>2. ASSUME NEW c \in commands, Remove(c)
      PROVE  Alloc!Next
  BY <1>0, <1>2, RemoveRefines, Zenon DEF Alloc!Next
<1>3. CASE StepCommand
  <2>1. CASE CmdOrder[idx] \in commands /\ Remove(CmdOrder[idx])
    BY <2>1, <1>2
  <2>2. CASE UNCHANGED <<commands, current>>
    BY <2>2
  <2>. QED
    BY <1>3, <2>1, <2>2, Zenon DEF StepCommand, StepRemoval
<1>4. CASE DrainAddition
  <2>1. Head(additions) \in Cmds
    BY <1>0, <1>4 DEF DrainAddition, TypeOK
  <2>2. CASE CanAdmit(Head(additions)) /\ Grant(Head(additions))
    BY <2>1, <2>2, <1>1
  <2>3. CASE UNCHANGED <<commands, current>>
    BY <2>3
  <2>. QED
    BY <1>4, <2>2, <2>3 DEF DrainAddition, DrainReject
<1>5. CASE FillDefault
  <2> DEFINE c == Default[SubOrder[idx]]
  <2>1. CASE CanAdmit(c) /\ Grant(c)
    <3>1. c \in Cmds
      BY <1>5, <2>1, OrderAssumption, DefaultAssumption
         DEF FillDefault, IsOrderOf, CanAdmit
    <3>. QED
      BY <2>1, <3>1, <1>1
  <2>2. CASE UNCHANGED <<commands, current>>
    BY <2>2
  <2>. QED
    BY <1>5, <2>1, <2>2 DEF FillDefault
<1>6. CASE \/ RunStart \/ RunDisabled \/ PollButton \/ EndButtons \/ EndStep
           \/ EndDrain \/ EndFill \/ ReadCancels \/ ClearCancels \/ SetEnabled
           \/ ExternalStart \/ DashboardCancel \/ UNCHANGED vars
  BY <1>6 DEF RunStart, RunDisabled, PollButton, EndButtons, EndStep, EndDrain,
              EndFill, ReadCancels, ClearCancels, SetEnabled, ExternalStart,
              DashboardCancel, vars
<1>. QED
  BY <1>3, <1>4, <1>5, <1>6 DEF Next, LoopStep

\* The Scheduler implements the abstract allocator (AllocationRefined) for
\* every value of the constants: under the mapping of the subsystems'
\* holders and m_commands, ProcessCommandAddition is an atomic
\* all-or-nothing admission over interruptible holders and Remove a
\* release, and no other step of Run(), the dashboard update or the other
\* threads touches either.
THEOREM Refinement == Spec => AllocationRefined
<1>1. Init => Alloc!Init
  BY DEF Init, Alloc!Init
<1>. QED
  BY <1>1, InvHolds, NextRefines, PTL DEF Spec, AllocationRefined, Alloc!Spec, Alloc!avars
-----------------------------------------------------------------------------
(* Dashboard publication                                                   *)

\* The strengthening of PublishedIsRunning: up to the reset of
\* m_runningCommandsChanged the Ids entry lists the running set, and after
\* it the entry can only lag behind while the flag is set.
PublishedInv ==
    /\ pc \in {"idle", "buttons"} => published = commands
    /\ ~changed => published = commands

LEMMA NextPublishedInv ==
    TypeInv /\ PublishedInv /\ [Next]_vars => PublishedInv'
<1> SUFFICES ASSUME TypeInv, PublishedInv, [Next]_vars PROVE PublishedInv'
  OBVIOUS
<1>1. CASE \/ RunStart \/ PollButton \/ EndDrain \/ EndStep \/ EndFill
           \/ SetEnabled \/ ExternalStart \/ DashboardCancel \/ UNCHANGED vars
  BY <1>1 DEF RunStart, PollButton, EndDrain, EndStep, EndFill, SetEnabled,
              ExternalStart, DashboardCancel, vars, PublishedInv
<1>2. CASE RunDisabled \/ EndButtons
  BY <1>2 DEF RunDisabled, EndButtons, PublishedInv
<1>3. CASE StepCommand
  <2>1. pc = "step" /\ pc' = "step" /\ UNCHANGED published
    BY <1>3 DEF StepCommand
  <2>2. CASE StepRemoval(CmdOrder[idx])
    <3>1. changed' = TRUE
      BY <2>2 DEF StepRemoval
    <3>. QED
      BY <2>1, <3>1 DEF PublishedInv
  <2>3. CASE UNCHANGED <<commands, changed>>
    BY <2>1, <2>3 DEF PublishedInv
  <2>. QED
    BY <1>3, <2>2, <2>3, Zenon DEF StepCommand
<1>4. CASE DrainAddition
  BY <1>4 DEF DrainAddition, DrainReject, Grant, PublishedInv
<1>5. CASE FillDefault
  BY <1>5 DEF FillDefault, Grant, PublishedInv
<1>6. CASE ReadCancels \/ ClearCancels
  BY <1>6 DEF ReadCancels, ClearCancels, Publish, PublishedInv
<1>. QED
  BY <1>1, <1>2, <1>3, <1>4, <1>5, <1>6 DEF Next, LoopStep

\* Between loop iterations the Ids entry lists exactly the running set
\* (PublishedIsRunning), for every value of the constants: every change of
\* m_commands in a tick sets m_runningCommandsChanged before the update.
THEOREM PublishedInvariant == Spec => []PublishedIsRunning
<1>1. Init => TypeInv /\ PublishedInv
  BY InitTypeInv DEF Init, PublishedInv
<1>2. Spec => [](TypeInv /\ PublishedInv)
  BY <1>1, NextTypeInv, NextPublishedInv, PTL DEF Spec
<1>3. PublishedInv => PublishedIsRunning
  BY DEF PublishedInv, PublishedIsRunning
<1>. QED
  BY <1>2, <1>3, PTL
-----------------------------------------------------------------------------
(* A robot program that also calls RemoveAll()                            *)

\* One iteration of RemoveAll()'s loop removes a running command, and its
\* hook queues a command.
LEMMA RemoveAllStepPick ==
    ASSUME RemoveAllStep
    PROVE  \E c \in commands :
              /\ Remove(c)
              /\ additions' = IF OnRemoved[c] = None THEN additions
                              ELSE AddCommand(additions, OnRemoved[c])
              /\ UNCHANGED <<enabled, changed, confirmed, published,
                             cancelEntry, toCancel, pc, idx>>
BY Zenon DEF RemoveAllStep

LEMMA RemoveAllTypeInv == TypeInv /\ RemoveAll => TypeInv'
<1> SUFFICES ASSUME TypeInv, RemoveAll PROVE TypeInv'
  OBVIOUS
<1>. USE DEF TypeInv, TypeOK, ButtonIndexOK, Phases
<1>1. CASE RemoveAllCall \/ RemoveAllReturn
  BY <1>1 DEF RemoveAllCall, RemoveAllReturn
<1>2. CASE RemoveAllStep
  <2>1. PICK c \in commands :
              /\ Remove(c)
              /\ additions' = IF OnRemoved[c] = None THEN additions
                              ELSE AddCommand(additions, OnRemoved[c])
              /\ UNCHANGED <<enabled, changed, confirmed, published,
                             cancelEntry, toCancel, pc, idx>>
    BY <1>2, RemoveAllStepPick
  <2>2. c \in Cmds /\ OnRemoved[c] \in Cmds \cup {None}
    BY HookAssumption
  <2>3. /\ commands' \subseteq Cmds
        /\ current' \in [Subs -> Cmds \cup {None}]
        /\ status' \in [Cmds -> Status]
    BY <2>1, <2>2, RemoveType
  <2>4. additions' \in Seq(Cmds)
    BY <2>1, <2>2, AddCommandType
  <2>5. pc = "removeAll"
    BY <1>2 DEF RemoveAllStep
  <2>. QED
    BY <2>1, <2>3, <2>4, <2>5, Zenon
<1>. QED
  BY <1>1, <1>2 DEF RemoveAll

LEMMA RemoveAllInv == Inv /\ RemoveAll => Inv'
<1> SUFFICES ASSUME Inv, RemoveAll
             PROVE  OwnershipConsistent' /\ LifecycleMatchesMembership'
  BY RemoveAllTypeInv DEF Inv
<1>0. TypeOK /\ OwnershipConsistent /\ LifecycleMatchesMembership
  BY DEF Inv, TypeInv
<1>1. CASE RemoveAllCall \/ RemoveAllReturn
  BY <1>0, <1>1, FrameOwnership DEF RemoveAllCall, RemoveAllReturn
<1>2. CASE RemoveAllStep
  <2>1. PICK c \in commands : Remove(c)
    BY <1>2, RemoveAllStepPick
  <2>. QED
    BY <1>0, <2>1, RemoveOwnership
<1>. QED
  BY <1>1, <1>2 DEF RemoveAll

\* Inv holds in every reachable state of a program that calls RemoveAll().
LEMMA InvHoldsWithRemoveAll == SpecWithRemoveAll => []Inv
<1>1. Init => Inv
  BY InitTypeInv DEF Init, Inv, OwnershipConsistent, LifecycleMatchesMembership
<1>2. Inv /\ [Next \/ RemoveAll]_vars => Inv'
  BY NextInv, RemoveAllInv
<1>. QED
  BY <1>1, <1>2, PTL DEF SpecWithRemoveAll

\* The ownership invariant (ProcessCommandAddition, Remove) also holds when
\* the program calls RemoveAll() between loop iterations, with removed()
\* hooks that queue commands while it empties m_commands one by one.
THEOREM OwnershipInvariantWithRemoveAll ==
    SpecWithRemoveAll => []OwnershipConsistent
BY InvHoldsWithRemoveAll, PTL DEF Inv

\* The running set and the lifecycle of every command agree in every
\* reachable state of a program that calls RemoveAll(): each command it
\* drops from m_commands gets its removed().
THEOREM LifecycleInvariantWithRemoveAll ==
    SpecWithRemoveAll => []LifecycleMatchesMembership
BY InvHoldsWithRemoveAll, PTL DEF Inv

\* Each step of RemoveAll() is an abstract release of one running command,
\* or leaves holders and running set alone.
LEMMA RemoveAllRefines ==
    Inv /\ RemoveAll => [Alloc!Next]_<<current, commands>>
<1> SUFFICES ASSUME Inv, RemoveAll
             PROVE  [Alloc!Next]_<<current, commands>>
  OBVIOUS
<1>0. TypeOK /\ OwnershipConsistent
  BY DEF Inv, TypeInv
<1>1. CASE RemoveAllCall \/ RemoveAllReturn
  BY <1>1 DEF RemoveAllCall, RemoveAllReturn
<1>2. CASE RemoveAllStep
  <2>1. PICK c \in commands : Remove(c)
    BY <1>2, RemoveAllStepPick
  <2>2. Alloc!Release({c})
    BY <1>0, <2>1, RemoveRefines
  <2>3. {c} \in SUBSET commands
    OBVIOUS
  <2>. QED
    BY <2>2, <2>3, Zenon DEF Alloc!Next
<1>. QED
  BY <1>1, <1>2 DEF RemoveAll

\* A program that calls RemoveAll() still implements the abstract
\* allocator (AllocationRefined): RemoveAll() is a sequence of releases.
THEOREM RefinementWithRemoveAll == SpecWithRemoveAll => AllocationRefined
<1>1. Init => Alloc!Init
  BY DEF Init, Alloc!Init
<1>2. Inv /\ [Next \/ RemoveAll]_vars => [Alloc!Next]_<<current, commands>>
  BY NextRefines, RemoveAllRefines
<1>. QED
  BY <1>1, <1>2, InvHoldsWithRemoveAll, PTL
     DEF SpecWithRemoveAll, AllocationRefined, Alloc!Spec, Alloc!avars
=============================================================================
