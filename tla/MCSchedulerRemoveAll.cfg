\* Hooks that start commands, and RemoveAll() between loop iterations.
\* The loop may block on the additions mutex it holds in the drain, so
\* there is no deadlock check.
CONSTANTS
  A = A
  B = B
  C = C
  S1 = S1
  S2 = S2
  None = None
  Cmds <- MCCmds
  Subs <- MCSubs
  Req <- MCReq
  Interruptible <- MCHookInterruptible
  Default <- MCHookDefault
  SubOrder <- MCSubOrder
  CmdOrder <- MCCmdOrder
  Buttons <- MCHookButtons
  OnRemoved <- MCHookOnRemoved
  ExternalStarts <- MCExternalStarts

SPECIFICATION SpecWithRemoveAll

INVARIANT OwnershipConsistent
INVARIANT LifecycleMatchesMembership
PROPERTY AllocationRefined

CHECK_DEADLOCK FALSE
