\* A removed() hook that calls Start() while the drain holds the additions mutex.
CONSTANTS
  A = A
  B = B
  C = C
  S1 = S1
  S2 = S2
  None = None
  Cmds <- MCCmds
  Subs <- MCSubs
  Req <- MCReq
  Interruptible <- MCHookInterruptible
  Default <- MCHookDefault
  SubOrder <- MCSubOrder
  CmdOrder <- MCCmdOrder
  Buttons <- MCHookButtons
  OnRemoved <- MCHookOnRemoved
  ExternalStarts <- MCExternalStarts

SPECIFICATION Spec

PROPERTY TickCompletes

CHECK_DEADLOCK FALSE
