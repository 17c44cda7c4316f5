\* A disabled Run() returns before stepping the commands.
CONSTANTS
  A = A
  B = B
  C = C
  S1 = S1
  S2 = S2
  None = None
  Cmds <- MCCmds
  Subs <- MCSubs
  Req <- MCReq
  Interruptible <- MCInterruptible
  Default <- MCDefault
  SubOrder <- MCSubOrder
  CmdOrder <- MCCmdOrder
  Buttons <- MCButtons
  OnRemoved <- MCNoHooks
  ExternalStarts <- MCExternalStarts

SPECIFICATION Spec

PROPERTY CanceledRemovedEvenIfDisabled
