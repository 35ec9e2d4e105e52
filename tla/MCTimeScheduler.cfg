SPECIFICATION FairSpec
CONSTANTS
  Actions = {"once", "blink", "key"}
  Delay <- MCDelay
  Repeated <- MCRepeated
  Irq <- MCIrq
  TickMs = 2
  IrqTicks = 1
  QueueLength = 4
  SendTimeout = 1
  MaxLate = 2
  DaemonMayBlock = TRUE
INVARIANT ActionsFireInTime
PROPERTY EveryActionIsInvoked
\* After a failed assert nothing goes on.
CHECK_DEADLOCK FALSE
