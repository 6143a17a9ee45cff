\* A command runs on terminal 0 before the scheduler has started terminals 1 and 2.
CONSTANTS
  NUM_TERMINAL = 3
  PCB_SIZE = 4
  FDT_SIZE = 3
  Args <- MCArgs
  NoArg = NoArg
  Garbage = Garbage
  NoCtx = NoCtx
  InputBeforeBoot = TRUE
  ForegroundExecOnly = TRUE

SPECIFICATION Spec

INVARIANT BaseShellsAreTerminalRoots
