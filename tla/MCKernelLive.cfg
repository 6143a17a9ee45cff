\* Liveness of execute and halt under the same environment, with command
\* lines that carry no argument.
CONSTANTS
  NUM_TERMINAL = 3
  PCB_SIZE = 4
  FDT_SIZE = 3
  Args <- MCNoArgs
  NoArg = NoArg
  Garbage = Garbage
  NoCtx = NoCtx
  InputBeforeBoot = FALSE
  ForegroundExecOnly = TRUE

SPECIFICATION Spec

PROPERTY SyscallsReturn
