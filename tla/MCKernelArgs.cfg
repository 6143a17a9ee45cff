\* Does getargs return the argument of the command that started the caller?
CONSTANTS
  NUM_TERMINAL = 3
  PCB_SIZE = 4
  FDT_SIZE = 3
  Args <- MCArgs
  NoArg = NoArg
  Garbage = Garbage
  NoCtx = NoCtx
  InputBeforeBoot = FALSE
  ForegroundExecOnly = TRUE

SPECIFICATION Spec

INVARIANT GetargsFresh
