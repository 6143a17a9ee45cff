\* Can a pid be reallocated while the thread that halted it still runs on its kernel stack?
CONSTANTS
  NUM_TERMINAL = 3
  PCB_SIZE = 4
  FDT_SIZE = 3
  Args <- MCArgs
  NoArg = NoArg
  Garbage = Garbage
  NoCtx = NoCtx
  InputBeforeBoot = FALSE
  ForegroundExecOnly = TRUE

SPECIFICATION Spec

INVARIANT HaltStackNotReused
