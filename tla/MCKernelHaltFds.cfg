\* Does halt leave the parent's descriptor table alone?
CONSTANTS
  NUM_TERMINAL = 3
  PCB_SIZE = 4
  FDT_SIZE = 3
  Args <- MCArgs
  NoArg = NoArg
  Garbage = Garbage
  NoCtx = NoCtx
  InputBeforeBoot = FALSE
  ForegroundExecOnly = TRUE

SPECIFICATION Spec

PROPERTY HaltKeepsParentFds
