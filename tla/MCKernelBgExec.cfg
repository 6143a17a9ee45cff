\* A background terminal's shell runs a command (or the user switches terminals while an execute is preempted).
CONSTANTS
  NUM_TERMINAL = 3
  PCB_SIZE = 4
  FDT_SIZE = 3
  Args <- MCArgs
  NoArg = NoArg
  Garbage = Garbage
  NoCtx = NoCtx
  InputBeforeBoot = FALSE
  ForegroundExecOnly = FALSE

SPECIFICATION Spec

INVARIANT ContextIntegrity
