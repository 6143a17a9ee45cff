\* The kernel under the environment its timing relies on: commands come from
\* the foreground terminal, after all terminals started, and no terminal
\* switch falls inside an execute.
CONSTANTS
  NUM_TERMINAL = 3
  PCB_SIZE = 4
  FDT_SIZE = 3
  Args <- MCArgs
  NoArg = NoArg
  Garbage = Garbage
  NoCtx = NoCtx
  InputBeforeBoot = FALSE
  ForegroundExecOnly = TRUE

SPECIFICATION Spec

INVARIANT TypeOK
INVARIANT ContextIntegrity
INVARIANT TreesDisjoint
INVARIANT BaseShellsAreTerminalRoots
INVARIANT ImageOwned
INVARIANT HaltResumesOwnExecute
PROPERTY ImplementsProcessStacks
