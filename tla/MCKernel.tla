------------------------------ MODULE MCKernel ------------------------------
(* Model-checking instance of Kernel: three terminals, as in terminal.h,  *)
(* a process table of four slots (the three base shells and one child)  *)
(* and descriptor tables with one closable entry (fd 2).                  *)
EXTENDS Kernel, TLC

\* The model's argument texts.
MCArgs == {"arg"}

\* Command lines without arguments, for the liveness run.
MCNoArgs == {}

=============================================================================
