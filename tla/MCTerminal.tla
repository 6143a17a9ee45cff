----------------------------- MODULE MCTerminal -----------------------------
(* Terminal instantiated for TLC: the line buffer scaled from 128 bytes   *)
(* to 3, so that a full line, the Enter after it and the overrun are all   *)
(* a few keys away.                                                         *)
EXTENDS Terminal, TLC

=============================================================================
