--------------------------- MODULE ProcessStacks ---------------------------
(***************************************************************************)
(* What the process layer promises, without pcbs, parent links, pages or   *)
(* saved contexts: each terminal runs a stack of processes.  The first     *)
(* tick that reaches a terminal starts its base shell; execute on a        *)
(* terminal pushes a process with a pid no terminal is using; halt on a    *)
(* terminal pops its top, never its base shell.  No other terminal's       *)
(* stack changes in any of these steps.                                   *)
(***************************************************************************)
EXTENDS Sequences, SequencesExt

CONSTANTS Terminals, Pids

VARIABLE stack     \* stack[t]: terminal t's processes, base shell first

InUse == UNION {ToSet(stack[t]) : t \in Terminals}

Init == stack = [t \in Terminals |-> <<>>]

\* The base shell of a terminal that was not started.
Start(t, p) ==
  /\ stack[t] = <<>>
  /\ p \notin InUse
  /\ stack' = [stack EXCEPT ![t] = <<p>>]

\* A command run on a started terminal.
Execute(t, p) ==
  /\ stack[t] # <<>>
  /\ p \notin InUse
  /\ stack' = [stack EXCEPT ![t] = Append(@, p)]

\* The top process of a terminal exits, back to the one below it.
Exit(t) ==
  /\ Len(stack[t]) > 1
  /\ stack' = [stack EXCEPT ![t] = Front(@)]

Next ==
  \E t \in Terminals :
    \/ \E p \in Pids : Start(t, p) \/ Execute(t, p)
    \/ Exit(t)

Spec == Init /\ [][Next]_stack

=============================================================================
