------------------------------- MODULE Kernel -------------------------------
(***************************************************************************)
(* The multiprogramming core of student-distrib: the process table        *)
(* (PCB.c), the terminal table (terminal.c), the round-robin scheduler    *)
(* (scheduler.c) and the execute/halt/open/close system calls             *)
(* (syscall.c).                                                           *)
(*                                                                         *)
(* Each terminal has one kernel thread of control: the deepest process of *)
(* its tree, running in user mode or inside a system call.  Only the      *)
(* thread of exec_terminal takes steps.  The system-call gate is a trap   *)
(* gate (set_idt.c: reserved3 = 1), so the timer can preempt a thread in  *)
(* the middle of execute or halt; execute and halt are therefore split    *)
(* into the steps between which a preemption changes what happens.  The   *)
(* timer and keyboard gates are interrupt gates, so the tick and        *)
(* SwitchTerminal are atomic.                                              *)
(*                                                                         *)
(* Saved register pairs are abstracted to the terminal whose kernel       *)
(* thread they hold: prev_sp[p] (pcb[p].prev_sp/prev_bp, saved by the     *)
(* scheduler) and stack_ptr[p] (pcb[p].stack_ptr/base_ptr, saved by       *)
(* execute and jumped to by halt).  image[s] is the terminal whose        *)
(* execute last loaded a program into the physical 4MB slot s.            *)
(***************************************************************************)
EXTENDS Integers, FiniteSets, FiniteSetsExt, Sequences

CONSTANTS
  NUM_TERMINAL,       \* terminal.h NUM_TERMINAL
  PCB_SIZE,           \* PCB.h PCB_SIZE
  FDT_SIZE,           \* PCB.h FDT_SIZE
  Args,               \* argument texts a command line can carry
  NoArg,              \* argument[0] = '\0'
  Garbage,            \* the uninitialised argument bytes of a fresh pcb
  NoCtx,              \* a saved register pair holding no kernel context
  InputBeforeBoot,    \* can a command run before every terminal started?
  ForegroundExecOnly  \* are commands run only by the foreground terminal,
                      \* with no terminal switch while one is in flight?

ASSUME NUM_TERMINAL \in Nat \ {0}
ASSUME PCB_SIZE >= NUM_TERMINAL
ASSUME FDT_SIZE >= 3
ASSUME InputBeforeBoot \in BOOLEAN /\ ForegroundExecOnly \in BOOLEAN

NONE      == -1                       \* the code's -1 for "no pid/terminal"
Terminals == 0 .. NUM_TERMINAL - 1
Pids      == 0 .. PCB_SIZE - 1
FdIdx     == 2 .. FDT_SIZE - 1        \* descriptors 0/1 are stdin/stdout
ArgVals   == Args \cup {NoArg, Garbage}
Ctx       == Terminals \cup {NoCtx}

\* Program counter of a terminal's kernel thread.
\*  idle     : terminal not started (TMNL_IDLE)
\*  user     : its deepest process runs in user mode
\*  x_create : in execute, free slot found, pcb not yet written
\*  x_load   : in execute, pcb written and mapped, image not yet loaded
\*  h_ret    : in halt, slot freed, not yet jumped back into execute
\*  lost     : restored from a register pair that was never saved
PCs == {"idle", "user", "x_create", "x_load", "h_ret", "lost"}

NoX == [boot |-> FALSE, parent |-> NONE, slot |-> NONE, arg |-> NoArg,
        pid |-> NONE]
NoH == [child |-> NONE, prev |-> NONE, stack |-> NoCtx]

VARIABLES
  pcbExists,        \* pcb[p].flags = PCB_EXISTS
  parent,           \* pcb[p].parent
  fds,              \* {i \in 2..FDT_SIZE-1 : pcb[p].fd_table[i].flags}
  argument,         \* pcb[p].argument, abstracted to its text
  stack_ptr,        \* pcb[p].stack_ptr/base_ptr: whose execute waits there
  prev_sp,          \* pcb[p].prev_sp/prev_bp: whose preempted context
  active_process,   \* tmnl_block[t].active_process
  tflags,           \* tmnl_block[t].flags = TMNL_RUN
  exec_terminal,    \* scheduler.h exec_terminal
  active_terminal,  \* terminal.h active_terminal (the foreground)
  pd32,             \* page_directory[32]: pid mapped at 128MB, or NONE
  image,            \* physical slot -> terminal whose execute loaded it
  pc,               \* per terminal, see PCs
  x,                \* per terminal, execute's locals across preemption
  h,                \* per terminal, halt's locals across preemption
  given             \* ghost: the argument each process was started with

procVars  == <<pcbExists, parent, fds, argument, stack_ptr, prev_sp>>
termVars  == <<active_process, tflags, exec_terminal, active_terminal>>
vars == <<procVars, termVars, pd32, image, pc, x, h, given>>

-----------------------------------------------------------------------------
(* Helpers translated from PCB.c and syscall.c                             *)

\* Mutation: the scan ends without its -1 and returns the loop index.
FirstFreeNoSentinel ==
  IF \E p \in Pids : ~pcbExists[p]
  THEN Min({p \in Pids : ~pcbExists[p]})
  ELSE PCB_SIZE

\* create_process: the first absent slot by ascending index, or -1.
FirstFree ==
  IF \E p \in Pids : ~pcbExists[p]
  THEN Min({p \in Pids : ~pcbExists[p]})
  ELSE NONE

\* Mutation: the base-shell test is written pid <= 3.
IsBasePidOffByOne(pid) == pid \in 0..NUM_TERMINAL

\* execute, line 191: the first three pids are taken to be base shells.
IsBasePid(pid) == pid \in Terminals

\* find_base_process: walk parent links to the parentless ancestor.  The
\* fuel bounds the walk; a cycle (which the loop would spin on) gives NONE.
RECURSIVE FindBaseFuel(_, _)
FindBaseFuel(pid, fuel) ==
  IF pid = NONE \/ fuel = 0 THEN NONE
  ELSE IF parent[pid] = NONE THEN pid
  ELSE FindBaseFuel(parent[pid], fuel - 1)

find_base_process(pid) == FindBaseFuel(pid, PCB_SIZE)

\* The processes of terminal t: its active process and all its ancestors.
RECURSIVE Chain(_, _)
Chain(pid, fuel) ==
  IF pid = NONE \/ fuel = 0 THEN {}
  ELSE {pid} \cup Chain(parent[pid], fuel - 1)

Tree(t) == Chain(active_process[t], PCB_SIZE)

\* Refinement mapping: terminal t's stack is the parent chain from its
\* active process, the parentless process first.
RECURSIVE StackFrom(_, _)
StackFrom(pid, fuel) ==
  IF pid = NONE \/ fuel = 0 THEN <<>>
  ELSE Append(StackFrom(parent[pid], fuel - 1), pid)

Stacks == [t \in Terminals |-> StackFrom(active_process[t], PCB_SIZE)]

PS == INSTANCE ProcessStacks WITH stack <- Stacks

\* create_process_page: page_directory[32] (128MB) maps the 4MB frame at
\* 8MB + 4MB*pid; pd32 holds the pid whose frame that is.
create_process_page(pid) == pid

\* execute lines 176-203, once a slot is chosen: create_process writes the
\* slot (fd 0/1 open, 2.. absent, argument left uninitialised), a pid that
\* is a terminal number becomes that terminal's base shell and the
\* executing terminal, any other pid the active process of the foreground
\* terminal fg; create_process_page maps the new pid at 128MB.
Register(slot, par, fg, exT, psp, junk) ==
  /\ pcbExists' = [pcbExists EXCEPT ![slot] = TRUE]
  /\ parent' = [parent EXCEPT ![slot] = IF IsBasePid(slot) THEN NONE ELSE par]
  /\ fds' = [fds EXCEPT ![slot] = {}]
  /\ argument' = [argument EXCEPT ![slot] = junk]
  /\ prev_sp' = [psp EXCEPT ![slot] = NoCtx]
  /\ exec_terminal' = IF IsBasePid(slot) THEN slot ELSE exT
  /\ active_process' =
       [active_process EXCEPT ![IF IsBasePid(slot) THEN slot ELSE fg] = slot]
  /\ pd32' = create_process_page(slot)

\* Mutation: the asm block that saves the caller's ebp/esp is left out.
SaveCallerSkipped(pid, t) == stack_ptr

\* execute lines 216-221: the caller's ebp/esp (the kernel stack of
\* terminal t's thread) saved into the new pcb's stack_ptr.
SaveCaller(pid, t) == [stack_ptr EXCEPT ![pid] = t]

-----------------------------------------------------------------------------
Init ==
  /\ pcbExists = [p \in Pids |-> FALSE]          \* init_pcb
  /\ parent = [p \in Pids |-> 0]                 \* zeroed BSS
  /\ fds = [p \in Pids |-> {}]
  /\ argument = [p \in Pids |-> NoArg]
  /\ stack_ptr = [p \in Pids |-> NoCtx]
  /\ prev_sp = [p \in Pids |-> NoCtx]
  /\ active_process = [t \in Terminals |-> NONE] \* init_terminal
  /\ tflags = [t \in Terminals |-> FALSE]
  /\ exec_terminal = NONE
  /\ active_terminal = NONE
  /\ pd32 = NONE                                 \* create_pages
  /\ image = [p \in Pids |-> NoCtx]
  /\ pc = [t \in Terminals |-> "idle"]
  /\ x = [t \in Terminals |-> NoX]
  /\ h = [t \in Terminals |-> NoH]
  /\ given = [p \in Pids |-> NoArg]

-----------------------------------------------------------------------------
(* Timer interrupt: sched_handler and change_context.                      *)

\* Round robin: the terminal after exec_terminal (0 on the first tick).
NextTerminal == (exec_terminal + 1) % NUM_TERMINAL

\* Mutation: the outgoing context is never written back.
SavePrevDropped(cur, t) == prev_sp

\* change_context lines 52-60: the outgoing register pair goes into the
\* pcb of the outgoing terminal's active process.  On the first tick
\* (exec_terminal = -1) the save goes through tmnl_block[-1], outside the
\* modelled tables.
SavePrev(cur, t) ==
  IF cur = NONE THEN prev_sp ELSE [prev_sp EXCEPT ![cur] = t]

\* The outgoing terminal's active process, if any.
Outgoing ==
  IF exec_terminal = NONE THEN NONE ELSE active_process[exec_terminal]

\* Mutation: the scheduler forgets create_process_page for the next
\* terminal, so 128MB keeps mapping the outgoing process.
SchedResumeNoRemap ==
  /\ tflags[NextTerminal]
  /\ prev_sp' = SavePrev(Outgoing, exec_terminal)
  /\ exec_terminal' = NextTerminal
  /\ UNCHANGED <<pcbExists, parent, fds, argument, stack_ptr, active_process,
                 tflags, active_terminal, pd32, image, pc, x, h, given>>

\* A started terminal: save, map its active process at 128MB, and resume
\* the register pair saved in that pcb.
SchedResume ==
  LET nxt == NextTerminal IN
  /\ tflags[nxt]
  /\ prev_sp' = SavePrev(Outgoing, exec_terminal)
  /\ pd32' = create_process_page(active_process[nxt])
  /\ exec_terminal' = nxt
  /\ UNCHANGED <<pcbExists, parent, fds, argument, stack_ptr, active_process,
                 tflags, active_terminal, image, pc, x, h, given>>

\* An idle terminal: save, mark it running and run execute("shell")
\* inside the handler.  If that execute finds no slot, change_context
\* goes on to restore the register pair of pcb[-1], which nothing ever
\* saved: the terminal's thread is lost.
SchedSpawn ==
  LET nxt  == NextTerminal
      slot == FirstFree
      par  == IF active_terminal = NONE THEN NONE
              ELSE active_process[active_terminal]
      fg   == IF active_terminal = NONE THEN 0 ELSE active_terminal
      saved == SavePrev(Outgoing, exec_terminal)
  IN
  /\ ~tflags[nxt]
  /\ tflags' = [tflags EXCEPT ![nxt] = TRUE]
  /\ active_terminal' = fg
  /\ IF slot = NONE
     THEN /\ prev_sp' = saved
          /\ exec_terminal' = nxt
          /\ pc' = [pc EXCEPT ![nxt] = "lost"]
          /\ UNCHANGED <<pcbExists, parent, fds, argument, stack_ptr,
                         active_process, pd32, image, x, h, given>>
     ELSE /\ \E junk \in {NoArg, Garbage} :
               Register(slot, par, fg, nxt, saved, junk)
          /\ stack_ptr' = SaveCaller(slot, nxt)
          /\ image' = [image EXCEPT ![slot] = nxt]
          /\ given' = [given EXCEPT ![slot] = NoArg]
          /\ pc' = [pc EXCEPT ![nxt] = "user"]
          /\ UNCHANGED <<x, h>>

-----------------------------------------------------------------------------
(* System calls made by the thread of terminal t.                          *)

\* The thread of t is on the CPU in user mode with a process to act for.
UserRuns(t) ==
  /\ pc[t] = "user"
  /\ exec_terminal = t
  /\ active_process[t] \in Pids

\* The environment: who may type a command, and when.
MayRunCommand(t) ==
  /\ InputBeforeBoot \/ \A u \in Terminals : tflags[u]
  /\ ~ForegroundExecOnly \/ t = active_terminal

\* execute of a command that parse/lookup/type/magic reject: parse_cmd has
\* already stored the argument text in the caller's pcb; returns -1.
ExecuteFails(t, a) ==
  /\ UserRuns(t)
  /\ MayRunCommand(t)
  /\ argument' = [argument EXCEPT ![active_process[t]] = a]
  /\ UNCHANGED <<pcbExists, parent, fds, stack_ptr, prev_sp, termVars,
                 pd32, image, pc, x, h, given>>

\* execute lines 140-186 up to create_process's scan: the argument, if the
\* command has one, goes to the caller's pcb (parse_cmd leaves it alone
\* otherwise); the parent is the foreground terminal's active process, or
\* -1 before any terminal is foreground; the scan finds the first free slot.
ExecuteBegin(t, a) ==
  /\ UserRuns(t)
  /\ MayRunCommand(t)
  /\ argument' = IF a = NoArg THEN argument
                 ELSE [argument EXCEPT ![active_process[t]] = a]
  /\ x' = [x EXCEPT ![t] =
             [boot   |-> active_terminal = NONE,
              parent |-> IF active_terminal = NONE THEN NONE
                         ELSE active_process[active_terminal],
              slot   |-> FirstFree,
              arg    |-> a,
              pid    |-> NONE]]
  /\ pc' = [pc EXCEPT ![t] = "x_create"]
  /\ UNCHANGED <<pcbExists, parent, fds, stack_ptr, prev_sp, termVars,
                 pd32, image, h, given>>

\* Mutation: with no slot free, execute spins rescanning the table
\* instead of returning -1.
ExecNoSlotRetry(t) ==
  /\ pc[t] = "x_create"
  /\ exec_terminal = t
  /\ x[t].slot = NONE
  /\ x' = [x EXCEPT ![t].slot = FirstFree]
  /\ UNCHANGED <<procVars, termVars, pd32, image, pc, h, given>>

\* execute lines 184-188: create_process found no slot; active_terminal
\* becomes 0 on the very first execute and execute returns -1.
ExecNoSlot(t) ==
  /\ pc[t] = "x_create"
  /\ exec_terminal = t
  /\ x[t].slot = NONE
  /\ active_terminal' = IF x[t].boot THEN 0 ELSE active_terminal
  /\ pc' = [pc EXCEPT ![t] = "user"]
  /\ x' = [x EXCEPT ![t] = NoX]
  /\ UNCHANGED <<procVars, active_process, tflags, exec_terminal, pd32,
                 image, h, given>>

\* execute lines 178-203 after the scan: create_process writes the slot it
\* found free (without looking again), active_terminal becomes 0 on the
\* very first execute, and the new pid is registered and mapped.
ExecCreate(t) ==
  LET fg == IF x[t].boot THEN 0 ELSE active_terminal
      slot == x[t].slot
  IN
  /\ pc[t] = "x_create"
  /\ exec_terminal = t
  /\ slot # NONE
  /\ active_terminal' = fg
  /\ \E junk \in {NoArg, Garbage} :
       Register(slot, x[t].parent, fg, exec_terminal, prev_sp, junk)
  /\ stack_ptr' = [stack_ptr EXCEPT ![slot] = NoCtx]
  /\ given' = [given EXCEPT ![slot] = x[t].arg]
  /\ x' = [x EXCEPT ![t].pid = slot]
  /\ pc' = [pc EXCEPT ![t] = "x_load"]
  /\ UNCHANGED <<tflags, image, h>>

\* execute lines 206-242: load_prog copies the image into whatever slot is
\* mapped at 128MB now, the caller's register pair is saved into the new
\* pcb's stack_ptr, and iret enters the new program.
ExecLoad(t) ==
  /\ pc[t] = "x_load"
  /\ exec_terminal = t
  /\ pd32 \in Pids
  /\ image' = [image EXCEPT ![pd32] = t]
  /\ stack_ptr' = SaveCaller(x[t].pid, t)
  /\ pc' = [pc EXCEPT ![t] = "user"]
  /\ x' = [x EXCEPT ![t] = NoX]
  /\ UNCHANGED <<pcbExists, parent, fds, argument, prev_sp, termVars, pd32,
                 h, given>>

\* The descriptors halt and end_process leave: close(i) for i = 3.. on the
\* halting process; then, with active_process already the parent,
\* end_process's rem_fd(2..) clears the parent's table.
HaltFds(p, prev) == [fds EXCEPT ![p] = @ \cap {2}, ![prev] = {}]

\* Mutation: halt hands the terminal back to the parent in the foreground
\* terminal's block (active_terminal) rather than the executing one's.
UnregisterForeground(t, prev) ==
  [active_process EXCEPT ![active_terminal] = prev]

\* halt line 108: the executing terminal's active process becomes the parent.
Unregister(t, prev) == [active_process EXCEPT ![t] = prev]

\* halt lines 86-111, from the system call or the "exit" alias of execute:
\* a base shell (parent -1) is left alone and halt returns 0, a no-op
\* the model omits; otherwise descriptors are closed, the terminal's
\* active process becomes the parent and end_process frees the slot.
\* child_stack was read from the pcb at entry.
Halt(t) ==
  LET p == active_process[t]
      prev == parent[p]
  IN
  /\ UserRuns(t)
  /\ prev # NONE
  /\ fds' = HaltFds(p, prev)
  /\ active_process' = Unregister(t, prev)
  /\ pcbExists' = [pcbExists EXCEPT ![p] = FALSE]
  /\ argument' = [argument EXCEPT ![p] = NoArg]
  /\ h' = [h EXCEPT ![t] = [child |-> p, prev |-> prev,
                            stack |-> stack_ptr[p]]]
  /\ pc' = [pc EXCEPT ![t] = "h_ret"]
  /\ UNCHANGED <<parent, stack_ptr, prev_sp, tflags, exec_terminal,
                 active_terminal, pd32, image, x, given>>

\* halt lines 113-128: map the parent, set esp0 and jump to child_stack,
\* which resumes the execute call that saved it as the parent's return.
HaltReturn(t) ==
  /\ pc[t] = "h_ret"
  /\ exec_terminal = t
  /\ pd32' = create_process_page(h[t].prev)
  /\ pc' = [pc EXCEPT ![t] = "user"]
  /\ h' = [h EXCEPT ![t] = NoH]
  /\ UNCHANGED <<procVars, termVars, image, x, given>>

\* A fault in terminal t's user program: every set_idt.c handler clears
\* the screen, prints and calls halt(0).  The exception gates are
\* interrupt gates (init_idt: reserved3 = 0) and nothing in halt sets IF,
\* so unlike the system call, halt runs to its jump back into the
\* parent's execute with no tick in between: Halt and HaltReturn in one
\* step.  A base shell's halt(0) returns into the handler, which then
\* returns with ret onto the exception frame; that case is left out.
ExceptionHalt(t) ==
  LET p == active_process[t]
      prev == parent[p]
  IN
  /\ UserRuns(t)
  /\ prev # NONE
  /\ fds' = HaltFds(p, prev)
  /\ active_process' = Unregister(t, prev)
  /\ pcbExists' = [pcbExists EXCEPT ![p] = FALSE]
  /\ argument' = [argument EXCEPT ![p] = NoArg]
  /\ pd32' = create_process_page(prev)
  /\ UNCHANGED <<parent, stack_ptr, prev_sp, tflags, exec_terminal,
                 active_terminal, image, pc, x, h, given>>

\* open of an existing file: add_fd takes the lowest absent index >= 2 of
\* the executing process (-1 if none); file/dir open hooks return 0.
Open(t) ==
  LET p == active_process[t]
      free == FdIdx \ fds[p]
  IN
  /\ UserRuns(t)
  /\ free # {}
  /\ fds' = [fds EXCEPT ![p] = @ \cup {Min(free)}]
  /\ UNCHANGED <<pcbExists, parent, argument, stack_ptr, prev_sp, termVars,
                 pd32, image, pc, x, h, given>>

\* close(fd): rem_fd refuses 0/1, out-of-range and absent descriptors.
Close(t, fd) ==
  LET p == active_process[t] IN
  /\ UserRuns(t)
  /\ fd \in fds[p]
  /\ fds' = [fds EXCEPT ![p] = @ \ {fd}]
  /\ UNCHANGED <<pcbExists, parent, argument, stack_ptr, prev_sp, termVars,
                 pd32, image, pc, x, h, given>>

\* Keyboard interrupt alt+F(u+1): switch_terminal(u) refuses the current
\* foreground and an idle terminal; otherwise u becomes the foreground.
SwitchTerminal(u) ==
  /\ u # active_terminal
  /\ tflags[u]
  /\ ~ForegroundExecOnly \/ \A t \in Terminals : pc[t] \notin {"x_create", "x_load"}
  /\ active_terminal' = u
  /\ UNCHANGED <<procVars, active_process, tflags, exec_terminal, pd32,
                 image, pc, x, h, given>>

-----------------------------------------------------------------------------
Next ==
  \/ SchedResume
  \/ SchedSpawn
  \/ \E u \in Terminals : SwitchTerminal(u)
  \/ \E t \in Terminals :
       \/ \E a \in Args : ExecuteFails(t, a)
       \/ \E a \in Args \cup {NoArg} : ExecuteBegin(t, a)
       \/ ExecNoSlot(t)
       \/ ExecCreate(t)
       \/ ExecLoad(t)
       \/ Halt(t)
       \/ HaltReturn(t)
       \/ ExceptionHalt(t)
       \/ Open(t)
       \/ \E fd \in FdIdx : Close(t, fd)

\* The PIT fires periodically, so the tick is weakly fair.  A thread's
\* kernel steps are enabled only while its terminal holds the CPU; a time
\* slice is far longer than one of these steps, so they are strongly fair.
Fairness ==
  /\ WF_vars(SchedResume \/ SchedSpawn)
  /\ \A t \in Terminals :
       SF_vars(ExecNoSlot(t) \/ ExecCreate(t) \/ ExecLoad(t) \/ HaltReturn(t))

Spec == Init /\ [][Next]_vars /\ Fairness

-----------------------------------------------------------------------------
TypeOK ==
  /\ pcbExists \in [Pids -> BOOLEAN]
  /\ parent \in [Pids -> Pids \cup {NONE}]
  /\ fds \in [Pids -> SUBSET FdIdx]
  /\ argument \in [Pids -> ArgVals]
  /\ stack_ptr \in [Pids -> Ctx]
  /\ prev_sp \in [Pids -> Ctx]
  /\ active_process \in [Terminals -> Pids \cup {NONE}]
  /\ tflags \in [Terminals -> BOOLEAN]
  /\ exec_terminal \in Terminals \cup {NONE}
  /\ active_terminal \in Terminals \cup {NONE}
  /\ pd32 \in Pids \cup {NONE}
  /\ image \in [Pids -> Ctx]
  /\ pc \in [Terminals -> PCs]
  /\ given \in [Pids -> Args \cup {NoArg}]

-----------------------------------------------------------------------------
(* Safety properties                                                       *)

\* Scheduler context: change_context resumes a started terminal from the
\* register pair in pcb[active_process].prev_sp.  Whenever a started
\* terminal is off the CPU, that pcb holds the context the scheduler saved
\* when it last left that same terminal, and no terminal was ever resumed
\* from a pair nobody saved.
ContextIntegrity ==
  /\ \A t \in Terminals : pc[t] # "lost"
  /\ \A t \in Terminals :
       tflags[t] /\ t # exec_terminal =>
         /\ active_process[t] \in Pids
         /\ prev_sp[active_process[t]] = t

\* Process trees: execute links a new process under, and registers it
\* with, a terminal; halt unlinks it.  No process ever belongs to the
\* trees (active process and its ancestors) of two terminals.
TreesDisjoint ==
  \A t, u \in Terminals : t # u => Tree(t) \cap Tree(u) = {}

\* Base shells: execute makes pid 0, 1 or 2 parentless and the executing
\* terminal's own process.  Every parentless process is the base shell of
\* the started terminal with its number: find_base_process from that
\* terminal's active process leads back to it.
BaseShellsAreTerminalRoots ==
  \A p \in Pids :
    pcbExists[p] /\ parent[p] = NONE =>
      /\ p \in Terminals
      /\ tflags[p]
      /\ find_base_process(active_process[p]) = p

\* Address-space isolation: load_prog writes into whatever slot
\* page_directory[32] maps at that moment.  Every process of a terminal's
\* tree (except one whose image execute is still about to load) runs the
\* image that terminal's own execute loaded into its slot.
ImageOwned ==
  \A t \in Terminals : \A p \in Tree(t) \ {x[t].pid} : image[p] = t

\* halt jumps to the stack_ptr saved in the halting pcb.  It always resumes
\* the execute call made by the same terminal's thread.
HaltResumesOwnExecute ==
  \A t \in Terminals : pc[t] = "h_ret" => h[t].stack = t

\* A halting thread still runs on the kernel stack of the pid it freed
\* (8MB - 8KB*pid) until it jumps back into execute.  That pid is not
\* handed to a new process in the meantime.
HaltStackNotReused ==
  \A t \in Terminals : pc[t] = "h_ret" => ~pcbExists[h[t].child]

\* getargs copies the argument stored in the parent's pcb, failing when it
\* is empty.  For every running child it yields exactly the argument of the
\* command line that started it, and fails when that had none.
GetargsFresh ==
  \A p \in Pids :
    pcbExists[p] /\ parent[p] \in Pids => argument[parent[p]] = given[p]

\* halt closes the descriptors of the halting process.  It never changes
\* the descriptor table of its parent, which resumes with its files open.
HaltKeepsParentFds ==
  [][\A t \in Terminals :
       pc[t] = "user" /\ pc'[t] = "h_ret" =>
         fds'[h'[t].prev] = fds[h'[t].prev]]_vars

\* The process layer implements ProcessStacks: every tick, execute and
\* halt step either leaves every terminal's parent chain alone or starts,
\* pushes onto or pops the chain of exactly one terminal, pushing a pid
\* that no terminal's chain holds and never popping a base shell.
ImplementsProcessStacks == PS!Spec

(* Liveness                                                                *)

\* execute and halt, once entered past their early returns, come back to
\* user mode on the same terminal: the kernel never strands a thread.
SyscallsReturn ==
  \A t \in Terminals :
    pc[t] \in {"x_create", "x_load", "h_ret"} ~> pc[t] = "user"

=============================================================================
