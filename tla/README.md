# TLA+ model of the anirux kernel (student-distrib)

This directory holds TLA+ models of the multi-terminal x86 teaching kernel
under `src/student-distrib`, the TLC configurations that check them, and
`PROJECT.json`. PROJECT.json lists the components, runs, mutants, the map
from each definition to source lines, the findings and the hazards.

## The system

The kernel runs three terminals. Each terminal has a kernel thread running a
stack of user processes. The parts and how they interact:

| Part | Source | State | Operations |
|---|---|---|---|
| Process table | `PCB.c` | `pcb[6]`: flag, parent, fd table of 8, argument, `stack_ptr` (execute's return context), `prev_sp` (scheduler context) | `init_pcb`, `create_process`, `end_process`, `add_fd`, `rem_fd`, `find_base_process` |
| Scheduler | `scheduler.c` | `exec_terminal` (whose thread holds the CPU) | `sched_handler` / `change_context` on every PIT tick |
| System calls | `syscall.c` | none of its own; it acts on the two tables | `execute` (with `parse_cmd`), `halt`, `read`, `write`, `open`, `close`, `getargs`, `vidmap` |
| Terminals | `terminal.c` | `tmnl_block[3]`: active process, IDLE/RUN flag, line buffer, enter flag, saved video page; `active_terminal` (the foreground) | `init_terminal`, `switch_terminal`, `terminal_read/write` |
| Keyboard | `keyboard_handler.c` | modifier flags | IRQ1 handler: alt+F1..F3 switches terminal; other keys edit the foreground line buffer |
| Paging | `paging.c` | page directory entry 32 (128MB → the pid's 4MB frame), `page_table_2[0]` (vidmap) | `create_process_page`, `load_prog`, `vidmap_helper`, `remap_vidmem` |
| RTC | `rtc_handler.c` | `rtc_block[3]`: client, rate, count, flag | IRQ8 handler, `rtc_read/write/open/close` |
| Filesystem | `filesystem.c` | the read-only boot image | `read_dentry_*`, `read_data`, `file_*`, `dir_*` |
| IDT, PIC | `set_idt.c`, `i8259.c` | gates | exception handlers call `halt(0)` |

**Concurrency.** The interrupt gates for the timer and keyboard clear IF, so
those handlers run atomically. The system-call gate 0x80 is a *trap* gate
(`set_idt.c`: `reserved3 = 1`), so a tick can preempt any system call at any
point. The tick then moves the CPU to the next terminal's thread.
- A thread preempted inside `execute` or `halt` resumes only when the round
  robin comes back to it.
- In the meantime other terminals execute, halt, and change the shared tables.

**Boot.** `init_terminal` sets `active_terminal = exec_terminal = -1`, with
every terminal IDLE. Each of the first three ticks finds the next terminal
IDLE, marks it RUN, and calls `execute("shell")` inside the tick handler. The
resulting pids 0, 1 and 2 are recognised as base shells *by their pid*
(`syscall.c:191`).

## Modules

### `Kernel.tla`: process table, scheduler, execute/halt, descriptors, terminal switch

**Constants.** `NUM_TERMINAL`, `PCB_SIZE` and `FDT_SIZE` are the three
table sizes.
- `Args` is a set of argument texts. `NoArg` is the empty argument and
  `Garbage` an uninitialised one.
- `NoCtx` marks a register pair that nobody saved.
- Two switches describe the environment, meaning when the user types:
  - `InputBeforeBoot`: commands may run before all three terminals are
    started.
  - `ForegroundExecOnly`: only the foreground terminal's shell runs commands,
    and no terminal switch falls inside an execute.

**State.**
- The `pcb` fields become functions of pid: `pcbExists`, `parent`, `fds` (the
  set of present descriptors >= 2, because 0 and 1 are always present),
  `argument`, `stack_ptr` and `prev_sp`.
- A saved register pair is abstracted to *the terminal whose kernel thread
  it belongs to*. That is exactly what decides where a later `iret` or `jmp`
  lands.
- The terminal fields are `active_process`, `tflags` (RUN), `exec_terminal`
  and `active_terminal`.
- Paging is abstracted to `pd32` (the pid mapped at 128MB) and `image[p]`
  (the terminal whose execute last loaded slot `p`).
- Each thread has a program counter `pc[t]`: `idle`, `user`, `x_create`,
  `x_load`, `h_ret`, or `lost` (resumed from an unsaved context).
- `x[t]` and `h[t]` hold the locals of an execute or halt in progress.
- `given[p]` is a history variable. It records the argument of the command
  line that created `p`.

**Actions.** Each system call is split at the points where a preemption
changes the outcome.

| Action | Code |
|---|---|
| `SchedResume`, `SchedSpawn` | `sched_handler`/`change_context`: save the outgoing context (`SavePrev`), move round robin, and either map and resume a started terminal or lazily `execute("shell")`. A failed spawn resumes `pcb[-1]`, modelled as `lost`. |
| `ExecuteFails` | `parse_cmd` stores the argument, then the lookup, type or magic check rejects the command |
| `ExecuteBegin` | `parse_cmd` and the lines up to the slot scan in `create_process` |
| `ExecNoSlot` / `ExecCreate` | the table is full and execute returns -1 / the slot is written, registered (`Register`, `IsBasePid`) and mapped |
| `ExecLoad` | `load_prog` into whatever is mapped now, then the `stack_ptr` save (`SaveCaller`) and `iret` |
| `Halt` | closing fds 3.., `active_process = parent` (`Unregister`), `end_process` (`HaltFds`) |
| `HaltReturn` | remap the parent and jump to the saved `stack_ptr` |
| `ExceptionHalt` | a fault in a user program: the `set_idt.c` handler's `halt(0)`, behind an interrupt gate, so `Halt` and `HaltReturn` happen in one step with no tick between |
| `Open`, `Close` | `add_fd`, `rem_fd` |
| `SwitchTerminal` | alt+F*n* → `switch_terminal` |

`find_base_process` is a RECURSIVE operator, translated from its loop, with
fuel to bound the walk.

**Refinement.** `ProcessStacks.tla` is what the process layer promises:
each terminal runs a stack of processes; the first tick on a terminal
starts its base shell, execute pushes a pid no terminal uses, halt pops the
top but never the base shell, and no other terminal's stack changes.
`Kernel` maps its parent links to those stacks (`Stacks`, the chain from
each terminal's `active_process` back to the parentless process, built by
the RECURSIVE `StackFrom`) and states `ImplementsProcessStacks ==
PS!Spec` for `PS == INSTANCE ProcessStacks WITH stack <- Stacks`. It is
checked in `kernel_safety`, under `ForegroundExecOnly`. Under the
background-execute bug it cannot hold, because a background command pushes
onto the foreground terminal's stack.

**Fairness.**
- The PIT fires about 100 times a second, so the tick is weakly fair.
- A thread's kernel steps are enabled only while its terminal holds the CPU,
  so they are disabled at every tick. A time slice is far longer than any of
  these steps, so they are strongly fair.
- User-level actions (commands, opens, switches) get no fairness, because the
  user may stop typing.

### `RTC.tla`: the RTC block of one terminal and the descriptors that reach it

`rtc_block` is indexed by `exec_terminal`, so blocks of different terminals
never interact and one terminal shows every behaviour. Within a terminal
only the deepest process runs, so the processes are a stack `1..depth`.
- State: `client`, `rate`, `count`, `flag` of the block; `fds[l][i]`, what
  descriptor i of level l is bound to; `pc` of the running process.
- Actions: `RtcInterrupt` (the IRQ8 handler), `Open`, `Close` (with
  `rtc_close`'s `CloseBlock`), `Write` (`rtc_write` and its rate chain,
  `RateOf`), `ReadBegin`/`ReadReturn` (`rtc_read`'s spin), `Execute`, `Halt`
  (which never closes the child's descriptors' hooks).
- `RateOf` is checked against `RefRate` (the largest power of two not above
  the requested frequency, scaled to interrupts per tick) over `RateSweep`:
  0, 2^31-1 and every 2^k-1, 2^k, 2^k+1 for k = 1..11.
- Fairness: the RTC interrupt is periodic (weak fairness), and a spinning
  `rtc_read` runs whenever its terminal has the CPU (weak fairness; the
  other terminals are not in this model).

### `Terminal.tla`: keyboard, line buffers, `terminal_read`, the vidmap page

- State: `buf[t]` and `enter_flag[t]` of `tmnl_block`, `rpc[t]` (a thread in
  or out of `terminal_read`), `exec_terminal`, `active_terminal`, the
  keyboard's `alt_flag`, `ctrl_flag`, `shift_count`, the keys held, and
  `vmap` (what `page_table_2[0]` maps: `SCREEN` = -1 as in
  `remap_vidmem(-1)`, or terminal t's private page).
- Keyboard actions, one scancode each (the IRQ1 gate is an interrupt gate):
  `Modifier` (`ShiftPress`, `ShiftRelease`, `FlagKey`), `TypeChar`,
  `Backspace`, `Enter` (no bound check; at a full line it overwrites
  `buffer_size`), `SwitchTerminal` (alt+F1..F3, `save_terminal` and
  `restore_terminal` abstracted to "the foreground's text is on the screen").
- `Tick` is `sched_handler`/`change_context`: `remap_vidmem` for the next
  terminal, then the CPU moves. `Vidmap` is the `vidmap` system call, which
  always maps the screen. `ReadBegin`/`ReadReturn` are `terminal_read`.
- Characters are abstracted to one value; the 128-byte line is scaled to
  `BUF_SIZE` = 3, which keeps full lines, the Enter after one and the
  overrun a few keys away. `OVERRUN_LEN` = 1 stands for the length
  `'\n' + 1` the overrun leaves. `buf` is the line up to `buffer_size`;
  the bytes the overrun leaves past it are not tracked, since
  `terminal_read` copies `nbytes` bytes whatever `buffer_size` is.
- `vmap` is checked by no pass property. What the code does with it is a
  bug (see "Not modelled yet"), and a property that holds whatever the
  code does would say nothing.
- Fairness: the tick weakly; a waiting reader's loop strongly, since it is
  enabled only while its terminal holds the CPU.

### `FileSystem.tla`: descriptors of one process on the read-only image

- State: `fds` (kind, inode, position of each descriptor), and the history
  variables `got` (bytes read through a descriptor since it was opened)
  and `listed` (names a directory descriptor returned).
- `ReadData` with the RECURSIVE `ReadLoop` translates `read_data`'s loop
  (EOF test, block crossing with `block_off = -i`); a byte is abstracted to
  its location `<<block, offset>>`, so a byte from the wrong block differs.
- Actions: `Open` (`read_dentry_by_name` and `add_fd`), `Close`, `FileRead`
  (`file_read` adds `read_data`'s result, -1 included, to the position),
  `DirRead` (`dir_read` with `read_dentry_by_index`, whose -1 is the empty
  set: past the end returns 0, at the end it resets).
- The image (`MCFileSystem.tla`): 3-byte blocks, 3 block slots per inode,
  files of 7, 3 and 0 bytes whose blocks are out of order, a directory of
  four entries, and counts -1, 0, 1, 2, 4, so reads cross blocks, hit EOF
  and ask for nothing or less than nothing. `FDT_SIZE = 5` there: three
  descriptors, so one file can be read through two at once beside a
  directory descriptor.

## Runs

The Kernel runs use 3 terminals, 4 pcb slots (the code has 6) and `FDT_SIZE = 3`
(one optional descriptor, fd 2). Four slots are enough for every terminal to
have its shell plus one child, so the table can be full. Three terminals
give the round robin its real period.

| Run | Expect | What it shows |
|---|---|---|
| `kernel_safety` (`MCKernel.cfg`) | pass, about 630k states | Under `ForegroundExecOnly` and no early input, the following all hold: contexts are saved before they are resumed (`ContextIntegrity`), the process trees of the terminals stay disjoint (`TreesDisjoint`), every parentless process is its terminal's root (`BaseShellsAreTerminalRoots`), every process runs the image its own terminal loaded (`ImageOwned`), halt returns to an execute of its own thread (`HaltResumesOwnExecute`), and the kernel implements `ProcessStacks` (`ImplementsProcessStacks`). |
| `kernel_liveness` (`MCKernelLive.cfg`) | pass | `SyscallsReturn`: every started execute or halt eventually gets back to user mode. Argument texts are dropped here (`Args = {}`) to keep the temporal check small. |
| `background_execute` | violation | A background shell's command (or a switch during an execute) registers the child in the foreground terminal's block. The scheduler then resumes a context nobody saved. |
| `early_command` | violation | A command typed before terminals 1 and 2 start gets pid 1 and becomes a base shell. |
| `halt_fds` | violation | halt clears the parent's descriptors (`HaltKeepsParentFds`, an action property). |
| `halt_stack` | violation | A pid freed by halt is reused while the halting thread is still on its kernel stack. |
| `getargs_stale` | violation | getargs returns the argument of an earlier command line. |
| `rtc_client_read` (`MCRTC.cfg`) | pass, about 590k states | `rtc_write`'s rate chain matches its reference on the sweep (`RateOfMatchesReference`), and the block's own client always gets its `rtc_read` back under a fair interrupt (`ClientReadReturns`), through opens, closes, executes and halts two levels deep. |
| `rtc_shared_close` | violation | Closing one RTC descriptor resets the whole block, so an `rtc_read` on another (or in the parent) never returns (`RtcReadReturns`). |
| `line_input` (`MCTerminal.cfg`) | pass, about 226k states | On two terminals, with switches, modifiers, vidmap calls and typing at any time: a `terminal_read` waiting on its terminal always returns once an Enter was typed there, wherever the foreground has moved since (`LineReachesReader`). |
| `line_overrun` | violation | A full line and two Enters store past `tmnl_block[].buffer` (`NoBufferOverrun`). |
| `file_cursors` (`MCFileSystem.cfg`) | pass, about 36k states, three descriptors | Successive `file_read`s return exactly the file's bytes in order (`FileReadsSequential`, against `FileBytes`), and a directory read to its end has returned every entry once (`DirListComplete`). |


The bounds of the other runs are in their module sections. The Terminal
runs use 2 terminals: a reader waiting on a background terminal while the
other is in the foreground is the case `LineReachesReader` is about, and a
third terminal changes no step of the handler or of `terminal_read`. Every property of the passing runs has a mutant in
its module. Each
mutant carries a `Mutation:` comment and sits just above the definition it
replaces. Each mutant is a
plausible slip in the code that TLC catches:
- a scan without its -1;
- a dropped context save;
- halt unregistering from the foreground block;
- `pid <= 3` as the base test;
- a missing remap on resume;
- a missing `stack_ptr` save;
- a spin instead of return -1.

## Not modelled yet

1. **load_prog failure** after registration (`syscall.c:213`). `load_prog`
   returns at most 0 only for an empty file. An empty file passes the magic
   check only if the uninitialised stack bytes of `exec_buffer` hold the
   magic number. File contents are not in `Kernel`, so this path has no
   action.
2. **A fault in a base shell.** `halt(0)` returns 0, and the handler (in the
   IDT with no wrapper) returns with `ret` onto the exception frame. What
   follows is up to the CPU, so `ExceptionHalt` requires a parent.
3. **`end_vidmap`** is never called, though spec.md says teardown calls it.
   It is listed as a hazard, because neither model keeps a mapping per
   process.
4. **`print_tmnl`** is never called. `terminal_write` prints with `printf`
   from `lib.c`, and `lib.c` is not in the repository. So where a background
   program's output lands cannot be translated. This is listed as a hazard
   (`terminal.c:274`). The copies in `save/restore_terminal` are abstracted
   to which page holds whose text.
5. **Run budget.** The project keeps to twelve runs. The stale RTC flag
   (`rtc_handler.c:126`) and backspace after Enter (`keyboard_handler.c:225`)
   would each need a violation run of their own. So would the stale vidmap
   page after a switch (`terminal.c:207`) and `vidmap` on a background
   terminal (`paging.c:143`): `Terminal` models both, and a property that a
   program's vidmap page holds its own terminal's text fails in two steps.
   They are listed as hazards with notes.

Out of scope: PIC programming (every handler sends its EOI first), IDT and PIT
programming, printing, the filesystem image
layout, and `tests.c`.
