------------------------------ MODULE Terminal ------------------------------
(***************************************************************************)
(* Keyboard input: the IRQ1 handler (keyboard_handler.c) with its         *)
(* modifier flags, the per-terminal line buffers and enter flags in       *)
(* tmnl_block (terminal.c), switch_terminal, and terminal_read as run by  *)
(* each terminal's thread.  The state starts after boot, with every       *)
(* terminal's shell running and terminal 0 in the foreground.             *)
(*                                                                         *)
(* The keyboard handler is behind an interrupt gate, so one scancode is   *)
(* one atomic step; its temporary exec_terminal = active_terminal swap is *)
(* undone before it returns and is invisible to everything else.  A       *)
(* terminal's thread spins in terminal_read only while its terminal holds *)
(* the CPU.                                                                *)
(*                                                                         *)
(* Characters are abstracted to "c" (shift and caps only change which     *)
(* character) and the Enter byte to "nl".  The 128-byte buffer is scaled  *)
(* to BUF_SIZE; OVERRUN_LEN is the length the line is left with when the  *)
(* handler's out-of-range Enter lands in buffer_size (the byte after the  *)
(* array): '\n' + 1 = 11 in the real build, inside the buffer.            *)
(*                                                                         *)
(* Video: the user vidmap page (page_table_2[0]) maps either the live      *)
(* screen (physical VIDEO) or a terminal's private page (VM_ADDR+t+1).     *)
(* save_terminal/restore_terminal keep the foreground's text on the        *)
(* screen and a background terminal's in its private page, so a mapping   *)
(* is abstracted to whose text the mapped page holds.                       *)
(***************************************************************************)
EXTENDS Integers, Sequences, SequencesExt

CONSTANTS
  NUM_TERMINAL,
  BUF_SIZE,      \* the line buffer (BUF_SIZE = 128 in the code)
  OVERRUN_LEN,   \* buffer_size after buffer[BUF_SIZE] = '\n'; buffer_size++
  MAX_SHIFT      \* bound on shift_count for the model

ASSUME NUM_TERMINAL \in Nat \ {0} /\ BUF_SIZE \in Nat /\ BUF_SIZE >= 2
ASSUME OVERRUN_LEN \in 1..BUF_SIZE-2
ASSUME MAX_SHIFT \in Nat

Terminals == 0..NUM_TERMINAL-1
ShiftKeys == {"lshift", "rshift"}
Held == ShiftKeys \cup {"alt", "ctrl"}

VARIABLES
  buf,             \* buf[t]: tmnl_block[t].buffer[0..buffer_size-1]
  enter_flag,      \* enter_flag[t]: TRUE for KB_PRESSED
  rpc,             \* rpc[t]: "user", or "wait" inside terminal_read
  exec_terminal,
  active_terminal,
  alt_flag, ctrl_flag, shift_count,
  held,            \* environment: modifier keys physically held down
  oob,             \* history: the handler wrote outside buffer[]
  vmap             \* page_table_2[0]: SCREEN or the terminal whose private page

vars == <<buf, enter_flag, rpc, exec_terminal, active_terminal, alt_flag,
          ctrl_flag, shift_count, held, oob, vmap>>

kbVars == <<alt_flag, ctrl_flag, shift_count, held>>

SCREEN == -1   \* remap_vidmem(-1): VM_ADDR-1+1 is physical VIDEO, the screen

\* change_context lines 64-69 with remap_vidmem (paging.c 159-169): the
\* foreground terminal's program gets the screen (VM_ADDR-1+1), any
\* other its private page VM_ADDR+next+1.
RemapVidmem(next) == IF next = active_terminal THEN SCREEN ELSE next

-----------------------------------------------------------------------------
Init ==
  /\ buf = [t \in Terminals |-> <<>>]          \* init_terminal
  /\ enter_flag = [t \in Terminals |-> FALSE]
  /\ rpc = [t \in Terminals |-> "user"]
  /\ exec_terminal \in Terminals
  /\ active_terminal = 0
  /\ alt_flag = FALSE /\ ctrl_flag = FALSE /\ shift_count = 0
  /\ held = {}
  /\ oob = FALSE
  /\ vmap = RemapVidmem(exec_terminal)

\* The handler's early returns for modifier state: while alt or ctrl is
\* flagged, every other key is consumed by the alt+F or ctrl+L branch.
Plain == ~alt_flag /\ ~ctrl_flag

\* Modifier make and break codes (lines 102-138, 166-171); shift is
\* counted whatever else is flagged.  A make code
\* also arrives while the key is held: the keyboard repeats it.
ShiftPress(k) ==
  /\ shift_count < MAX_SHIFT
  /\ shift_count' = shift_count + 1
  /\ held' = held \cup {k}
  /\ UNCHANGED <<alt_flag, ctrl_flag>>

ShiftRelease(k) ==
  /\ k \in held
  /\ shift_count' = shift_count - 1
  /\ held' = held \ {k}
  /\ UNCHANGED <<alt_flag, ctrl_flag>>

\* Alt is tested before the alt+F branch, ctrl after it: a ctrl press
\* while alt is flagged is dropped by that branch.
FlagKey(k, on) ==
  /\ on \/ k \in held
  /\ held' = IF on THEN held \cup {k} ELSE held \ {k}
  /\ IF k = "alt" THEN alt_flag' = on /\ UNCHANGED ctrl_flag
     ELSE /\ ctrl_flag' = IF on /\ alt_flag THEN ctrl_flag ELSE on
          /\ UNCHANGED alt_flag
  /\ UNCHANGED shift_count

\* A modifier scancode: nothing but the keyboard flags change.
Modifier ==
  /\ \/ \E k \in ShiftKeys : ShiftPress(k) \/ ShiftRelease(k)
     \/ \E k \in {"alt", "ctrl"}, on \in BOOLEAN : FlagKey(k, on)
  /\ UNCHANGED <<vmap, buf, enter_flag, rpc, exec_terminal, active_terminal, oob>>

\* Lines 208-234: a printable character is stored while the line has
\* room for it and the Enter after it (buffer_size < BUF_SIZE-1).
TypeChar ==
  LET t == active_terminal IN
  /\ Plain
  /\ Len(buf[t]) < BUF_SIZE - 1
  /\ buf' = [buf EXCEPT ![t] = Append(@, "c")]
  /\ UNCHANGED <<vmap, enter_flag, rpc, exec_terminal, active_terminal, kbVars,
                 oob>>

\* Mutation: backspace without the buffer_size != 0 test; the uint8_t
\* size wraps from 0 to 255.
BackspaceUnguarded ==
  LET t == active_terminal IN
  /\ Plain
  /\ buf' = [buf EXCEPT ![t] = IF @ = <<>> THEN [i \in 1..255 |-> "c"] ELSE Front(@)]
  /\ UNCHANGED <<vmap, enter_flag, rpc, exec_terminal, active_terminal, kbVars,
                 oob>>

\* Lines 220-227: backspace blanks the last byte and shortens the line,
\* whatever that byte was.
Backspace ==
  LET t == active_terminal IN
  /\ Plain
  /\ buf[t] # <<>>
  /\ buf' = [buf EXCEPT ![t] = Front(@)]
  /\ UNCHANGED <<vmap, enter_flag, rpc, exec_terminal, active_terminal, kbVars,
                 oob>>

\* Lines 211-219: Enter stores '\n' at buffer[buffer_size] with no bound
\* check and raises the terminal's enter flag.  At buffer_size = BUF_SIZE
\* the store hits buffer_size itself, which the increment then leaves at
\* OVERRUN_LEN.  buf is buffer[0..buffer_size-1], where the next keys
\* land; the bytes from OVERRUN_LEN on stay in the array (terminal_read
\* copies nbytes of them) but are no longer part of the line.
Enter ==
  LET t == active_terminal IN
  /\ Plain
  /\ IF Len(buf[t]) < BUF_SIZE
     THEN buf' = [buf EXCEPT ![t] = Append(@, "nl")] /\ UNCHANGED oob
     ELSE buf' = [buf EXCEPT ![t] = SubSeq(@, 1, OVERRUN_LEN)] /\ oob' = TRUE
  /\ enter_flag' = [enter_flag EXCEPT ![t] = TRUE]
  /\ UNCHANGED <<vmap, rpc, exec_terminal, active_terminal, kbVars>>

\* Lines 141-163 with switch_terminal (terminal.c 198-210): alt+F(u+1)
\* makes u the foreground (every terminal is RUN after boot), whether or
\* not ctrl is flagged; any other key under alt is dropped.
\* save_terminal and restore_terminal (165-191) move the texts between
\* the screen and the private pages; page_table_2 is not touched.
SwitchTerminal(u) ==
  /\ alt_flag
  /\ active_terminal' = u
  /\ UNCHANGED <<vmap, buf, enter_flag, rpc, exec_terminal, kbVars, oob>>

\* Timer tick, sched_handler/change_context: remap the vidmap page for
\* the next terminal, whose thread then gets the CPU.
Tick ==
  LET next == (exec_terminal + 1) % NUM_TERMINAL IN
  /\ vmap' = RemapVidmem(next)
  /\ exec_terminal' = next
  /\ UNCHANGED <<buf, enter_flag, rpc, active_terminal, kbVars, oob>>

\* vidmap_helper: page_table_2[0] = VIDEO, the screen, whoever calls.
vidmap_helper == SCREEN

\* vidmap (syscall.c 365-376) with vidmap_helper (paging.c 140-153): the
\* running program gets the page at VIDM_ADDR mapped to the screen,
\* whichever terminal it runs on.  An out-pointer outside the program's
\* 4MB page returns -1 and changes nothing.
Vidmap ==
  /\ vmap' = vidmap_helper
  /\ UNCHANGED <<buf, enter_flag, rpc, exec_terminal, active_terminal, kbVars,
                 oob>>

\* terminal_read lines 237-245: the thread of t enters the wait loop.
ReadBegin(t) ==
  /\ exec_terminal = t
  /\ rpc[t] = "user"
  /\ rpc' = [rpc EXCEPT ![t] = "wait"]
  /\ UNCHANGED <<vmap, buf, enter_flag, exec_terminal, active_terminal, kbVars,
                 oob>>

\* Mutation: the wait loop polls the foreground terminal's enter flag.
ReadReturnForeground(t) ==
  /\ exec_terminal = t
  /\ rpc[t] = "wait"
  /\ enter_flag[active_terminal]
  /\ enter_flag' = [enter_flag EXCEPT ![active_terminal] = FALSE]
  /\ buf' = [buf EXCEPT ![active_terminal] = <<>>]
  /\ rpc' = [rpc EXCEPT ![t] = "user"]
  /\ UNCHANGED <<vmap, exec_terminal, active_terminal, kbVars, oob>>

\* terminal_read lines 247-262: once the enter flag of exec_terminal is
\* up, reset it, copy the buffer out and clear_buffer (lines 53-60), all
\* with interrupts off; return nbytes.
ReadReturn(t) ==
  /\ exec_terminal = t
  /\ rpc[t] = "wait"
  /\ enter_flag[t]
  /\ enter_flag' = [enter_flag EXCEPT ![t] = FALSE]
  /\ buf' = [buf EXCEPT ![t] = <<>>]
  /\ rpc' = [rpc EXCEPT ![t] = "user"]
  /\ UNCHANGED <<vmap, exec_terminal, active_terminal, kbVars, oob>>

Next ==
  \/ Modifier
  \/ TypeChar
  \/ Backspace
  \/ Enter
  \/ \E u \in Terminals : SwitchTerminal(u)
  \/ Tick
  \/ Vidmap
  \/ \E t \in Terminals : ReadBegin(t) \/ ReadReturn(t)

\* The PIT is periodic; a waiting thread's loop runs whenever its terminal
\* holds the CPU, which is not continuous, hence strong fairness.
Fairness ==
  /\ WF_vars(Tick)
  /\ \A t \in Terminals : SF_vars(ReadReturn(t))

Spec == Init /\ [][Next]_vars /\ Fairness

-----------------------------------------------------------------------------
TypeOK ==
  /\ buf \in [Terminals -> Seq({"c", "nl"})]
  /\ \A t \in Terminals : Len(buf[t]) <= BUF_SIZE
  /\ enter_flag \in [Terminals -> BOOLEAN]
  /\ rpc \in [Terminals -> {"user", "wait"}]
  /\ exec_terminal \in Terminals /\ active_terminal \in Terminals
  /\ alt_flag \in BOOLEAN /\ ctrl_flag \in BOOLEAN
  /\ shift_count \in 0..MAX_SHIFT
  /\ held \subseteq Held
  /\ vmap \in Terminals \cup {SCREEN}

\* terminal_read: a thread waiting for a line on its terminal gets it
\* once Enter has been typed there, wherever the foreground has moved
\* since and whichever terminal holds the CPU at that moment.
LineReachesReader ==
  \A t \in Terminals : (rpc[t] = "wait" /\ enter_flag[t]) ~> rpc[t] = "user"

\* The handler only ever stores inside tmnl_block[].buffer.
NoBufferOverrun == ~oob

=============================================================================
