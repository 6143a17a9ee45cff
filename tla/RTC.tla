-------------------------------- MODULE RTC --------------------------------
(***************************************************************************)
(* The RTC backend (rtc_handler.c) together with the part of the          *)
(* descriptor layer (PCB.c add_fd/rem_fd, syscall.c open/close/read/write  *)
(* and halt) that reaches it, for the processes of ONE terminal.          *)
(*                                                                         *)
(* rtc_block is indexed by exec_terminal, so each terminal has one block  *)
(* that only that terminal's thread and the RTC interrupt touch; the      *)
(* blocks of different terminals never interact, and one terminal shows   *)
(* every behaviour.  Within a terminal only the deepest process runs      *)
(* (execute does not return until the child halts), so the processes are  *)
(* a stack 1..depth and the one at depth acts.  A pid is abstracted to    *)
(* its level in the stack.                                                 *)
(*                                                                         *)
(* The RTC runs at 1024 Hz (RATE_MAX = 6); rate is the number of          *)
(* interrupts per virtual tick, count the interrupts seen since the last. *)
(***************************************************************************)
EXTENDS Integers, FiniteSets, FiniteSetsExt

CONSTANTS
  MAX_DEPTH,   \* processes that can be stacked on the terminal
  FDT_SIZE,    \* descriptor table size; 0 and 1 are the terminal
  Freqs,       \* frequencies a user program may pass to write
  RateSweep    \* frequencies rtc_write's chain is compared on

ASSUME MAX_DEPTH \in Nat \ {0} /\ FDT_SIZE \in Nat /\ FDT_SIZE >= 3
ASSUME Freqs \subseteq Nat /\ RateSweep \subseteq Nat

NONE == -1
Levels == 1..MAX_DEPTH
FdIdx == 2..FDT_SIZE-1
Kinds == {"none", "rtc", "file"}     \* what a descriptor is bound to
HZ_2 == 2                            \* the frequency rtc_open writes

VARIABLES
  depth,    \* the running process's level; 1 is the base shell
  fds,      \* fds[l][i]: the backend descriptor i of level l is bound to
  client,   \* rtc_block.client
  rate,     \* rtc_block.rate
  count,    \* rtc_block.count
  flag,     \* rtc_block.flags: "WAIT" or "TICK"
  pc,       \* "user", or "rtc_wait" inside rtc_read's loop
  asked     \* history: the frequency of the last accepted rtc_write

vars == <<depth, fds, client, rate, count, flag, pc, asked>>

NoFds == [i \in FdIdx |-> "none"]

-----------------------------------------------------------------------------
(* rtc_write's frequency-to-rate chain and a reference for it.             *)

\* Mutation: the chain compares with > instead of >=.
RateOfStrict(freq) ==
  CASE freq > 1024 -> 1  [] freq > 512 -> 2   [] freq > 256 -> 4
    [] freq > 128 -> 8   [] freq > 64 -> 16   [] freq > 32 -> 32
    [] freq > 16 -> 64   [] freq > 8 -> 128   [] freq > 4 -> 256
    [] freq > 2 -> 512   [] OTHER -> NONE

\* rtc_write lines 101-112: the rate for a requested frequency, -1 below 2.
RateOf(freq) ==
  CASE freq >= 1024 -> 1  [] freq >= 512 -> 2   [] freq >= 256 -> 4
    [] freq >= 128 -> 8   [] freq >= 64 -> 16   [] freq >= 32 -> 32
    [] freq >= 16 -> 64   [] freq >= 8 -> 128   [] freq >= 4 -> 256
    [] freq >= 2 -> 512   [] OTHER -> NONE

\* Reference: the largest power of two not above freq, capped at 1024,
\* divides the 1024 Hz interrupt rate.
RECURSIVE Pow2Floor(_)
Pow2Floor(n) == IF n < 2 THEN 1 ELSE 2 * Pow2Floor(n \div 2)

RefRate(freq) ==
  IF freq < 2 THEN NONE ELSE 1024 \div Pow2Floor(IF freq > 1024 THEN 1024 ELSE freq)

-----------------------------------------------------------------------------
Init ==                                            \* init_rtc, init_pcb
  /\ depth = 1
  /\ fds = [l \in Levels |-> NoFds]
  /\ client = NONE
  /\ rate = NONE
  /\ count = 0
  /\ flag = "WAIT"
  /\ pc = "user"
  /\ asked = NONE

\* The running process is in user mode.
Running == pc = "user"

\* rtc_close lines 140-147: the block is reset, whoever opened it.
CloseBlock ==
  /\ client' = NONE
  /\ rate' = NONE
  /\ count' = 0
  /\ flag' = "WAIT"

\* Mutation: the interrupt does not advance the count.
RtcInterruptNoCount ==
  /\ client # NONE
  /\ IF count >= rate
     THEN flag' = "TICK" /\ count' = 0
     ELSE UNCHANGED <<flag, count>>
  /\ UNCHANGED <<depth, fds, client, rate, pc, asked>>

\* rtc_handler lines 54-78: with a client, count the interrupt and raise
\* the flag once count reaches rate.  Without one the interrupt changes
\* nothing.
RtcInterrupt ==
  \/ /\ client # NONE
     /\ IF count + 1 >= rate
        THEN flag' = "TICK" /\ count' = 0
        ELSE count' = count + 1 /\ UNCHANGED flag
     /\ UNCHANGED <<depth, fds, client, rate, pc, asked>>
  \/ /\ client = NONE
     /\ UNCHANGED vars

\* open lines 292-310 with add_fd (PCB.c 143-164): the lowest absent
\* descriptor >= 2 is bound to the backend; rtc_open (124-133) makes the
\* caller the client and writes 2 Hz, leaving count and flags as they are.
Open(kind) ==
  LET free == {i \in FdIdx : fds[depth][i] = "none"} IN
  /\ Running
  /\ free # {}
  /\ fds' = [fds EXCEPT ![depth][Min(free)] = kind]
  /\ IF kind = "rtc"
     THEN /\ client' = depth
          /\ rate' = RateOf(HZ_2)
          /\ asked' = HZ_2
     ELSE UNCHANGED <<client, rate, asked>>
  /\ UNCHANGED <<depth, count, flag, pc>>

\* close lines 318-326: rem_fd, then the backend's close hook.
Close(i) ==
  /\ Running
  /\ fds[depth][i] # "none"
  /\ fds' = [fds EXCEPT ![depth][i] = "none"]
  /\ IF fds[depth][i] = "rtc" THEN CloseBlock ELSE UNCHANGED <<client, rate, count, flag>>
  /\ UNCHANGED <<depth, pc, asked>>

\* write lines 272-283 into rtc_write: a frequency below 2 is refused,
\* any other sets the terminal's rate (count is left alone).
Write(i, f) ==
  /\ Running
  /\ fds[depth][i] = "rtc"
  /\ rate' = IF RateOf(f) = NONE THEN rate ELSE RateOf(f)
  /\ asked' = IF RateOf(f) = NONE THEN asked ELSE f
  /\ UNCHANGED <<depth, fds, client, count, flag, pc>>

\* read lines 253-264 into rtc_read: spin while the flag is WAIT.
ReadBegin(i) ==
  /\ Running
  /\ fds[depth][i] = "rtc"
  /\ pc' = "rtc_wait"
  /\ UNCHANGED <<depth, fds, client, rate, count, flag, asked>>

\* rtc_read lines 87-89: the loop sees TICK, resets it and returns 0.
ReadReturn ==
  /\ pc = "rtc_wait"
  /\ flag = "TICK"
  /\ flag' = "WAIT"
  /\ pc' = "user"
  /\ UNCHANGED <<depth, fds, client, rate, count, asked>>

\* execute: create_process gives the child descriptors 0/1 only.
Execute ==
  /\ Running
  /\ depth < MAX_DEPTH
  /\ depth' = depth + 1
  /\ fds' = [fds EXCEPT ![depth + 1] = NoFds]
  /\ UNCHANGED <<client, rate, count, flag, pc, asked>>

\* Mutation: halt's base-shell check is left out.
HasParentUnchecked == TRUE

\* halt lines 93-97: a base shell (parent -1) is not halted.
HasParent == depth > 1

\* halt lines 99-111: close(i) for i >= 3 runs the hooks of the child's
\* descriptors; then active_process is the parent, so end_process's
\* rem_fd(2..) unbinds the parent's descriptors with no hook.  The
\* child's fd 2 stays bound in its freed slot; create_process clears it
\* before that slot is used again.
Halt ==
  LET hooked == {i \in FdIdx : i >= 3 /\ fds[depth][i] = "rtc"} IN
  /\ Running
  /\ HasParent
  /\ depth' = depth - 1
  /\ fds' = [fds EXCEPT ![depth - 1] = NoFds,
                        ![depth] = [i \in FdIdx |-> IF i >= 3 THEN "none" ELSE @[i]]]
  /\ IF hooked # {} THEN CloseBlock ELSE UNCHANGED <<client, rate, count, flag>>
  /\ UNCHANGED <<pc, asked>>

Next ==
  \/ RtcInterrupt
  \/ \E k \in {"rtc", "file"} : Open(k)
  \/ \E i \in FdIdx : Close(i) \/ ReadBegin(i) \/ \E f \in Freqs : Write(i, f)
  \/ ReadReturn
  \/ Execute
  \/ Halt

\* The RTC interrupts at 1024 Hz; a reader's loop runs whenever its
\* terminal holds the CPU, which the round robin gives it every few ticks,
\* and nothing but the reader resets the flag.
Fairness == WF_vars(RtcInterrupt) /\ WF_vars(ReadReturn)

Spec == Init /\ [][Next]_vars /\ Fairness

-----------------------------------------------------------------------------
TypeOK ==
  /\ depth \in Levels
  /\ fds \in [Levels -> [FdIdx -> Kinds]]
  /\ client \in Levels \cup {NONE}
  /\ rate \in {NONE} \cup {RateOf(f) : f \in Freqs \cup {HZ_2}}
  /\ count \in Nat
  /\ flag \in {"WAIT", "TICK"}
  /\ pc \in {"user", "rtc_wait"}
  /\ asked \in Freqs \cup {HZ_2, NONE}

\* rtc_write's if-chain: it agrees with the reference on every frequency
\* of RateSweep (an unchecked uint32 from the program's buffer), and
\* whenever the block has a rate, it is the rate of the largest power of
\* two not above the frequency last accepted, capped at 1024 Hz; a
\* frequency below 2 Hz is refused and leaves the rate as it was.
RateOfMatchesReference ==
  /\ \A f \in RateSweep : RateOf(f) = RefRate(f)
  /\ rate # NONE => rate = RefRate(asked)

\* rtc_read: a read by the block's own client always returns, because the
\* interrupt keeps counting up to its rate and raises the flag.
ClientReadReturns ==
  \A l \in Levels :
    (pc = "rtc_wait" /\ depth = l /\ client = l) ~> pc = "user"

\* rtc_read on any open RTC descriptor returns: the program holding it is
\* not left spinning forever.
RtcReadReturns == pc = "rtc_wait" ~> pc = "user"

=============================================================================
