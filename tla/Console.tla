------------------------------ MODULE Console ------------------------------
(***************************************************************************)
(* The console of kernel/console.c: a window into display memory.  A cell  *)
(* is a character with its style, addresses count cells from CGA_MEM_BASE. *)
(* console_write runs with interrupts off; a step is one character of it   *)
(* and the setting of the cursor that ends the call.                       *)
(***************************************************************************)
EXTENDS Naturals, Sequences

CONSTANTS Char, ERASE, SCR_WIDTH, SCR_HEIGHT, CGA_MEM_SIZE,
          MaxLines      \* bound: line feeds since the screen was cleared

VARIABLES mem,                  \* display memory
          c,                    \* console_t: screen_base, cursor_addr, cursor_x, cursor_y
          crt                   \* the CRT's registers: start, cursor

vars == <<mem, c, crt>>

SCR_SIZE == SCR_WIDTH * SCR_HEIGHT
Home == [screen_base |-> 0, cursor_addr |-> 0, cursor_x |-> 0, cursor_y |-> 0]

Init ==
    /\ mem = [a \in 0..(CGA_MEM_SIZE - 1) |-> ERASE]
    /\ c = Home
    /\ crt = [start |-> 0, cursor |-> 0]

(* The rows of the screen at the start of memory. *)
CopiedToStart(m, base) == [a \in DOMAIN m |-> IF a < SCR_SIZE THEN m[base + a] ELSE m[a]]

(* The second half of scroll_up: the next row is cleared, the screen moves *)
(* down.                                                                   *)
MovedDown(s) ==
    LET below == s.c.screen_base + SCR_SIZE
    IN  [mem |-> [a \in DOMAIN s.mem |-> IF a \in below..(below + SCR_WIDTH - 1) THEN ERASE ELSE s.mem[a]],
         c |-> [s.c EXCEPT !.screen_base = @ + SCR_WIDTH]]

(* Mutant of scroll_up: the cursor is not moved with the rows. *)
scroll_upCursor(s) ==
    LET base == s.c.screen_base
    IN  IF base + SCR_SIZE + SCR_WIDTH < CGA_MEM_SIZE
        THEN MovedDown([mem |-> CopiedToStart(s.mem, base), c |-> [s.c EXCEPT !.screen_base = 0]])
        ELSE MovedDown(s)

(* The rows are copied to the start of memory while there is room for one  *)
(* more row behind them (and not when there is none left).                 *)
scroll_up(s) ==
    LET base == s.c.screen_base
    IN  IF base + SCR_SIZE + SCR_WIDTH < CGA_MEM_SIZE
        THEN MovedDown([mem |-> CopiedToStart(s.mem, base),
                        c |-> [s.c EXCEPT !.cursor_addr = @ - base, !.screen_base = 0]])
        ELSE MovedDown(s)

(* cursor_y is not taken back when the screen scrolls. *)
command_lf(s) ==
    LET u == IF s.c.cursor_y + 1 >= SCR_HEIGHT THEN scroll_up(s) ELSE s
    IN  [u EXCEPT !.c.cursor_y = @ + 1, !.c.cursor_addr = @ + SCR_WIDTH]

command_cr(s) == [s EXCEPT !.c.cursor_addr = @ - s.c.cursor_x, !.c.cursor_x = 0]

command_bs(s) ==
    IF s.c.cursor_x = 0 THEN s
    ELSE [s EXCEPT !.c.cursor_x = @ - 1, !.c.cursor_addr = @ - 1, !.mem[s.c.cursor_addr - 1] = ERASE]

command_del(s) == [s EXCEPT !.mem[s.c.cursor_addr] = ERASE]

(* A visible character, and the next line at the end of the row. *)
put(s, ch) ==
    LET p == [s EXCEPT !.mem[s.c.cursor_addr] = ch, !.c.cursor_addr = @ + 1, !.c.cursor_x = @ + 1]
    IN  IF p.c.cursor_x >= SCR_WIDTH THEN command_cr(command_lf(p)) ELSE p

State == [mem |-> mem, c |-> c]

(* Mutant of Becomes: the cursor is set before the screen moves. *)
BecomesLate(s) == mem' = s.mem /\ c' = s.c /\ crt' = [start |-> s.c.screen_base, cursor |-> c.cursor_addr]

(* What a call leaves; set_screen_base and set_cursor_addr. *)
Becomes(s) ==
    /\ s.c.cursor_y <= MaxLines
    /\ mem' = s.mem /\ c' = s.c
    /\ crt' = [start |-> s.c.screen_base, cursor |-> s.c.cursor_addr]

console_write(ch) ==
    \/ ch = "LF" /\ Becomes(command_cr(command_lf(State)))
    \/ ch = "FF" /\ Becomes(command_lf(State))
    \/ ch = "CR" /\ Becomes(command_cr(State))
    \/ ch = "BS" /\ Becomes(command_bs(State))
    \/ ch = "DEL" /\ Becomes(command_del(State))
    \/ ch \in Char /\ Becomes(put(State, ch))

console_clear == mem' = [a \in DOMAIN mem |-> ERASE] /\ c' = Home /\ crt' = [start |-> 0, cursor |-> 0]

Next == console_clear \/ \E ch \in {"LF", "FF", "CR", "BS", "DEL"} \cup Char : console_write(ch)

Spec == Init /\ [][Next]_vars

-----------------------------------------------------------------------------
(* The screen and the cursor stay inside display memory, and what the CRT  *)
(* shows is the console's screen and cursor (set_screen_base,              *)
(* set_cursor_addr).                                                       *)
Shown ==
    /\ c.screen_base + SCR_SIZE <= CGA_MEM_SIZE
    /\ c.cursor_addr \in c.screen_base..(c.screen_base + SCR_SIZE - 1)
    /\ (c.cursor_addr - c.screen_base) % SCR_WIDTH = c.cursor_x
    /\ crt = [start |-> c.screen_base, cursor |-> c.cursor_addr]

(* On the screen the console is a terminal, however often it scrolls and   *)
(* its memory wraps, although cursor_y only grows.                         *)
Screen == INSTANCE Terminal WITH
    Blank <- ERASE, Width <- SCR_WIDTH, Height <- SCR_HEIGHT,
    rows <- [r \in 1..SCR_HEIGHT |-> [x \in 1..SCR_WIDTH |-> mem[c.screen_base + (r - 1) * SCR_WIDTH + x - 1]]],
    row <- (c.cursor_addr - c.screen_base) \div SCR_WIDTH,
    col <- (c.cursor_addr - c.screen_base) % SCR_WIDTH
IsTerminal == Screen!Spec
=============================================================================
