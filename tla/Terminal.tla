------------------------------ MODULE Terminal ------------------------------
(***************************************************************************)
(* What the console promises: a screen of rows that characters fill from   *)
(* the cursor on; behind the last row it scrolls.                          *)
(***************************************************************************)
EXTENDS Naturals, Sequences

CONSTANTS Char, Blank, Width, Height

VARIABLES rows, row, col    \* rows[r][c]; the cursor, from 0

Clear ==
    /\ rows = [r \in 1..Height |-> [c \in 1..Width |-> Blank]]
    /\ row = 0 /\ col = 0

(* The row below the cursor, in column c, with the screen s. *)
Down(s, c) ==
    /\ col' = c
    /\ IF row + 1 < Height
       THEN rows' = s /\ row' = row + 1
       ELSE rows' = Append(Tail(s), [x \in 1..Width |-> Blank]) /\ row' = row

Put(ch) ==
    LET s == [rows EXCEPT ![row + 1][col + 1] = ch]
    IN  IF col + 1 = Width THEN Down(s, 0) ELSE rows' = s /\ col' = col + 1 /\ row' = row

Return == col' = 0 /\ UNCHANGED <<rows, row>>

Backspace ==
    /\ col > 0 /\ col' = col - 1 /\ row' = row
    /\ rows' = [rows EXCEPT ![row + 1][col] = Blank]

Delete == rows' = [rows EXCEPT ![row + 1][col + 1] = Blank] /\ UNCHANGED <<row, col>>

Next == Clear' \/ Down(rows, 0) \/ Down(rows, col) \/ Return \/ Backspace \/ Delete \/ \E ch \in Char : Put(ch)

Spec == Clear /\ [][Next]_<<rows, row, col>>
=============================================================================
