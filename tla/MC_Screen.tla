------------------------------ MODULE MC_Screen -----------------------------
(* Screen for TLC: two terminals, one printable character and one halt     *)
(* that touches the screen.  screen_core uses a one-row screen of two      *)
(* columns with two scrollback pages: with a halt, a 2 x 2 screen has more *)
(* than 5 M states.  screen_output uses 2 x 2 with one scrollback page,   *)
(* since putc_to_backing's overrun needs a row above the last.             *)
EXTENDS Screen, TLC

CONSTANTS t1, t2

MC_NUM_COLS == 2
MC_NUM_ROWS == 1
MC_MAX_SCROLLBACK_OFFSET == 2
MC_TERMS == {t1, t2}
MC_CHARS == {"a"}
MC_MAX_HALTS == 1

MC_OUT_NUM_ROWS == 2
MC_OUT_MAX_SCROLLBACK_OFFSET == 1

\* The terminals are interchangeable: the code treats terminals[i] alike.
Symmetry == Permutations(MC_TERMS)

=============================================================================
