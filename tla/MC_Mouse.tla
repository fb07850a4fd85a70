------------------------------ MODULE MC_Mouse ------------------------------
(* Constants for checking Mouse with TLC.                                  *)
EXTENDS Mouse

\* Two columns of two mouse units and two rows of one, the lower one the
\* status row: enough for the cursor to leave a cell and come back.
MC_NUM_COLS   == 2
MC_VIDEO_ROWS == 2
MC_X_SCALE    == 2
MC_Y_SCALE    == 1
\* A left move (byte 0xFF, which fails the flags test), none, and a right
\* move of 9 (byte 0x09, which passes it with the left-button bit set).
MC_DX == {-1, 0, 9}
MC_DY == {0, 1}
MC_MAX_PACKETS == 2
====
