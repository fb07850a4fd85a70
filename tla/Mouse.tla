------------------------------- MODULE Mouse --------------------------------
(***************************************************************************)
(* The PS/2 mouse driver (mouse.c) with the screen attributes it hides     *)
(* (lib.c set_char_attrib and its observers, keyboard_write's              *)
(* hide_cursor / putc / show_cursor).                                      *)
(*                                                                         *)
(* The mouse sends 3-byte packets (flags, dx, dy) one byte at a time       *)
(* through the 8042's one-byte output register; each byte raises IRQ 12.   *)
(* mouse_handler takes the flags byte with try_read_byte and, for a        *)
(* packet it accepts, busy-waits in read_byte for the two delta bytes with *)
(* interrupts off, so while it spins only the mouse moves.  Bytes carry a  *)
(* ghost bit saying whether the mouse sent them as a packet's first byte.  *)
(* Kernel code other than the mouse driver writes attributes in two ways:  *)
(* set_char_attrib, which tells the observers, and keyboard_write, which   *)
(* hides the mouse cursor, lets putc store the attribute of the character  *)
(* directly and then call set_char_attrib at the next cell, and shows the  *)
(* cursor again.  A ghost map records what that code last wrote per cell.  *)
(***************************************************************************)
EXTENDS Integers, Sequences, Bitwise

CONSTANTS
    NUM_COLS,     \* columns of the screen (VIDEO_NUM_COLS)
    VIDEO_ROWS,   \* rows of the screen with the status row (VIDEO_NUM_ROWS)
    X_SCALE,      \* mouse units per column
    Y_SCALE,      \* mouse units per row
    ATTRS,        \* attributes the rest of the kernel writes
    MOUSE_CURSOR, \* the attribute of the mouse cursor
    DX, DY,       \* movements the mouse reports in one packet
    MAX_PACKETS   \* packets the mouse sends in a behaviour

\* Bits of the flags byte.
LEFT_BUTTON  == 1
RIGHT_BUTTON == 2
MOVEMENT_ONE == 8
X_SIGN       == 16
Y_SIGN       == 32
X_OVERFLOW   == 64
Y_OVERFLOW   == 128
ACK          == 250   \* 0xFA, the answer to a command

NoByte == [val |-> -1, head |-> FALSE]   \* the output register is empty

Cells == [x : 0..(NUM_COLS - 1), y : 0..(VIDEO_ROWS - 1)]
Cell(p) == [x |-> p.x \div X_SCALE, y |-> p.y \div Y_SCALE]

VARIABLES
    port,        \* the 8042 output register (port 0x60)
    irr,         \* IRQ 12 is pending at the PIC
    dev,         \* bytes of the packet the mouse is still sending
    sent,        \* packets the mouse has begun to send
    spin,        \* bytes mouse_handler holds while it waits in read_byte
    mouse_pos,   \* mouse_pos, in mouse units
    prev_pos,    \* prev_pos, a cell
    prev_attrib, \* prev_attrib
    attr,        \* the attribute byte of every cell of VGA memory
    written,     \* ghost: the attribute non-mouse code last wrote per cell
    lastClick    \* ghost: flags byte of the latest left-click dispatch

vars == <<port, irr, dev, sent, spin, mouse_pos, prev_pos, prev_attrib,
          attr, written, lastClick>>

Bit(v, m) == (v & m) # 0

\* The packet the mouse sends for a movement, buttons and overflow.
Packet(btn, dx, dy, ovf) ==
    LET f == MOVEMENT_ONE + btn + (IF dx < 0 THEN X_SIGN ELSE 0)
               + (IF dy < 0 THEN Y_SIGN ELSE 0)
               + (IF ovf THEN X_OVERFLOW ELSE 0)
    IN << [val |-> f, head |-> TRUE],
         [val |-> dx % 256, head |-> FALSE],
         [val |-> dy % 256, head |-> FALSE] >>

\* mouse_handler's test of a flags byte before it reads the deltas.
Accepted(v) ==
    /\ Bit(v, MOVEMENT_ONE)
    /\ ~Bit(v, X_OVERFLOW)
    /\ ~Bit(v, Y_OVERFLOW)

\* A delta byte, sign-extended by `| 0xFFFFFF00` when the sign bit is set.
Delta(b, neg) == IF neg THEN b - 256 ELSE b

Clamp(v, hi) == IF v < 0 THEN 0 ELSE IF v >= hi THEN hi - 1 ELSE v

\* attrib_changed, the observer set_char_attrib calls after a write.
AttribChanged(c, a) == IF c = prev_pos THEN a ELSE prev_attrib

\* move_mouse: restore the hidden attribute, move and clamp, save the
\* attribute of the new cell and draw the cursor there.  set_mouse_attrib
\* sets no_notify, so the observer ignores the two writes.
MoveMouse(deltax, deltay) ==
    LET old  == Cell(mouse_pos)
        np   == [x |-> Clamp(mouse_pos.x + deltax, NUM_COLS * X_SCALE),
                 y |-> Clamp(mouse_pos.y - deltay, VIDEO_ROWS * Y_SCALE)]
        hid  == [attr EXCEPT ![old] = prev_attrib]
    IN /\ prev_pos' = old
       /\ mouse_pos' = np
       /\ prev_attrib' = hid[Cell(np)]
       /\ attr' = [hid EXCEPT ![Cell(np)] = MOUSE_CURSOR]

\* The rest of mouse_handler once the three bytes are read: move, then call
\* the left-click handlers (line_click and status_click are registered at
\* boot).  No right-click handler is ever registered.
Finish(f, bx, by) ==
    /\ MoveMouse(Delta(bx.val, Bit(f.val, X_SIGN)),
                 Delta(by.val, Bit(f.val, Y_SIGN)))
    /\ lastClick' = IF Bit(f.val, LEFT_BUTTON) THEN f ELSE lastClick

-----------------------------------------------------------------------------
(* The mouse.                                                              *)

\* The mouse starts a packet once the previous one is out.
DeviceSend ==
    /\ dev = <<>>
    /\ sent < MAX_PACKETS
    /\ \E btn \in {0, LEFT_BUTTON, RIGHT_BUTTON}, dx \in DX, dy \in DY,
          ovf \in BOOLEAN :
          dev' = Packet(btn, dx, dy, ovf)
    /\ sent' = sent + 1
    /\ UNCHANGED <<port, irr, spin, mouse_pos, prev_pos, prev_attrib, attr,
                   written, lastClick>>

\* The next byte reaches the empty output register and raises IRQ 12.
DeviceByte ==
    /\ dev # <<>>
    /\ port = NoByte
    /\ port' = Head(dev)
    /\ dev' = Tail(dev)
    /\ irr' = TRUE
    /\ UNCHANGED <<sent, spin, mouse_pos, prev_pos, prev_attrib, attr,
                   written, lastClick>>

-----------------------------------------------------------------------------
(* mouse_handler.                                                          *)

\* IRQ 12 enters mouse_handler.  try_read_byte finds the register empty
\* (ReadFailure), or takes a byte: an ack or a flags byte that fails the
\* test ends the handler, an accepted one starts the wait for the deltas.
MouseHandler ==
    /\ irr
    /\ spin = <<>>
    /\ irr' = FALSE
    /\ port' = NoByte
    /\ spin' = IF port # NoByte /\ port.val # ACK /\ Accepted(port.val)
               THEN <<port>> ELSE <<>>
    /\ UNCHANGED <<dev, sent, mouse_pos, prev_pos, prev_attrib, attr,
                   written, lastClick>>

\* read_byte returns from its busy-wait with the next byte; with the dy
\* byte the handler moves the mouse and dispatches the clicks.
ReadByte ==
    /\ spin # <<>>
    /\ port # NoByte
    /\ port' = NoByte
    /\ \/ /\ Len(spin) < 2
          /\ spin' = Append(spin, port)
          /\ UNCHANGED <<mouse_pos, prev_pos, prev_attrib, attr, lastClick>>
       \/ /\ Len(spin) = 2
          /\ spin' = <<>>
          /\ Finish(spin[1], spin[2], port)
    /\ UNCHANGED <<irr, dev, sent, written>>

-----------------------------------------------------------------------------
(* The rest of the kernel, which runs only when mouse_handler does not.    *)

\* set_char_attrib from lib.c or status.c: write and tell the observer.
SetCharAttrib(c, a) ==
    /\ spin = <<>>
    /\ attr' = [attr EXCEPT ![c] = a]
    /\ written' = [written EXCEPT ![c] = a]
    /\ prev_attrib' = AttribChanged(c, a)
    /\ UNCHANGED <<port, irr, dev, sent, spin, mouse_pos, prev_pos,
                   lastClick>>

\* Cells putc writes: the rows above the status row.
TextCells == {c \in Cells : c.y < VIDEO_ROWS - 1}

\* The cell after c, where putc leaves the text cursor: the next column, the
\* next row, or at the end of the last row the start of that row again,
\* since scroll moves characters and leaves the attribute bytes in place.
NextCell(c) ==
    IF c.x + 1 < NUM_COLS THEN [c EXCEPT !.x = c.x + 1]
    ELSE [x |-> 0, y |-> IF c.y + 1 < VIDEO_ROWS - 1 THEN c.y + 1 ELSE c.y]

\* keyboard_write of one character on the visible terminal: hide_cursor,
\* putc (the attribute stored with the character at c, then
\* set_screen_coordinates' set_char_attrib at c and set_char_attrib at the
\* next cell, both of which tell the observer), show_cursor.
KeyboardWrite(c, a) ==
    LET m   == Cell(mouse_pos)
        n   == NextCell(c)
        hid == [attr EXCEPT ![m] = prev_attrib]
        put == [hid EXCEPT ![c] = a, ![n] = a]
    IN /\ spin = <<>>
       /\ attr' = [put EXCEPT ![m] = MOUSE_CURSOR]
       /\ written' = [written EXCEPT ![c] = a, ![n] = a]
       /\ prev_attrib' = IF prev_pos \in {c, n} THEN a ELSE prev_attrib
       /\ UNCHANGED <<port, irr, dev, sent, spin, mouse_pos, prev_pos,
                      lastClick>>

-----------------------------------------------------------------------------

\* After init_mouse, on a screen cleared to one attribute; the mouse has
\* acknowledged the enable command.
Init ==
    /\ \E a \in ATTRS :
          /\ attr = [c \in Cells |-> a]
          /\ written = attr
          /\ prev_attrib = a
    /\ port = [val |-> ACK, head |-> FALSE]
    /\ irr = TRUE
    /\ dev = <<>>
    /\ sent = 0
    /\ spin = <<>>
    /\ mouse_pos = [x |-> 0, y |-> 0]
    /\ prev_pos = [x |-> 0, y |-> 1]
    /\ lastClick = NoByte

Next ==
    \/ DeviceSend
    \/ DeviceByte
    \/ MouseHandler
    \/ ReadByte
    \/ \E c \in Cells, a \in ATTRS : SetCharAttrib(c, a)
    \/ \E c \in TextCells, a \in ATTRS : KeyboardWrite(c, a)

Spec == Init /\ [][Next]_vars

-----------------------------------------------------------------------------

Bytes == [val : 0..255, head : BOOLEAN]

TypeOK ==
    /\ port \in Bytes \cup {NoByte}
    /\ irr \in BOOLEAN
    /\ dev \in Seq(Bytes) /\ Len(dev) <= 3
    /\ sent \in 0..MAX_PACKETS
    /\ spin \in Seq(Bytes) /\ Len(spin) <= 2
    /\ Cell(mouse_pos) \in Cells
    /\ prev_pos \in Cells
    /\ attr \in [Cells -> ATTRS \cup {MOUSE_CURSOR}]
    /\ written \in [Cells -> ATTRS]
    /\ lastClick \in Bytes \cup {NoByte}

\* What the mouse shows is what happened: the click handlers (line_click,
\* status_click) are called only for a flags byte the mouse sent, with the
\* button pressed, never for a delta byte that mouse_handler took as flags
\* after dropping an overflow packet's first byte; and every cell off the
\* mouse cursor shows the attribute the kernel last wrote there, never a
\* prev_attrib that move_mouse or hide_cursor restores after it went stale.
MouseReflectsInput ==
    /\ lastClick = NoByte \/ lastClick.head
    /\ \A c \in Cells \ {Cell(mouse_pos)} : attr[c] = written[c]

====
