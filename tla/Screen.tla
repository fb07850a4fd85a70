------------------------------- MODULE Screen -------------------------------
(***************************************************************************)
(* The text screen and the terminals' backing pages (lib.c putc, scroll,   *)
(* set_screen_coordinates; keyboard.c keyboard_write, putc_to_backing,     *)
(* scroll_backing, the scrollback functions and the copies made by         *)
(* switch_terminals; the VGA writes of the exception handlers and of     *)
(* syscall_halt).  The focused terminal's text lives in VGA memory;        *)
(* each terminal owns a region of MAX_SCROLLBACK_OFFSET + 1 pages whose    *)
(* last page (video_memory_base) is its screen while it is in the          *)
(* background, and whose earlier pages hold the lines scrolled off.  Each  *)
(* step is one interrupt handler or one system call, all of which run      *)
(* with interrupts off.  Cells hold characters only: the attribute bytes   *)
(* and the cursor registers are left out.                                  *)
(***************************************************************************)
EXTENDS Integers, Sequences, SequencesExt

CONSTANTS
    NUM_COLS,              \* lib.h: columns of the text screen
    NUM_ROWS,              \* lib.h: rows of the text screen
    MAX_SCROLLBACK_OFFSET, \* keyboard.c: pages of scrollback above the base page
    TERMS,                 \* the terminals (terminals[0 .. NUM_TERMINALS - 1])
    CHARS,                 \* printable characters written in the model
    MAX_HALTS              \* halts that touch the screen in a behaviour

NEWLINE == "\n"
BLANK == " "   \* the fill of clear() and clear_terminal_backing_page
NUL == ""      \* a zero byte: kmalloc'd memory and the row scroll clears
UINT8 == 256   \* coord_t.x of current_position is a uint8_t

\* Cells of one page, and of a terminal's whole region.
P == NUM_COLS * NUM_ROWS
RegionLen == (MAX_SCROLLBACK_OFFSET + 1) * P
\* Cells before page k, counted from scrollback_base; video_memory_base is
\* page 0 and video_memory_base - k pages is page k.
PageStart(k) == (MAX_SCROLLBACK_OFFSET - k) * P

VARIABLES
    vga,        \* the VGA text memory at VIDEO
    region,     \* region[t]: scrollback_base .. video_memory_base + one page
    screen,     \* screen_x, screen_y of lib.c
    position,   \* position[t]: terminals[t].current_position
    focus,      \* current_terminal
    scrollback, \* scrollback_offset
    vm,         \* vm[t]: terminals[t].video_memory is page vm[t] of region[t]
    overrun,    \* putc_to_backing wrote past the end of a backing page
    halts       \* halts so far that touched the screen (a model bound)

vars == <<vga, region, screen, position, focus, scrollback, vm, overrun, halts>>

-----------------------------------------------------------------------------
(* Memory of the pages.                                                    *)

Page(r, k) == SubSeq(r, PageStart(k) + 1, PageStart(k) + P)

\* memcpy of a page into page k of a region.
WritePage(r, k, pg) ==
    [i \in 1..Len(r) |-> IF PageStart(k) < i /\ i <= PageStart(k) + P
                         THEN pg[i - PageStart(k)] ELSE r[i]]

\* Every cell takes the one NUM_COLS further on, and the last row is zeroed.
\* lib.c scroll does this to VGA.  scroll_backing does it to the whole
\* region: its byte loop moves the scrollback pages and the first half row
\* of the base page, and its row loop the rest of the base page's characters.
ScrollUp(s) == SubSeq(s, NUM_COLS + 1, Len(s)) \o [i \in 1..NUM_COLS |-> NUL]

\* set_screen_coordinates: wrap x into the row, move y by the rows crossed,
\* wrap a negative y and clamp a large one to the last row.
SetScreenCoordinates(x, y) ==
    LET yy == y + x \div NUM_COLS
    IN [x |-> x % NUM_COLS,
        y |-> IF yy < 0 THEN yy % NUM_ROWS
              ELSE IF yy >= NUM_ROWS THEN NUM_ROWS - 1 ELSE yy]

-----------------------------------------------------------------------------
(* The focused terminal, as a record the helpers pass along:              *)
(* vga, mem = region[focus], vm = vm[focus], off = scrollback_offset and   *)
(* the screen coordinates x, y.                                            *)

Fg == [vga |-> vga, mem |-> region[focus], vm |-> vm[focus],
       off |-> scrollback, x |-> screen.x, y |-> screen.y]

SetFg(d) ==
    /\ vga' = d.vga
    /\ region' = [region EXCEPT ![focus] = d.mem]
    /\ vm' = [vm EXCEPT ![focus] = d.vm]
    /\ scrollback' = d.off
    /\ screen' = [x |-> d.x, y |-> d.y]

\* map_backing_page: VGA is copied to the page video_memory points at.
MapBackingPage(d) == [d EXCEPT !.mem = WritePage(d.mem, d.vm, d.vga)]

\* load_scrollback_page(k): video_memory = base - k pages, then
\* unmap_backing_page copies that page to VGA.
LoadScrollbackPage(d, k) == [d EXCEPT !.vm = k, !.vga = Page(d.mem, k)]

ClampOffset(v) ==
    IF v < 0 THEN 0 ELSE IF v > MAX_SCROLLBACK_OFFSET THEN MAX_SCROLLBACK_OFFSET ELSE v

\* Mutant: the screen saved when a scrollback page is shown, not when none is.
ScrollToSaveWhenScrolled(d, v) ==
    LET m == IF d.off # 0 THEN MapBackingPage(d) ELSE d
        k == ClampOffset(v)
    IN LoadScrollbackPage([m EXCEPT !.off = k], k)

\* adjust_scrollback_page(v - off) and set_scrollback_page(v) alike: save
\* the screen if no scrollback page is shown, clamp, and load the page.
ScrollTo(d, v) ==
    LET m == IF d.off = 0 THEN MapBackingPage(d) ELSE d
        k == ClampOffset(v)
    IN LoadScrollbackPage([m EXCEPT !.off = k], k)

\* `scrollback_offset = 0; set_scrollback_page(0);`, done before a key's
\* echo, before keyboard_write prints and before Alt+F switches.
ResetScrollback(d) == ScrollTo([d EXCEPT !.off = 0], 0)

ScrollBacking(r) == ScrollUp(r)

\* lib.c scroll: save VGA to the backing page, scroll the region, scroll VGA.
Scroll(d) ==
    LET m == MapBackingPage(d)
    IN [m EXCEPT !.mem = ScrollBacking(m.mem), !.vga = ScrollUp(m.vga)]

\* The tail of putc: scroll when the last cell was written, then move the
\* cursor through set_screen_coordinates.
PutcMove(d, x, y) ==
    LET last == x = NUM_COLS /\ y = NUM_ROWS - 1
        s == IF last THEN Scroll(d) ELSE d
        c == SetScreenCoordinates(IF last THEN 0 ELSE x, y)
    IN [s EXCEPT !.x = c.x, !.y = c.y]

\* lib.c putc(c) on the focused terminal.
Putc(d, c) ==
    IF c = NEWLINE
    THEN IF d.y + 1 >= NUM_ROWS THEN PutcMove(Scroll(d), 0, d.y)
         ELSE PutcMove(d, 0, d.y + 1)
    ELSE PutcMove([d EXCEPT !.vga[NUM_COLS * d.y + d.x + 1] = c], d.x + 1, d.y)

\* lib.c clear: blank VGA and set_screen_coordinates(0, 0).
Clear(d) == [d EXCEPT !.vga = [i \in 1..P |-> BLANK], !.x = 0, !.y = 0]

\* printf of a string without conversions: putc of each byte in turn.
Printf(d, s) == FoldLeft(Putc, d, s)

\* The line an exception handler prints, its wording abstracted to one
\* character and the newline that ends it.
ExceptionMessage == << CHOOSE c \in CHARS : TRUE, NEWLINE >>

\* The clear() of syscall_halt: done when the halting process's parent is
\* the kernel (it was its terminal's last shell) and its terminal is shown.
HaltScreen(d, last) == IF last THEN Clear(d) ELSE d

-----------------------------------------------------------------------------
(* A terminal in the background.                                           *)

\* Mutant: the newline test of putc_to_backing with > for >=.
BackingNewlineScrollsOffByOne(y) == y + 1 > NUM_ROWS

\* putc_to_backing's newline test: *y += 1 reached NUM_ROWS, so scroll.
BackingNewlineScrolls(y) == y + 1 >= NUM_ROWS

\* putc_to_backing(c, t): write at video_memory_base + (NUM_COLS*y + x),
\* with x and y of current_position; x wraps only on the last row.  A cell
\* number of a page or more lies past the end of the region.
PutcToBacking(t, c) ==
    LET x == position[t].x
        y == position[t].y
        at == NUM_COLS * y + x
        nl == BackingNewlineScrolls(y)
        r1 == IF c = NEWLINE THEN IF nl THEN ScrollBacking(region[t]) ELSE region[t]
              ELSE IF at < P THEN [region[t] EXCEPT ![PageStart(0) + at + 1] = c]
              ELSE region[t]
        x1 == IF c = NEWLINE THEN 0 ELSE (x + 1) % UINT8
        y1 == IF c = NEWLINE THEN (IF nl THEN y ELSE y + 1) ELSE y
        last == x1 = NUM_COLS /\ y1 = NUM_ROWS - 1
    IN /\ region' = [region EXCEPT ![t] = IF last THEN ScrollBacking(r1) ELSE r1]
       /\ position' = [position EXCEPT ![t] = [x |-> IF last THEN 0 ELSE x1, y |-> y1]]
       /\ overrun' = (c # NEWLINE /\ at >= P)

-----------------------------------------------------------------------------
(* Steps.                                                                  *)

\* keyboard_write(c) by a process of terminal t: one byte per call (a call
\* of n bytes runs n such steps back to back).  On the focused terminal it
\* resets the scrollback and prints with putc, else it prints to the
\* backing page.
KeyboardWrite(t, c) ==
    \/ /\ t = focus
       /\ SetFg(Putc(ResetScrollback(Fg), c))
       /\ UNCHANGED <<position, focus, overrun, halts>>
    \/ /\ t # focus
       /\ PutcToBacking(t, c)
       /\ UNCHANGED <<vga, screen, focus, scrollback, vm, halts>>

\* An exception in a process of terminal t: the handler (lib.c ex_*)
\* clears VGA, except ex_page_fault, prints its message with printf on
\* VGA, and calls syscall_halt(-1).  None of them resets the scrollback,
\* and all of them write VGA whatever terminal t is.
ExceptionHalt(t, pf, last) ==
    /\ halts < MAX_HALTS
    /\ halts' = halts + 1
    /\ last => t = focus
    /\ SetFg(HaltScreen(Printf(IF pf THEN Fg ELSE Clear(Fg),
                               ExceptionMessage), last))
    /\ UNCHANGED <<position, focus, overrun>>

\* syscall_halt of the last shell of the shown terminal: clear(), without
\* a scrollback reset.  Other halts leave the screen alone.
Halt ==
    /\ halts < MAX_HALTS
    /\ halts' = halts + 1
    /\ SetFg(HaltScreen(Fg, TRUE))
    /\ UNCHANGED <<position, focus, overrun>>

\* A key of keypress_handler that resets the scrollback and prints nothing
\* here: Up and Down (their reprint of the line is KeyboardWrite on the
\* focused terminal), and the keys up to SPACE, whose echo likewise is.
KeyReset ==
    /\ SetFg(ResetScrollback(Fg))
    /\ UNCHANGED <<position, focus, overrun, halts>>

\* PgUp and PgDn: adjust_scrollback_page(1) and adjust_scrollback_page(-1).
AdjustScrollbackPage(delta) ==
    /\ SetFg(ScrollTo(Fg, scrollback + delta))
    /\ UNCHANGED <<position, focus, overrun, halts>>

\* switch_terminals(t): save the cursor and the screen of the old terminal,
\* copy the new terminal's video_memory page to VGA and restore its cursor.
\* (The vidmap remapping is modelled in Kernel.)
SwitchTerminals(d, t) ==
    LET pos1 == [position EXCEPT ![focus] = [x |-> d.x, y |-> d.y]]
        mem1 == [region EXCEPT ![focus] = MapBackingPage(d).mem]
        vm1 == [vm EXCEPT ![focus] = d.vm]
    IN /\ position' = pos1
       /\ region' = mem1
       /\ vm' = vm1
       /\ scrollback' = d.off
       /\ focus' = t
       /\ vga' = Page(mem1[t], vm1[t])
       /\ screen' = SetScreenCoordinates(pos1[t].x, pos1[t].y)

\* Alt+F(n): reset the scrollback, then switch_terminals.
AltSwitch(t) ==
    /\ SwitchTerminals(ResetScrollback(Fg), t)
    /\ UNCHANGED <<overrun, halts>>

\* status_click on a terminal's segment (and setup_process for a shell
\* the Start button opens): switch_terminals without the reset.
StatusSwitch(t) ==
    /\ SwitchTerminals(Fg, t)
    /\ UNCHANGED <<overrun, halts>>

-----------------------------------------------------------------------------

\* After boot (kernel.c): init_terminals blanks every base page of the
\* zeroed regions, clear() blanks VGA, and switch_terminals(&terminals[0])
\* shows terminal 0.  Shells print only once the scheduler runs.
Init ==
    /\ vga = [i \in 1..P |-> BLANK]
    /\ region = [t \in TERMS |-> [i \in 1..RegionLen |->
                                    IF i > PageStart(0) THEN BLANK ELSE NUL]]
    /\ screen = [x |-> 0, y |-> 0]
    /\ position = [t \in TERMS |-> [x |-> 0, y |-> 0]]
    /\ focus \in TERMS
    /\ scrollback = 0
    /\ vm = [t \in TERMS |-> 0]
    /\ overrun = FALSE
    /\ halts = 0

\* After an overrun the heap is corrupt and the model stops.
Next ==
    /\ ~overrun
    /\ \/ \E t \in TERMS, c \in CHARS \cup {NEWLINE} : KeyboardWrite(t, c)
       \/ KeyReset
       \/ AdjustScrollbackPage(1)
       \/ AdjustScrollbackPage(-1)
       \/ \E t \in TERMS : AltSwitch(t)
       \/ \E t \in TERMS : StatusSwitch(t)
       \/ \E t \in TERMS, pf, last \in BOOLEAN : ExceptionHalt(t, pf, last)
       \/ Halt

Spec == Init /\ [][Next]_vars

-----------------------------------------------------------------------------
(* Properties.                                                             *)

Cell == CHARS \cup {BLANK, NUL}

TypeOK ==
    /\ vga \in [1..P -> Cell]
    /\ region \in [TERMS -> [1..RegionLen -> Cell]]
    /\ screen \in [x : 0..NUM_COLS - 1, y : 0..NUM_ROWS - 1]
    /\ position \in [TERMS -> [x : 0..UINT8 - 1, y : 0..NUM_ROWS - 1]]
    /\ focus \in TERMS
    /\ scrollback \in 0..MAX_SCROLLBACK_OFFSET
    /\ vm \in [TERMS -> 0..MAX_SCROLLBACK_OFFSET]
    /\ overrun \in BOOLEAN
    /\ halts \in 0..MAX_HALTS


\* The text a terminal shows when it is in front and not scrolled back:
\* VGA for the focused terminal whose video_memory is its base page, the
\* base page for every other.
LiveScreen(t) == IF t = focus /\ vm[t] = 0 THEN vga ELSE Page(region[t], 0)

\* The scrollback pages of t, oldest line first.
History(t) == SubSeq(region[t], 1, PageStart(0))

\* A scroll of the history: the oldest line is dropped and the others move
\* up one line, in order, whatever line is appended.
ShiftedByOneLine(t) ==
    SubSeq(History(t)', 1, PageStart(0) - NUM_COLS)
        = SubSeq(History(t), NUM_COLS + 1, PageStart(0))

\* The scrollback keeps the lines scrolled off, in order (spec 4.7): a
\* terminal's scrollback pages change only by a scroll of that terminal,
\* which drops their oldest line and moves the others up in order.  This
\* is what lib.c scroll's map_backing_page before scroll_backing, and the
\* copies of set_scrollback_page and
\* switch_terminals into whatever page video_memory points at, must keep.
\* Violated: a VGA write while scrolled back is copied into the history
\* page by the next reset.
HistoryOnlyScrolls ==
    [][\A t \in TERMS : History(t)' = History(t) \/ ShiftedByOneLine(t)]_vars

ScrolledScreenIsHistory ==
    vm[focus] # 0 => vga = Page(region[focus], vm[focus])

\* spec 4.7 (focus coherence): switch_terminals, by Alt+F or by a click
\* on the status bar (which skips the scrollback reset, status.c:150),
\* changes no terminal's live screen: the old one's is saved to its page
\* and the new one's is copied to VGA.  It rests on adjust_scrollback_page
\* saving VGA only when scrollback_offset is 0 (keyboard.c:1022), so a
\* stale offset left by a status switch must never skip a needed save.
SwitchKeepsLiveScreens ==
    [][(\E u \in TERMS : AltSwitch(u) \/ StatusSwitch(u)) =>
         \A t \in TERMS : LiveScreen(t)' = LiveScreen(t)]_vars

\* spec 5, hardware text memory is owned by the focused terminal: a
\* terminal's live screen changes only by output of its own processes,
\* keyboard_write, an exception message or halt's clear(); paging and
\* switches give back the same screen.  Violated: an exception in a
\* background process prints on VGA.
LiveScreenChangesOnlyByOutput ==
    [][\A t \in TERMS :
         LiveScreen(t)' # LiveScreen(t) =>
             \/ \E c \in CHARS \cup {NEWLINE} : KeyboardWrite(t, c)
             \/ \E pf, last \in BOOLEAN : ExceptionHalt(t, pf, last)
             \/ t = focus /\ Halt]_vars

\* putc_to_backing writes inside the terminal's backing page.  It wraps x
\* only on the last row, so a line longer than the rest of its row on an
\* earlier row runs on and, near the bottom, past the page and the region
\* (keyboard.c:836; violated, see screen_output).
BackingWritesInPage == ~overrun

\* What the screen shows and keeps is each terminal's own output: backing
\* writes stay in the page (BackingWritesInPage), a shown history page is
\* never printed over (ScrolledScreenIsHistory), history changes only by
\* scrolls (HistoryOnlyScrolls) and a live screen only by its terminal's
\* output (LiveScreenChangesOnlyByOutput).  Violated four ways:
\* putc_to_backing's wrap (keyboard.c:836), the exception handlers' clear()
\* and printf over a shown history page (lib.c:750), syscall_halt's
\* clear() likewise (syscall.c:322), and an exception of a background
\* process printing on VGA.  Both state predicates hold initially, so they
\* are stated of every step's successor.
ScreenKeepsOwnOutput ==
    /\ [][BackingWritesInPage' /\ ScrolledScreenIsHistory']_vars
    /\ HistoryOnlyScrolls
    /\ LiveScreenChangesOnlyByOutput

=============================================================================
