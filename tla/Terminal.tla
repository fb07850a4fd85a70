------------------------------ MODULE Terminal ------------------------------
(***************************************************************************)
(* The line discipline of one terminal (keyboard.c): keypress_handler and  *)
(* the helpers it calls for backspace, Enter, history and tab completion,  *)
(* and keyboard_read, which consumes the entered line.  The handler runs   *)
(* under LOCK() with interrupts off, so each key is one atomic step.       *)
(* Which terminal has focus, and which task reads, is modelled in Kernel;  *)
(* here every key goes to this terminal.  Characters are one-character     *)
(* strings; the model does not tell keyboard_char from keyboard_char_shift *)
(* apart, since no property depends on letter case.                        *)
(***************************************************************************)
EXTENDS Integers, Sequences, SequencesExt, FiniteSets

CONSTANTS
    BUFFER_SIZE,        \* keyboard.h: bytes of keyboard_buffer and keyboard_read_buffer
    MAX_HISTORY_CMDS,   \* keyboard.h: rows of command_history
    MAX_EXECUTABLES,    \* keyboard.c: names get_executables returns at most
    CHARS,              \* printable keys typed in the model; " " is one of them
    DIR,                \* file names in directory order (read_directory_index)
    MODS,               \* the modifier latches modelled: a subset of Mods
    GARBAGE             \* a non-NUL byte read from outside command_history

SPACE == " "
NEWLINE == "\n"
NUL == ""
Mods == {"shift", "ctrl", "alt"}
\* The longest line keyboard_buffer holds with a terminator: the model does
\* not follow a completion that writes past it.
MAX_LINE == BUFFER_SIZE - 1
\* get_executables(dir, MAX_EXECUTABLES): the first directory entries.
Executables == SubSeq(DIR, 1, IF Len(DIR) < MAX_EXECUTABLES THEN Len(DIR) ELSE MAX_EXECUTABLES)

VARIABLES
    held,         \* keyboard_shift_set, keyboard_ctrl_set, keyboard_alt_set
    attached,     \* process_in_terminal[index] # NULL
    buffer,       \* keyboard_buffer[0 .. keyboard_buffer_size - 1]
    pos,          \* keyboard_buffer_pos
    readBuffer,   \* keyboard_read_buffer up to its first NUL
    readFlag,     \* keyboard_read_flag
    history,      \* command_history[0 .. history_size - 1]
    historyCurr,  \* history_curr
    crashed,      \* the kernel faulted inside tab_complete
    ring          \* the history the spec describes: the last lines entered

vars == <<held, attached, buffer, pos, readBuffer, readFlag, history,
          historyCurr, crashed, ring>>

-----------------------------------------------------------------------------
(* Mutants: each is a plausible slip in the code one definition models.   *)

\* The full-history shift copying rows 0..MAX-2 from themselves plus one:
\* history[1] is kept and history[2] dropped.
ShiftHistoryKeepOldest(h) == [i \in 1..MAX_HISTORY_CMDS - 1 |->
                                 IF i = 1 THEN h[1] ELSE h[i + 1]]


-----------------------------------------------------------------------------
(* lib.c string helpers used by tab_complete.                             *)

\* buf[i] with the NUL that follows the string.
CharAt(s, i) == IF i <= Len(s) THEN s[i] ELSE NUL

\* substr(s1, s2): 1 when s1 is a prefix of s2 (compares strlen(s1) bytes).
Substr(s1, s2) == \A i \in 1..Len(s1) : s1[i] = CharAt(s2, i)

\* strcmp(s1, s2): the 0-based index of the first difference, -1 if equal.
StrCmp(s1, s2) ==
    LET n    == IF Len(s1) >= Len(s2) THEN Len(s1) ELSE Len(s2)
        diff == {i \in 1..n : CharAt(s1, i) # CharAt(s2, i)}
    IN IF diff = {} THEN -1 ELSE Min(diff) - 1

-----------------------------------------------------------------------------
(* tab_complete.                                                          *)

\* The backward scan from keyboard_buffer_size - 1 to the last space: the
\* index where the word being completed starts.
WordStart(buf) ==
    LET sp == {i \in 1..Len(buf) : buf[i] = SPACE}
    IN IF sp = {} THEN 1 ELSE Max(sp) + 1

Word(buf) == SubSeq(buf, WordStart(buf), Len(buf))

\* The loop that clears the incomplete word: the line up to the last space.
KeptPrefix(buf) == SubSeq(buf, 1, WordStart(buf) - 1)

\* One pass of the loop over dir[i]: the first match is copied with a space
\* appended (strcpy, strlcat); a later one cuts cmd to strncpy(cmd, dir[i],
\* strcmp(dir[i], cmd)).  strcmp returns -1 when dir[i] equals cmd, and
\* strncpy with n = (uint32_t) -1 zeroes memory until the kernel faults.
RECURSIVE CompleteFrom(_, _, _)
CompleteFrom(word, names, r) ==
    IF names = <<>> \/ r.fault THEN r
    ELSE LET name == Head(names)
             len  == StrCmp(name, r.cmd)
             next == IF ~Substr(word, name) THEN r
                     ELSE IF r.cmd = <<>>
                          THEN [r EXCEPT !.cmd = name \o <<SPACE>>]
                     ELSE IF len = -1 THEN [r EXCEPT !.fault = TRUE]
                     ELSE [r EXCEPT !.cmd = SubSeq(name, 1, len)]
         IN CompleteFrom(word, Tail(names), next)

TabComplete(buf) ==
    CompleteFrom(Word(buf), Executables, [cmd |-> <<>>, fault |-> FALSE])

-----------------------------------------------------------------------------
(* handle_enter.                                                          *)

\* history_size == MAX_HISTORY_CMDS: rows 1.. move down one place.
ShiftHistory(h) == [i \in 1..MAX_HISTORY_CMDS - 1 |-> h[i + 1]]

\* Rows written, and history_size after, for the line buf.
PushHistory(h, buf) ==
    IF Len(h) = MAX_HISTORY_CMDS THEN ShiftHistory(h) \o <<buf>>
                                 ELSE Append(h, buf)

\* '\n' is stored at keyboard_buffer[size]; trailing spaces before it are
\* then overwritten by NUL, and strncpy stops at the first NUL.
EnteredLine(buf) ==
    LET keep == {i \in 1..Len(buf) : buf[i] # SPACE}
    IN IF buf # <<>> /\ buf[Len(buf)] = SPACE
       THEN SubSeq(buf, 1, IF keep = {} THEN 0 ELSE Max(keep))
       ELSE buf \o <<NEWLINE>>

-----------------------------------------------------------------------------
(* history_move: the line strncpy copies from command_history[hp].        *)

RecalledLines(hp) ==
    IF hp < Len(history) THEN {history[hp + 1]}
    \* Rows at or past history_size were never written; kmalloc zeroed them.
    ELSE IF hp < MAX_HISTORY_CMDS THEN {<<>>}
    \* command_history[MAX_HISTORY_CMDS] is past the array: the bytes of
    \* current_position and the fields after it.
    ELSE {<<>>, <<GARBAGE>>}

-----------------------------------------------------------------------------
(* Actions.                                                               *)

\* keypress_handler: the shift, ctrl and alt press and release codes.
Press(m) ==
    /\ held' = held \cup {m}
    /\ UNCHANGED <<attached, buffer, pos, readBuffer, readFlag, history,
                   historyCurr, crashed, ring>>

Release(m) ==
    /\ held' = held \ {m}
    /\ UNCHANGED <<attached, buffer, pos, readBuffer, readFlag, history,
                   historyCurr, crashed, ring>>

\* activate_task: a task of this terminal becomes process_in_terminal.
Attach ==
    /\ ~attached
    /\ attached' = TRUE
    /\ UNCHANGED <<held, buffer, pos, readBuffer, readFlag, history,
                   historyCurr, crashed, ring>>

\* Left and right arrows move the cursor inside [0, size].
MoveLeft ==
    /\ pos > 0
    /\ pos' = pos - 1
    /\ UNCHANGED <<held, attached, buffer, readBuffer, readFlag, history,
                   historyCurr, crashed, ring>>

\* Mutant: the right arrow tested against size + 1.
MoveRightToSize ==
    /\ pos <= Len(buffer)
    /\ pos' = pos + 1
    /\ UNCHANGED <<held, attached, buffer, readBuffer, readFlag, history,
                   historyCurr, crashed, ring>>

MoveRight ==
    /\ pos < Len(buffer)
    /\ pos' = pos + 1
    /\ UNCHANGED <<held, attached, buffer, readBuffer, readFlag, history,
                   historyCurr, crashed, ring>>

\* Up (offset -1) and down (+1) arrows: history_move.
HistoryMove(offset) ==
    LET hp == historyCurr + offset IN
    /\ 0 <= hp /\ hp <= Len(history)
    /\ \E line \in RecalledLines(hp) : buffer' = line /\ pos' = Len(line)
    /\ historyCurr' = hp
    /\ UNCHANGED <<held, attached, readBuffer, readFlag, history, crashed, ring>>

\* Keys up to SPACE_KEY are dropped while no process owns the terminal.
KeyAccepted == attached

\* The insertion both branches of keypress_handler make: the bytes from
\* the cursor on move up one, the character goes in at the cursor, and
\* pos and size grow by one, while size + 1 < BUFFER_SIZE - 1.
InsertAtCursor(c) ==
    /\ KeyAccepted
    /\ Len(buffer) + 1 < BUFFER_SIZE - 1
    /\ buffer' = InsertAt(buffer, pos + 1, c)
    /\ pos' = pos + 1
    /\ UNCHANGED <<held, attached, readBuffer, readFlag, history,
                   historyCurr, crashed, ring>>

\* A printable key without shift: only when neither ctrl nor alt is held.
InsertChar(c) ==
    /\ "shift" \notin held
    /\ held \cap {"ctrl", "alt"} = {}
    /\ InsertAtCursor(c)

\* A printable key with shift (keyboard_char_shift): ctrl and alt are not
\* tested in this branch.
InsertShiftedChar(c) ==
    /\ "shift" \in held
    /\ InsertAtCursor(c)

\* Ctrl-A: cursor to the start of the line.
CtrlA ==
    /\ KeyAccepted
    /\ "shift" \notin held /\ "ctrl" \in held
    /\ pos' = 0
    /\ UNCHANGED <<held, attached, buffer, readBuffer, readFlag, history,
                   historyCurr, crashed, ring>>

\* Ctrl-K: the line is cut at the cursor.
CtrlK ==
    /\ KeyAccepted
    /\ "shift" \notin held /\ "ctrl" \in held
    /\ buffer' = SubSeq(buffer, 1, pos)
    /\ UNCHANGED <<held, attached, pos, readBuffer, readFlag, history,
                   historyCurr, crashed, ring>>

\* handle_backspace: the character before the cursor is removed.
HandleBackspace ==
    /\ KeyAccepted
    /\ pos > 0
    /\ buffer' = RemoveAt(buffer, pos)
    /\ pos' = pos - 1
    /\ UNCHANGED <<held, attached, readBuffer, readFlag, history,
                   historyCurr, crashed, ring>>

\* handle_enter: history push, the line into keyboard_read_buffer, buffer
\* cleared, keyboard_read_flag set.
HandleEnter ==
    /\ KeyAccepted
    /\ history' = PushHistory(history, buffer)
    /\ historyCurr' = Len(PushHistory(history, buffer))
    /\ readBuffer' = EnteredLine(buffer)
    /\ readFlag' = TRUE
    /\ buffer' = <<>>
    /\ pos' = 0
    /\ ring' = LET r == Append(ring, buffer)
               IN IF Len(r) > MAX_HISTORY_CMDS THEN Tail(r) ELSE r
    /\ UNCHANGED <<held, attached, crashed>>

\* handle_tab and tab_complete: the word after the last space is replaced
\* by the completion, and the cursor goes to the end of the line.
HandleTab ==
    LET r  == TabComplete(buffer)
        nb == KeptPrefix(buffer) \o r.cmd
    IN
    /\ KeyAccepted
    /\ Len(buffer) # 0
    /\ \/ /\ r.fault
          /\ crashed' = TRUE
          /\ UNCHANGED <<buffer, pos>>
       \/ /\ ~r.fault /\ r.cmd = <<>>
          /\ UNCHANGED <<buffer, pos, crashed>>
       \/ /\ ~r.fault /\ r.cmd # <<>>
          /\ Len(nb) <= MAX_LINE
          /\ buffer' = nb
          /\ pos' = Len(nb)
          /\ UNCHANGED crashed
    /\ UNCHANGED <<held, attached, readBuffer, readFlag, history,
                   historyCurr, ring>>

\* keyboard_read, once the line is ready: the caller gets readBuffer, and
\* keyboard_read_flag is cleared.
KeyboardRead ==
    /\ readFlag
    /\ readFlag' = FALSE
    /\ UNCHANGED <<held, attached, buffer, pos, readBuffer, history,
                   historyCurr, crashed, ring>>

-----------------------------------------------------------------------------

\* init_terminals: empty buffers, history_size = history_curr = 0.
Init ==
    /\ held = {}
    /\ attached = FALSE
    /\ buffer = <<>>
    /\ pos = 0
    /\ readBuffer = <<>>
    /\ readFlag = FALSE
    /\ history = <<>>
    /\ historyCurr = 0
    /\ crashed = FALSE
    /\ ring = <<>>

\* One keyboard interrupt, an activation, or one keyboard_read.
Next ==
    /\ ~crashed
    /\ \/ \E m \in MODS : Press(m) \/ Release(m)
       \/ Attach
       \/ MoveLeft \/ MoveRight
       \/ \E o \in {-1, 1} : HistoryMove(o)
       \/ \E c \in CHARS : InsertChar(c) \/ InsertShiftedChar(c)
       \/ CtrlA \/ CtrlK
       \/ HandleBackspace
       \/ HandleEnter
       \/ HandleTab
       \/ KeyboardRead

Spec == Init /\ [][Next]_vars

-----------------------------------------------------------------------------
(* Properties.                                                            *)

Alphabet == CHARS \cup {SPACE, GARBAGE} \cup UNION {Range(n) : n \in Range(DIR)}
Line(s) == s \in Seq(Alphabet) /\ Len(s) <= MAX_LINE

\* Every variable holds a value of its type; the cursor stays inside the
\* line and history_curr inside 0 .. history_size.
TypeOK ==
    /\ held \subseteq Mods
    /\ attached \in BOOLEAN
    /\ Line(buffer)
    /\ pos \in 0..Len(buffer)
    /\ readBuffer \in Seq(Alphabet \cup {NEWLINE})
    /\ readFlag \in BOOLEAN
    /\ \A i \in DOMAIN history : Line(history[i])
    /\ Len(history) <= MAX_HISTORY_CMDS
    /\ historyCurr \in 0..Len(history)
    /\ crashed \in BOOLEAN

\* handle_enter keeps command_history as the spec's ring: the last
\* MAX_HISTORY_CMDS lines entered, oldest first, the oldest dropped when a
\* line is entered into a full history.
HistoryRing == history = ring

\* An up or down arrow (history_move) shows a line entered before, or the
\* empty line below the newest one.
HistoryRecallsEntered ==
    [][\A o \in {-1, 1} :
         HistoryMove(o) => buffer' \in Range(history) \cup {<<>>}]_vars

\* What spec 4.7 says Tab does: with no matching executable nothing
\* changes, with one the word becomes it plus a space, with several the
\* word becomes their longest common prefix.
SpecCompletion(buf) ==
    LET matches == {n \in Range(Executables) : IsPrefix(Word(buf), n)}
        head    == SubSeq(buf, 1, WordStart(buf) - 1)
    IN CASE matches = {} -> buf
         [] Cardinality(matches) = 1 ->
                head \o (CHOOSE n \in matches : TRUE) \o <<SPACE>>
         [] OTHER -> head \o LongestCommonPrefix(matches)

\* Tab (tab_complete) leaves the line spec 4.7 describes, and never faults.
TabCompletesPrefix ==
    [][HandleTab => ~crashed' /\ buffer' = SpecCompletion(buffer)]_vars

\* The editing keys do what spec 4.7 says: Up and Down recall lines that
\* were entered (HistoryRecallsEntered) and Tab completes to the longest
\* common prefix without faulting (TabCompletesPrefix).  Violated by
\* history_move's bound (keyboard.c:543) and by tab_complete's use of
\* strcmp (keyboard.c:630, 631).
LineEditsPerSpec == HistoryRecallsEntered /\ TabCompletesPrefix

====
