---------------------------- MODULE MC_Terminal ----------------------------
(* Instance of Terminal for TLC: a four-byte keyboard buffer (two typed   *)
(* characters, three after a completion), two history rows, and short     *)
(* file names over the letters "a" and "b".                               *)
EXTENDS Terminal

CONSTANT Garbage

MC_BUFFER_SIZE == 4
MC_MAX_HISTORY_CMDS == 2
MC_MAX_EXECUTABLES == 15
MC_CHARS == {"a", " "}
\* "a" is listed after "ab" and "aa": completing "a" reaches strcmp("a", "a").
MC_DIR == << <<"b">>, <<"a", "b">>, <<"a", "a">>, <<"a">> >>
MC_MODS == {"shift", "ctrl", "alt"}
=============================================================================
