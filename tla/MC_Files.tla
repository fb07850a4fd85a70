------------------------------ MODULE MC_Files ------------------------------
(* Constants for checking Files with TLC.                                  *)
EXTENDS Files

MC_MAX_PROCESSES == 3          \* the kernel and two processes
MC_MAX_FILES     == 3          \* stdin, stdout and one more slot
MC_BLOCK_SIZE    == 2          \* so that a 3-byte file spans two blocks
\* The directory entry, an RTC entry, a text file ending inside its second
\* block, and an executable filling two blocks exactly.
MC_DENTRIES ==
    << [name |-> ".",          type |-> DENTRY_DIRECTORY, length |-> 0, elf |-> FALSE],
       [name |-> "rtc",        type |-> DENTRY_RTC,       length |-> 0, elf |-> FALSE],
       [name |-> "frame0.txt", type |-> DENTRY_FILE,      length |-> 3, elf |-> FALSE],
       [name |-> "shell",      type |-> DENTRY_FILE,      length |-> 4, elf |-> TRUE] >>
\* Less than the text file, so that load_program gets to the magic number.
MC_FILE_HEADER_SIZE == 2
\* The shell, a text file, the directory and a name the image lacks.
MC_EXEC_NAMES == {"shell", "frame0.txt", ".", "ls"}
\* A bad rate, a good one and the top rate.
MC_WRITE_ARGS     == {3, 8, 1024}
\* Only rates the chip accepts and log2 indexes in bounds.
MC_WRITE_ARGS_LOW == {4, 8}
\* Two rates the chip accepts, and the top rate.
MC_WRITE_ARGS_RATE == {4, 8, 1024}
MC_READ_SIZES     == {1, 2}
MC_MAX_USERS      == 3
MC_MAX_DIR_POS    == 2
=============================================================================
