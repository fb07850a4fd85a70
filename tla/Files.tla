------------------------------- MODULE Files -------------------------------
(***************************************************************************)
(* The per-process open-file table, the RTC driver's frequency accounting *)
(* and the read-only filesystem reads of the XiOS kernel                   *)
(* (src/student-distrib/syscall.c, rtc.c, fs.c, task.c).                   *)
(*                                                                         *)
(* Every system call runs with IF = 0 and is one atomic step.  A process   *)
(* makes system calls only while it is the leaf of its execute chain (its *)
(* parent waits in execute), so any live process without a live child may *)
(* take the next step; the scheduler itself is modelled in Kernel.         *)
(*                                                                         *)
(* Data is abstracted: a file is its dentry index, the bytes of a file are *)
(* their positions, a frequency is the integer the user wrote.  Fields of *)
(* a slot whose in_use bit is clear are never read by the code (valid_fd, *)
(* find_new_fd and open all test or overwrite in_use first), so they are  *)
(* normalised to Unused when a slot is cleared.                           *)
(***************************************************************************)
EXTENDS Integers, Sequences, FiniteSets, FiniteSetsExt, Bitwise

CONSTANTS
    MAX_PROCESSES,  \* task.h: MAX_PROCESSES (100 in the build)
    MAX_FILES,      \* task.h: MAX_FILES, slots per open_files (8)
    BLOCK_SIZE,     \* fs.c: bytes per data block (4096)
    DENTRIES,       \* the boot block's dentries, in order: name, type,
                    \* file length and whether the file starts with the
                    \* ELF magic number
    FILE_HEADER_SIZE, \* task.c: bytes of the header load_program reads (40)
    EXEC_NAMES,     \* program names passed to execute
    WRITE_ARGS,     \* frequencies user programs write() to an RTC fd
    READ_SIZES,     \* nbytes user programs pass to read()
    MAX_USERS,      \* bound on each freq_users counter
    MAX_DIR_POS     \* bound on a directory fd's position

ASSUME /\ MAX_PROCESSES \in Nat \ {0, 1}
       /\ MAX_FILES \in Nat /\ MAX_FILES > 2
       /\ BLOCK_SIZE \in Nat \ {0}
       /\ WRITE_ARGS \subseteq Nat
       /\ READ_SIZES \subseteq Nat
       /\ MAX_USERS \in Nat /\ MAX_DIR_POS \in Nat
       /\ FILE_HEADER_SIZE \in Nat \ {0}

KERNEL    == 0
Pids      == 1..(MAX_PROCESSES - 1)
Fds       == 0..(MAX_FILES - 1)
STDIN_FD  == 0
STDOUT_FD == 1
NoFd      == -1

DENTRY_RTC       == 0                     \* fs.h
DENTRY_DIRECTORY == 1
DENTRY_FILE      == 2

MAX_FREQ_LOG2 == 10                       \* rtc.c:18
FreqIdx       == 0..MAX_FREQ_LOG2         \* indices of freq_users[]
DEV_RTC       == "/dev/rtc"
DEV_STDIN     == "/dev/stdin"
DEV_STDOUT    == "/dev/stdout"
NAME_MAX      == 32                       \* fs.h
NumDentries   == Len(DENTRIES)            \* get_num_dentries()
Inodes        == 0..(NumDentries - 1)
NoInode       == -1
\* The names user programs open: every dentry, the three devices, a name
\* the image does not hold, the empty name and one longer than NAME_MAX.
OpenNames     == {DEV_STDIN, DEV_STDOUT, DEV_RTC, "nosuchfile", "",
                  "a_file_name_longer_than_32_bytes!"}
                 \cup {DENTRIES[i].name : i \in 1..NumDentries}

\* The file_ops vtable a slot points to.
Ops == {"terminal", "rtc", "fs", "dir"}

Unused == [inUse |-> FALSE, ops |-> "none", canRead |-> FALSE,
           canWrite |-> FALSE, pos |-> 0, inode |-> NoInode]

VARIABLES
    live,         \* pids of the processes in the runqueue
    parent,       \* process->parent
    openFiles,    \* process->open_files[]
    freqUsers,    \* freq_users[] of rtc.c
    currentFreq   \* current_freq of rtc.c: the rate the chip is set to

vars == <<live, parent, openFiles, freqUsers, currentFreq>>

-----------------------------------------------------------------------------
(* Mutated forms of definitions below, each a plausible slip in the code. *)

\* inc_users without its "if (freq == 0) freq = 2": log2(0) is 1024 and the
\* increment lands outside freq_users.
IncUsersNoDefault(fu, freq) ==
    IF freq = 0 THEN fu
    ELSE LET i == IF freq = 1024 THEN 1024
                  ELSE CHOOSE j \in 1..(MAX_FREQ_LOG2 - 1) : 2^j = freq
         IN  IF i \in FreqIdx THEN [fu EXCEPT ![i] = @ + 1] ELSE fu

\* read_data without the clamp of length to the bytes left in the file.
ReadDataNoClampLen(len, off, n) == IF off > len THEN 0 ELSE n

\* rtc_set_freq without its power-of-two test.
ValidFreqRangeOnly(freq) == 2 <= freq /\ freq <= 1024

\* bytes_left_in_block one too large.
BytesLeftOffByOne(off) == BLOCK_SIZE - (off % BLOCK_SIZE) + 1

-----------------------------------------------------------------------------
(* rtc.c: frequency bookkeeping.                                           *)

\* log2(): 0 for a non-power of 2; 1024 (not 10) for anything from 2^10 up,
\* which indexes past the end of freq_users[MAX_FREQ_LOG2 + 1].
Log2(num) ==
    IF (num & (num - 1)) # 0 THEN 0
    ELSE LET hit == {i \in 1..(MAX_FREQ_LOG2 - 1) : 2^i = num}
         IN  IF hit # {} THEN Max(hit) ELSE 2^MAX_FREQ_LOG2

\* inc_users / dec_users treat a position of 0 as 2.
UserFreq(freq) == IF freq = 0 THEN 2 ELSE freq

\* ++freq_users[log2(freq)].  An index past the array is a write to other
\* kernel data (undefined behaviour): freq_users itself is left unchanged.
IncUsers(fu, freq) ==
    LET i == Log2(UserFreq(freq))
    IN  IF i \in FreqIdx THEN [fu EXCEPT ![i] = @ + 1] ELSE fu

\* --freq_users[log2(freq)].  The counters are uint32_t: -1 here stands for
\* 2^32 - 1, which max_freq() reads as a user.
DecUsers(fu, freq) ==
    LET i == Log2(UserFreq(freq))
    IN  IF i \in FreqIdx THEN [fu EXCEPT ![i] = @ - 1] ELSE fu

\* max_freq(): the highest 2^i, i in 1..10, with a non-zero counter, else 2.
MaxFreq(fu) ==
    LET used == {i \in 1..MAX_FREQ_LOG2 : fu[i] # 0}
    IN  IF used = {} THEN 2 ELSE 2^Max(used)

\* The range and power-of-two test of rtc_set_freq.
ValidFreq(freq) ==
    2 <= freq /\ freq <= 1024 /\ (freq & (freq - 1)) = 0

\* current_freq after rtc_set_freq(freq): unchanged when it returns -1.
RtcSetFreq(freq) == IF ValidFreq(freq) THEN freq ELSE currentFreq

\* rtc_read on file f: the number of RTC interrupts it waits for,
\* desired_tics - num_tics = current_freq / desired_freq, with a position
\* of 0 read as 2 Hz.  (The loop that waits, calling schedule() with
\* interrupts on, changes nothing modelled here.)
RtcReadTicks(f) == currentFreq \div UserFreq(f.pos)

\* Room in every counter for one more increment.
UsersBelowBound == \A i \in FreqIdx : freqUsers[i] < MAX_USERS

-----------------------------------------------------------------------------
(* fs.c: reads.                                                            *)

BytesLeftInBlock(off) == BLOCK_SIZE - (off % BLOCK_SIZE)

\* The copy loop of read_data: the bytes copied, each as <<data block of
\* the file, offset in that block>>, in order.
RECURSIVE CopyLoop(_, _)
CopyLoop(off, length) ==
    IF length <= 0 THEN <<>>
    ELSE LET left == BytesLeftInBlock(off)
             n    == IF length > left THEN left ELSE length
         IN  [j \in 1..n |-> <<off \div BLOCK_SIZE, (off % BLOCK_SIZE) + j - 1>>]
             \o CopyLoop(off + n, length - n)

\* The length read_data copies: nothing past the end, at most n bytes.
ReadDataLen(len, off, n) ==
    IF off > len THEN 0
    ELSE IF n > len - off THEN len - off ELSE n

ReadData(len, off, n) == CopyLoop(off, ReadDataLen(len, off, n))

\* read_dentry_by_index: -1 past the last dentry, else a copy of it.
ReadDentryByIndex(index) == IF index >= NumDentries THEN NoInode ELSE index

\* strncmp(s1, s2, NAME_MAX) == 0: for names of at most NAME_MAX bytes,
\* equality.
NameMatches(s1, s2) == s1 = s2

\* The scan loop of read_dentry_by_name from dentry i on.
RECURSIVE ScanDentries(_, _)
ScanDentries(fname, i) ==
    IF i >= NumDentries THEN NoInode
    ELSE IF NameMatches(fname, DENTRIES[ReadDentryByIndex(i) + 1].name)
         THEN i
         ELSE ScanDentries(fname, i + 1)

\* read_dentry_by_name: the first dentry with the name, or -1 for a name
\* of length 0 or above NAME_MAX, or one no dentry has.
ReadDentryByName(fname) ==
    IF Len(fname) < 1 \/ Len(fname) > NAME_MAX THEN NoInode
    ELSE ScanDentries(fname, 0)

\* load_program: the lookup, the type test, the header read, the magic
\* number, and the read of the rest of the file.  TRUE when it returns a
\* start address, FALSE for NULL.
LoadProgram(program) ==
    LET i   == ReadDentryByName(program)
        len == DENTRIES[i + 1].length
    IN  /\ i # NoInode
        /\ DENTRIES[i + 1].type = DENTRY_FILE
        /\ Len(ReadData(len, 0, FILE_HEADER_SIZE)) >= FILE_HEADER_SIZE
        /\ DENTRIES[i + 1].elf
        /\ Len(ReadData(len, FILE_HEADER_SIZE, len - FILE_HEADER_SIZE))
               >= len - FILE_HEADER_SIZE

-----------------------------------------------------------------------------
(* syscall.c: the open-file table.                                         *)

\* get_inode_ptr(inode)->length
FileLen(f) == DENTRIES[f.inode + 1].length

ValidFd(p, fd) == fd \in Fds /\ openFiles[p][fd].inUse

\* find_new_fd(): the lowest slot not in use, or -1.
FindNewFd(p) ==
    LET free == {fd \in Fds : ~openFiles[p][fd].inUse}
    IN  IF free = {} THEN NoFd ELSE Min(free)

StdinInfo  == [Unused EXCEPT !.inUse = TRUE, !.ops = "terminal",
                             !.canRead = TRUE]
StdoutInfo == [Unused EXCEPT !.inUse = TRUE, !.ops = "terminal",
                             !.canWrite = TRUE]

\* The file_info_t syscall_open builds for a name: the terminal for
\* /dev/stdin and /dev/stdout, the RTC for /dev/rtc, else from the dentry
\* read_dentry_by_name found.
OpenInfo(name) ==
    CASE name = DEV_STDIN  -> StdinInfo
      [] name = DEV_STDOUT -> StdoutInfo
      [] name = DEV_RTC    ->
            [Unused EXCEPT !.inUse = TRUE, !.ops = "rtc", !.canRead = TRUE,
                           !.canWrite = TRUE]
      [] OTHER ->
         LET i    == ReadDentryByName(name)
             type == DENTRIES[i + 1].type
         IN  [inUse |-> TRUE, pos |-> 0, inode |-> i,
              ops |-> CASE type = DENTRY_DIRECTORY -> "dir"
                        [] type = DENTRY_FILE      -> "fs"
                        [] type = DENTRY_RTC       -> "rtc",
              canRead |-> TRUE, canWrite |-> type = DENTRY_RTC]

\* Processes that may make the next system call: live, and not waiting in
\* execute for a child.
Callers == {p \in live : \A c \in live : parent[c] # p}

-----------------------------------------------------------------------------
(* Actions.                                                                *)

\* syscall_execute / kernel_spawn -> setup_process: new_process takes pid
\* max(live) + 1 and clears every in_use bit; load_program loads the
\* program into the new pid's frame, and when it fails setup_process
\* returns NULL and execute -1, with nothing changed that a live process
\* can see; setup_process then opens /dev/stdin and /dev/stdout
\* (keyboard_open does nothing).
Execute(p, program) ==
    LET np == Max(live \cup {KERNEL}) + 1
    IN  /\ np < MAX_PROCESSES
        /\ LoadProgram(program)
        /\ live' = live \cup {np}
        /\ parent' = [parent EXCEPT ![np] = p]
        /\ openFiles' = [openFiles EXCEPT ![np] =
                            [fd \in Fds |-> CASE fd = STDIN_FD  -> StdinInfo
                                              [] fd = STDOUT_FD -> StdoutInfo
                                              [] OTHER          -> Unused]]
        /\ UNCHANGED <<freqUsers, currentFreq>>

\* syscall_halt: close_process frees the task; the open-file table is left
\* as it is.
Halt(p) ==
    /\ live' = live \ {p}
    /\ UNCHANGED <<parent, openFiles, freqUsers, currentFreq>>

\* rtc_open: one more user at rate 2, then the chip to max_freq().
RtcOpen ==
    LET fu == IncUsers(freqUsers, 2)
    IN  /\ UsersBelowBound
        /\ freqUsers' = fu
        /\ currentFreq' = RtcSetFreq(MaxFreq(fu))

\* rtc_close: one user fewer at the file's rate, then the chip to
\* max_freq().
RtcClose(f) ==
    LET fu == DecUsers(freqUsers, f.pos)
    IN  /\ freqUsers' = fu
        /\ currentFreq' = RtcSetFreq(MaxFreq(fu))

\* keyboard_open, fs_open (for files and directories): nothing to do.
KeyboardOpen == UNCHANGED <<freqUsers, currentFreq>>
FsOpen       == UNCHANGED <<freqUsers, currentFreq>>

\* keyboard_close, fs_close: nothing to do.
KeyboardClose == UNCHANGED <<freqUsers, currentFreq>>
FsClose       == UNCHANGED <<freqUsers, currentFreq>>

\* open_func and close_func of the vtables terminal_funcs, fs_funcs,
\* dir_funcs and rtc_funcs.
OpenFunc(ops) ==
    CASE ops = "terminal"      -> KeyboardOpen
      [] ops \in {"fs", "dir"} -> FsOpen
      [] ops = "rtc"           -> RtcOpen

CloseFunc(f) ==
    CASE f.ops = "terminal"      -> KeyboardClose
      [] f.ops \in {"fs", "dir"} -> FsClose
      [] f.ops = "rtc"           -> RtcClose(f)

\* syscall_open: /dev/stdin and /dev/stdout overwrite slots 0 and 1, /dev/rtc
\* and a dentry the image holds fill the lowest free slot (a name it does
\* not hold returns -1 first); then the slot's open_func runs.
SyscallOpen(p, name) ==
    LET fd   == CASE name = DEV_STDIN  -> STDIN_FD
                  [] name = DEV_STDOUT -> STDOUT_FD
                  [] OTHER             -> FindNewFd(p)
        info == OpenInfo(name)
    IN  /\ name \in {DEV_STDIN, DEV_STDOUT, DEV_RTC}
           \/ ReadDentryByName(name) # NoInode
        /\ fd # NoFd
        /\ openFiles' = [openFiles EXCEPT ![p][fd] = info]
        /\ OpenFunc(info.ops)
        /\ UNCHANGED <<live, parent>>

\* syscall_close of fd >= 2: close_func, then in_use = 0.
SyscallClose(p, fd) ==
    LET f == openFiles[p][fd]
    IN  /\ ValidFd(p, fd) /\ fd # STDIN_FD /\ fd # STDOUT_FD
        /\ openFiles' = [openFiles EXCEPT ![p][fd] = Unused]
        /\ CloseFunc(f)
        /\ UNCHANGED <<live, parent>>

\* rtc_write: program the chip with the written frequency and move the
\* fd's user count to it, or on a bad frequency move the count to
\* position 0.  (NULL buffers and bad sizes return before any of this.)
RtcWrite(p, fd, freq) ==
    LET f      == openFiles[p][fd]
        newPos == IF ValidFreq(freq) THEN freq ELSE 0
    IN  /\ UsersBelowBound
        /\ currentFreq' = RtcSetFreq(freq)
        /\ freqUsers' = IncUsers(DecUsers(freqUsers, f.pos), newPos)
        /\ openFiles' = [openFiles EXCEPT ![p][fd].pos = newPos]
        /\ UNCHANGED <<live, parent>>

\* file_read: pos += the bytes read_data copied.
FileRead(p, fd, n) ==
    LET f == openFiles[p][fd]
    IN  /\ openFiles' = [openFiles EXCEPT ![p][fd].pos =
                            @ + Len(ReadData(FileLen(f), f.pos, n))]
        /\ UNCHANGED <<live, parent, freqUsers, currentFreq>>

\* directory_read: pos++ whether or not read_directory_index found a name.
DirectoryRead(p, fd) ==
    LET f == openFiles[p][fd]
    IN  /\ f.pos < MAX_DIR_POS
        /\ openFiles' = [openFiles EXCEPT ![p][fd].pos = @ + 1]
        /\ UNCHANGED <<live, parent, freqUsers, currentFreq>>

\* syscall_read: valid_fd and can_read, then the vtable's read_func.  Reads
\* of the terminal (keyboard_read, modelled in Kernel) and of the RTC
\* (rtc_read, which only waits) change no state modelled here.
SyscallRead(p, fd, n) ==
    /\ ValidFd(p, fd) /\ openFiles[p][fd].canRead
    /\ \/ openFiles[p][fd].ops = "fs" /\ FileRead(p, fd, n)
       \/ openFiles[p][fd].ops = "dir" /\ DirectoryRead(p, fd)

\* syscall_write: valid_fd and can_write, then the vtable's write_func.
\* keyboard_write only draws on the screen.
SyscallWrite(p, fd, freq) ==
    /\ ValidFd(p, fd) /\ openFiles[p][fd].canWrite
    /\ openFiles[p][fd].ops = "rtc"
    /\ RtcWrite(p, fd, freq)

Init ==
    /\ live = {}
    /\ parent = [p \in Pids |-> KERNEL]
    /\ openFiles = [p \in Pids |-> [fd \in Fds |-> Unused]]
    /\ freqUsers = [i \in FreqIdx |-> 0]
    /\ currentFreq = 2                     \* rtc.c:11, rtc_init

Next ==
    \/ \E p \in Callers \cup {KERNEL}, program \in EXEC_NAMES :
          Execute(p, program)
    \/ \E p \in Callers : Halt(p)
    \/ \E p \in Callers, name \in OpenNames : SyscallOpen(p, name)
    \/ \E p \in Callers, fd \in Fds : SyscallClose(p, fd)
    \/ \E p \in Callers, fd \in Fds, n \in READ_SIZES : SyscallRead(p, fd, n)
    \/ \E p \in Callers, fd \in Fds, freq \in WRITE_ARGS :
          SyscallWrite(p, fd, freq)

Spec == Init /\ [][Next]_vars


-----------------------------------------------------------------------------
(* Properties.                                                             *)

FileInfoT == [inUse: BOOLEAN, ops: Ops \cup {"none"}, canRead: BOOLEAN,
              canWrite: BOOLEAN, pos: Nat, inode: Inodes \cup {NoInode}]

TypeOK ==
    /\ live \subseteq Pids
    /\ parent \in [Pids -> Pids \cup {KERNEL}]
    /\ openFiles \in [Pids -> [Fds -> FileInfoT]]
    /\ freqUsers \in [FreqIdx -> Int]
    /\ currentFreq \in {2^i : i \in 1..MAX_FREQ_LOG2}

\* The open RTC files of live processes, as <<pid, fd>> pairs.
OpenRtc == {pf \in live \X Fds : /\ openFiles[pf[1]][pf[2]].inUse
                                 /\ openFiles[pf[1]][pf[2]].ops = "rtc"}

RtcAt(i) == {pf \in OpenRtc :
                Log2(UserFreq(openFiles[pf[1]][pf[2]].pos)) = i}

\* rtc_open, rtc_write (both branches) and rtc_close keep freq_users[i] at
\* least the number of open RTC files of live processes whose position
\* counts at 2^i, so max_freq() never forgets a user and no counter
\* underflows.
FreqUsersCoverOpen ==
    \A i \in FreqIdx : freqUsers[i] >= Cardinality(RtcAt(i))

\* The rate an open RTC file asks for: its position, 0 read as 2 Hz.
AskedRate(pf) == UserFreq(openFiles[pf[1]][pf[2]].pos)

\* spec 5: the effective RTC rate is the maximum in use, and the chip is
\* programmed to it whenever it changes; spec 4.5: halt closes all of the
\* child's descriptors.  So after every open, close, write and halt the
\* chip runs at the highest rate an open RTC file of a live process asks
\* for, or 2 Hz with none (violated three ways: rtc_write programs the
\* written rate, log2(1024) leaves 1024 Hz files uncounted, and halt runs
\* no close_func, so a halted process's rate stays in force).
RtcRunsAtMaxInUse ==
    currentFreq = Max({2} \cup {AskedRate(pf) : pf \in OpenRtc})

\* file_read advances pos by what read_data copied, which is clamped to the
\* file, so any sequence of reads leaves every regular file's position
\* within the file.
FilePosInFile ==
    \A p \in live, fd \in Fds :
        LET f == openFiles[p][fd]
        IN  (f.inUse /\ f.ops = "fs") => f.pos <= FileLen(f)

\* spec 6: read_data copies the bytes offset .. offset + k - 1 of the file
\* in order, block by block, with k = min(length, file length - offset),
\* across 4 KiB block boundaries.  Checked, for every regular file a live
\* process has open, at every offset and for every small length.
ReadDataReference(len, off, n) ==
    LET k == IF off >= len THEN 0
             ELSE IF n < len - off THEN n ELSE len - off
    IN  [j \in 1..k |-> <<(off + j - 1) \div BLOCK_SIZE,
                          (off + j - 1) % BLOCK_SIZE>>]

ReadDataCopiesRange ==
    \A p \in live, fd \in Fds :
        LET f == openFiles[p][fd]
        IN  (f.inUse /\ f.ops = "fs") =>
                \A off \in 0..(FileLen(f) + 1), n \in 0..(2 * BLOCK_SIZE + 2) :
                    ReadData(FileLen(f), off, n)
                        = ReadDataReference(FileLen(f), off, n)

=============================================================================
