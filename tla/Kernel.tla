------------------------------- MODULE Kernel -------------------------------
(***************************************************************************)
(* The process, scheduling and terminal core of the XiOS kernel           *)
(* (src/student-distrib/task.c, syscall.c, keyboard.c, pit.c, status.c,   *)
(* kernel.c).                                                              *)
(*                                                                         *)
(* The machine has one CPU.  System calls, the PIT, keyboard and mouse     *)
(* handlers enter through interrupt gates, so each runs with IF = 0 and is *)
(* one atomic step here.  The only points where the kernel runs with      *)
(* interrupts enabled are user mode, the test loop of keyboard_read (the   *)
(* pc values "read_test" and "read_copy") and the hlt loop of the kernel   *)
(* process (pc "hlt").  Interrupt handlers (Tick, KeyEnter, SwitchTerminal,*)
(* KernelSpawn) may fire exactly at those points.                          *)
(*                                                                         *)
(* Data is abstracted: a process is its pid, a terminal its index, a       *)
(* keyboard line is the terminal it was typed on, and the page mapped at   *)
(* virtual MB(256) of a page directory is "none", "video" (the VGA page)   *)
(* or the index of the terminal whose backing page it is.                  *)
(***************************************************************************)
EXTENDS Integers, Sequences, SequencesExt

CONSTANTS
    MAX_PROCESSES,  \* task.h: MAX_PROCESSES (100 in the build)
    NUM_TERMINALS,  \* keyboard.h: NUM_TERMINALS (10 in the build)
    BOOT_SHELLS     \* kernel.c:254, shells spawned at boot (3 in the build)

ASSUME /\ MAX_PROCESSES \in Nat \ {0}
       /\ NUM_TERMINALS \in Nat \ {0}
       /\ BOOT_SHELLS \in 1..NUM_TERMINALS
       /\ BOOT_SHELLS < MAX_PROCESSES

KERNEL == 0                      \* kernel_proc always has pid 0
Pids   == 0..(MAX_PROCESSES - 1)
Terms  == 0..(NUM_TERMINALS - 1)
NoPid  == -1                     \* a NULL process pointer
NoTerm == -1                     \* a NULL terminal pointer

\* Where a process is stopped, or the point at which it resumes.
PCs == {"boot",       \* kernel process before the sti at kernel.c:267
        "hlt",        \* kernel process in its hlt loop, kernel.c:271
        "user",       \* in user mode (or about to return to it)
        "read_test",  \* keyboard_read, re-testing its loop condition, IF = 1
        "read_copy",  \* keyboard_read, condition held, before the cli
        "exec_wait",  \* blocked in syscall_execute until its child halts
        "none"}       \* no process with this pid

\* The physical page behind virtual MB(256): nothing, the VGA page VIDEO,
\* or the backing page (terminals[t].video_memory) of terminal t.
NoPage     == <<"none", 0>>
Video      == <<"video", 0>>
Backing(t) == <<"backing", t>>
VidTargets == {NoPage, Video} \cup {Backing(t) : t \in Terms}

\* paging.h: privilege_t.
KernelPrivilege == 0
UserPrivilege   == 3

\* The page tables of page_data_t that the vidmap window can use: pt[0]
\* (the 0-4MB kernel table) and pt[1] (the vidmap table).  NoTable is a
\* page-directory entry that is not present.
PageTables == {0, 1}
NoTable    == -1

\* What is modelled of page_tables[pid]: directory entry 64 (virtual
\* MB(256) / MB(4)) with the table it points at and its U/S bit, and entry
\* 0 of each table (virtual MB(256) % MB(4) / KB(4) = 0, which is also
\* virtual address 0 for pt[0]).  Every other entry is fixed by init_paging.
PteVals   == [page : VidTargets, user : BOOLEAN]
PageDirs  == [dir : PageTables \cup {NoTable}, dirUser : BOOLEAN,
              pt : [PageTables -> PteVals]]

VARIABLES
    queue,       \* runqueue, head first: the pids of its tasks
    status,      \* task->status of each pid's task
    parent,      \* process->parent
    term,        \* process->terminal
    vidmapFlag,  \* process->vidmap_flag
    pages,       \* page_tables[pid]: the vidmap window of pid's tables
    pc,          \* resume point of each pid
    current,     \* current_process
    running,     \* the process whose context the CPU is executing
    cr3,         \* pid whose page directory is loaded (load_pages)
    curTerm,     \* current_terminal
    procInTerm,  \* process_in_terminal[]
    readFlag,    \* terminals[t].keyboard_read_flag
    readFrom,    \* history: terminal whose line p's last keyboard_read copied
    hung         \* schedule() is spinning forever in its do-while loop

vars == <<queue, status, parent, term, vidmapFlag, pages, pc, current,
          running, cr3, curTerm, procInTerm, readFlag, readFrom, hung>>

Live == ToSet(queue)

(***************************************************************************)
(* Faulty variants of definitions below.  Each is a plausible coding      *)
(* error in the corresponding C code; substituting it for the original    *)
(* shows that a property of MC_Kernel detects that error.                  *)
(***************************************************************************)
NewPidByCount == Len(queue)
IdleTaskNoop(s, p) == s
RunnableAny(x) == TRUE
RotatedNone(q, k) == q
PidAvailableOffByOne(pid) == pid <= MAX_PROCESSES
HaltOwnerKept(p, q) ==
    IF q = KERNEL THEN procInTerm ELSE [procInTerm EXCEPT ![term[q]] = q]

(***************************************************************************)
(* Helpers translated from task.c and keyboard.c.                          *)
(***************************************************************************)

\* new_process: one more than the largest pid in the runqueue.
NewPid == Max(Live) + 1

\* new_process refuses a pid that has no PCB slot or page directory.
PidAvailable(pid) == pid < MAX_PROCESSES

\* new_terminal: the first terminal with no process, or whose process is the
\* kernel (left there by syscall_halt of a top-level shell).
NewTerminal ==
    LET free == {t \in Terms : procInTerm[t] \in {NoPid, KERNEL}}
    IN  IF free = {} THEN NoTerm ELSE Min(free)

\* idle_task
IdleTask(s, p) == [s EXCEPT ![p] = "idle"]

\* The condition of schedule()'s do-while loop that accepts a task.
Runnable(x) == status[x] = "active"

\* The queue after next_task has been called k times: the first k tasks
\* are popped from the head and pushed at the tail, in order.
Rotated(q, k) == SubSeq(q, k + 1, Len(q)) \o SubSeq(q, 1, k)

\* remove_task: a queue of one task ignores a task that is not its head.
RemoveTask(q, p) ==
    IF Len(q) <= 1 /\ q[1] # p THEN q ELSE RemoveFirst(q, p)

\* close_process: the task leaves the runqueue (free_task(remove_task)).
CloseProcess(p) == RemoveTask(queue, p)

\* syscall_halt: the process the terminal's entry names after p halts to q.
\* A top-level shell leaves the kernel in process_in_terminal; a parent
\* takes its terminal back in activate_task.
HaltOwner(p, q) ==
    IF q = KERNEL THEN [procInTerm EXCEPT ![term[p]] = KERNEL]
                  ELSE [procInTerm EXCEPT ![term[q]] = q]

(***************************************************************************)
(* Helpers translated from paging.c.  All callers of map_4kb_page map     *)
(* virtual MB(256), so set_pde writes directory entry 64 and set_pte entry *)
(* 0 of table ptid.  Only the U/S bit (0x4) of the flags is kept.          *)
(***************************************************************************)

\* init_paging: for every pid, pt[0] maps 4KB..4MB (j starts at 1, so
\* entry 0 stays zero), pt[1] is empty, and none of the 4MB pages it maps
\* (kernel, kmalloc storage, the user frames) is at directory entry 64 for
\* the pids of the model.
InitPages ==
    [p \in Pids |-> [dir |-> NoTable, dirUser |-> FALSE,
                     pt |-> [k \in PageTables |-> [page |-> NoPage,
                                                    user |-> FALSE]]]]

\* load_pages(pid): page_pid and CR3 name pid's page directory.
LoadPages(pid) == cr3' = pid

\* set_current_process(p): current_process = p, its page directory loaded
\* (and tss.esp0 set to its kernel stack).
SetCurrentProcess(p) == current' = p /\ LoadPages(p)

\* The U/S bit of page-directory and page-table entry flags.
UserBit(flags) == (flags \div 4) % 2 = 1

\* set_pde(64, &pt[table], flags, pid)
SetPde(pg, pid, table, flags) ==
    [pg EXCEPT ![pid].dir = table, ![pid].dirUser = UserBit(flags)]

\* set_pte(0, addr, flags, pid, ptid)
SetPte(pg, pid, ptid, addr, flags) ==
    [pg EXCEPT ![pid].pt[ptid] = [page |-> addr, user |-> UserBit(flags)]]

\* A map_4kb_page that sets the U/S bit from its privilege argument.
Map4kbPageHonorPrivilege(pg, addr, pid, privilege, ptid) ==
    LET f == IF privilege = UserPrivilege THEN 31 ELSE 27
    IN  SetPte(SetPde(pg, pid, ptid, f), pid, ptid, addr, f)

\* map_4kb_page(addr, MB(256), pid, privilege, ptid): both entries get the
\* flags 0x1F, whatever the privilege.
Map4kbPage(pg, addr, pid, privilege, ptid) ==
    SetPte(SetPde(pg, pid, ptid, 31), pid, ptid, addr, 31)

\* The physical page behind virtual MB(256) in pid's page directory.
VidPage(p) ==
    IF pages[p].dir = NoTable THEN NoPage ELSE pages[p].pt[pages[p].dir].page

\* switch_terminals(t): the vidmapped owner of the outgoing terminal is
\* remapped to that terminal's backing page, then the vidmapped owner of
\* the incoming terminal is remapped to video memory.  Both calls pass
\* KernelPrivilege and page table 0, the kernel's 0-4MB table.
SwitchedPages(t) ==
    LET out == procInTerm[curTerm]
        in  == procInTerm[t]
        m1  == IF out # NoPid /\ vidmapFlag[out]
                 THEN Map4kbPage(pages, Backing(curTerm), out, KernelPrivilege, 0)
                 ELSE pages
    IN  IF in # NoPid /\ vidmapFlag[in]
          THEN Map4kbPage(m1, Video, in, KernelPrivilege, 0) ELSE m1

\* The loop condition of keyboard_read is false for p.
Ready(p) == curTerm = term[p] /\ readFlag[curTerm]

\* Interrupts are enabled at the point where the CPU is.
IntEnabled == pc[running] \in {"user", "read_test", "read_copy", "hlt"}

(***************************************************************************)
(* schedule(): call next_task until it yields an active task.  The loop    *)
(* bound tasks_remaining is a uint32_t, so `tasks_remaining >= 0' never    *)
(* fails: with no active task the loop never ends.  Otherwise the queue is *)
(* rotated past the chosen task, and task_switch makes it current and      *)
(* loads its page directory (set_current_process) unless it is already     *)
(* the current one.                                                        *)
(***************************************************************************)
Schedule ==
    LET k == SelectInSeq(queue, Runnable)
    IN  IF k = 0
          THEN /\ hung' = TRUE
               /\ UNCHANGED <<queue, current, running, cr3>>
          ELSE LET to == queue[k]
               IN  /\ queue' = Rotated(queue, k)
                   /\ IF to # current
                        THEN /\ SetCurrentProcess(to)
                             /\ running' = to
                        ELSE UNCHANGED <<current, running, cr3>>
                   /\ UNCHANGED hung

(***************************************************************************)
(* kernel_spawn("shell") that succeeds: setup_process with current_process *)
(* set to kernel_proc.  new_process takes pid NewPid and the terminal      *)
(* NewTerminal and calls switch_terminals before the task exists;          *)
(* add_process pushes the task at the head and activate_task records it in *)
(* process_in_terminal; set_current_process loads the new page directory.  *)
(* kernel_spawn then restores current_process without load_pages, so cr3   *)
(* is left naming the new shell.  The shell's first run starts in user     *)
(* mode at its entry point.                                                *)
(***************************************************************************)
KernelSpawn ==
    LET pid == NewPid
        t   == NewTerminal
    IN  /\ PidAvailable(pid)
        /\ t # NoTerm
        /\ queue' = <<pid>> \o queue
        /\ status' = [status EXCEPT ![pid] = "active"]
        /\ parent' = [parent EXCEPT ![pid] = KERNEL]
        /\ term' = [term EXCEPT ![pid] = t]
        /\ vidmapFlag' = [vidmapFlag EXCEPT ![pid] = FALSE]
        /\ pages' = SwitchedPages(t)
        /\ curTerm' = t
        /\ procInTerm' = [procInTerm EXCEPT ![t] = pid]
        /\ pc' = [pc EXCEPT ![pid] = "user"]
        /\ LoadPages(pid)
        /\ readFrom' = [readFrom EXCEPT ![pid] = NoTerm]
        /\ UNCHANGED <<current, running, readFlag, hung>>

\* kernel_spawn whose new_process returns NULL (no pid below MAX_PROCESSES
\* or no free terminal): it returns at task.c:217 without restoring
\* current_process, which stays kernel_proc.
KernelSpawnFail ==
    /\ ~PidAvailable(NewPid) \/ NewTerminal = NoTerm
    /\ current' = KERNEL
    /\ UNCHANGED <<queue, status, parent, term, vidmapFlag, pages, pc,
                   running, cr3, curTerm, procInTerm, readFlag, readFrom, hung>>

\* kernel.c:254-257: the boot loop spawns BOOT_SHELLS shells, IF = 0.
BootSpawn ==
    /\ pc[KERNEL] = "boot"
    /\ Len(queue) <= BOOT_SHELLS
    /\ KernelSpawn

\* kernel.c:260-267: the kernel idles, shows terminal 0 and enables
\* interrupts before entering its hlt loop.
BootDone ==
    /\ pc[KERNEL] = "boot"
    /\ Len(queue) = BOOT_SHELLS + 1
    /\ curTerm' = 0
    /\ pages' = SwitchedPages(0)
    /\ pc' = [pc EXCEPT ![KERNEL] = "hlt"]
    /\ UNCHANGED <<queue, status, parent, term, vidmapFlag, current, running,
                   cr3, procInTerm, readFlag, readFrom, hung>>

\* status_click on the Start segment, from the mouse interrupt.
MouseSpawn ==
    /\ IntEnabled
    /\ KernelSpawn \/ KernelSpawnFail

\* pit_handler: the timer interrupt calls schedule().
Tick ==
    /\ IntEnabled
    /\ Schedule
    /\ UNCHANGED <<status, parent, term, vidmapFlag, pages, pc, curTerm,
                   procInTerm, readFlag, readFrom>>

(***************************************************************************)
(* syscall_execute by the current process p, succeeding: setup_process     *)
(* creates child c in p's terminal (new_process inherits the terminal),   *)
(* add_process activates it and makes it the terminal's process,           *)
(* set_current_process makes it current with its page directory, and p is *)
(* idled and waits at syscall_restore_regs.  The failing paths (no free    *)
(* pid, no such program) return -1 having changed nothing modelled.        *)
(***************************************************************************)
Execute ==
    LET p == current
        c == NewPid
    IN  /\ pc[p] = "user"
        /\ PidAvailable(c)
        /\ queue' = <<c>> \o queue
        /\ status' = IdleTask([status EXCEPT ![c] = "active"], p)
        /\ parent' = [parent EXCEPT ![c] = p]
        /\ term' = [term EXCEPT ![c] = term[p]]
        /\ vidmapFlag' = [vidmapFlag EXCEPT ![c] = FALSE]
        /\ procInTerm' = [procInTerm EXCEPT ![term[p]] = c]
        /\ pc' = [pc EXCEPT ![p] = "exec_wait", ![c] = "user"]
        /\ SetCurrentProcess(c)
        /\ running' = c
        /\ readFrom' = [readFrom EXCEPT ![c] = NoTerm]
        /\ UNCHANGED <<pages, curTerm, readFlag, hung>>

(***************************************************************************)
(* syscall_halt by the current process p (also reached from every         *)
(* exception handler): its parent q becomes current with q's page         *)
(* directory, p's task leaves the runqueue, and control jumps to q's      *)
(* ret_addr.  For a shell parent that is syscall_restore_regs, where      *)
(* activate_task makes q active and its terminal's process again.  For    *)
(* the kernel it is task_switch_back, which returns into the hlt loop; the *)
(* kernel stays idle.  The page mappings of p are left as they are.       *)
(***************************************************************************)
Halt ==
    LET p == current
        q == parent[p]
    IN  /\ pc[p] = "user"
        /\ queue' = CloseProcess(p)
        /\ status' = IF q = KERNEL THEN status
                                   ELSE [status EXCEPT ![q] = "active"]
        /\ procInTerm' = HaltOwner(p, q)
        /\ pc' = [pc EXCEPT ![p] = "none",
                            ![q] = IF q = KERNEL THEN "hlt" ELSE "user"]
        /\ SetCurrentProcess(q)
        /\ running' = q
        /\ UNCHANGED <<parent, term, vidmapFlag, pages, curTerm, readFlag,
                       readFrom, hung>>

\* syscall_vidmap with a valid pointer: maps virtual MB(256) of the caller
\* to VIDEO, whichever terminal is shown, and sets vidmap_flag.
Vidmap ==
    /\ pc[current] = "user"
    /\ pages' = Map4kbPage(pages, Video, current, UserPrivilege, 1)
    /\ vidmapFlag' = [vidmapFlag EXCEPT ![current] = TRUE]
    /\ UNCHANGED <<queue, status, parent, term, pc, current, running, cr3,
                   curTerm, procInTerm, readFlag, readFrom, hung>>

\* The tail of keyboard_read after the cli: copy current_terminal's read
\* buffer and clear current_terminal's read flag.
CopyLine(p) ==
    /\ readFrom' = [readFrom EXCEPT ![p] = curTerm]
    /\ readFlag' = [readFlag EXCEPT ![curTerm] = FALSE]
    /\ pc' = [pc EXCEPT ![p] = "user"]

(***************************************************************************)
(* keyboard_read, entered by the read system call on stdin.  The first    *)
(* test of the loop condition runs after cli(); if the line is not there  *)
(* the loop calls schedule() and comes back with sti(), so every later     *)
(* test, and the gap between a test that passes and the cli() after the    *)
(* loop, run with interrupts enabled.                                      *)
(***************************************************************************)
ReadCall ==
    LET p == current
    IN  /\ pc[p] = "user"
        /\ IF Ready(p)
             THEN /\ CopyLine(p)
                  /\ UNCHANGED <<queue, current, running, cr3, hung>>
             ELSE /\ pc' = [pc EXCEPT ![p] = "read_test"]
                  /\ Schedule
                  /\ UNCHANGED <<readFlag, readFrom>>
        /\ UNCHANGED <<status, parent, term, vidmapFlag, pages, curTerm,
                       procInTerm>>

ReadTest ==
    LET p == current
    IN  /\ pc[p] = "read_test"
        /\ IF Ready(p)
             THEN /\ pc' = [pc EXCEPT ![p] = "read_copy"]
                  /\ UNCHANGED <<queue, current, running, cr3, hung>>
             ELSE /\ Schedule
                  /\ UNCHANGED pc
        /\ UNCHANGED <<status, parent, term, vidmapFlag, pages, curTerm,
                       procInTerm, readFlag, readFrom>>

ReadCopy ==
    LET p == current
    IN  /\ pc[p] = "read_copy"
        /\ CopyLine(p)
        /\ UNCHANGED <<queue, status, parent, term, vidmapFlag, pages,
                       current, running, cr3, curTerm, procInTerm, hung>>

\* keypress_handler, Enter: refused when the shown terminal has no process
\* (keyboard.c:260); handle_enter publishes the line and sets the flag.
KeyEnter ==
    /\ IntEnabled
    /\ procInTerm[curTerm] # NoPid
    /\ readFlag' = [readFlag EXCEPT ![curTerm] = TRUE]
    /\ UNCHANGED <<queue, status, parent, term, vidmapFlag, pages, pc,
                   current, running, cr3, curTerm, procInTerm, readFrom, hung>>

\* switch_terminals(t), from Alt+F<n> in keypress_handler or a click on a
\* terminal's segment in status_click.
SwitchTerminal(t) ==
    /\ IntEnabled
    /\ curTerm' = t
    /\ pages' = SwitchedPages(t)
    /\ UNCHANGED <<queue, status, parent, term, vidmapFlag, pc, current,
                   running, cr3, procInTerm, readFlag, readFrom, hung>>

\* Once schedule() spins, or once current_process no longer names the
\* context the CPU runs (after a failed kernel_spawn), nothing further of
\* the kernel is modelled.
Stopped == hung \/ current # running

Spin ==
    /\ Stopped
    /\ UNCHANGED vars

Init ==
    /\ queue = <<KERNEL>>
    /\ status = [p \in Pids |-> "idle"]
    /\ parent = [p \in Pids |-> NoPid]
    /\ term = [p \in Pids |-> NoTerm]
    /\ vidmapFlag = [p \in Pids |-> FALSE]
    /\ pages = InitPages
    /\ pc = [p \in Pids |-> IF p = KERNEL THEN "boot" ELSE "none"]
    /\ current = KERNEL
    /\ running = KERNEL
    /\ cr3 = KERNEL
    /\ curTerm = 0
    /\ procInTerm = [t \in Terms |-> NoPid]
    /\ readFlag = [t \in Terms |-> FALSE]
    /\ readFrom = [p \in Pids |-> NoTerm]
    /\ hung = FALSE

Step(A) == ~Stopped /\ A

Next ==
    \/ Spin
    \/ Step(BootSpawn)
    \/ Step(BootDone)
    \/ Step(MouseSpawn)
    \/ Step(Execute)
    \/ Step(Halt)
    \/ Step(Vidmap)
    \/ Step(ReadCall)
    \/ Step(ReadTest)
    \/ Step(ReadCopy)
    \/ Step(Tick)
    \/ Step(KeyEnter)
    \/ \E t \in Terms : Step(SwitchTerminal(t))

(***************************************************************************)
(* The PIT fires every 50 ms (timer_start(20)) whenever interrupts are     *)
(* enabled, so Tick is weakly fair.  A process made current runs the few   *)
(* instructions of its keyboard_read loop long before the next tick, so    *)
(* its kernel steps are strongly fair: if it is current again and again,  *)
(* it eventually takes them.  User-level system calls and the user's keys  *)
(* and clicks get no fairness.                                             *)
(***************************************************************************)
Fairness ==
    /\ WF_vars(Step(Tick))
    /\ \A p \in Pids \ {KERNEL} :
          SF_vars(Step(current = p /\ (ReadTest \/ ReadCopy)))

Spec == Init /\ [][Next]_vars /\ Fairness

-----------------------------------------------------------------------------
(***************************************************************************)
(* Properties                                                              *)
(***************************************************************************)

TypeOK ==
    /\ queue \in Seq(Pids)
    /\ status \in [Pids -> {"active", "idle"}]
    /\ parent \in [Pids -> Pids \cup {NoPid}]
    /\ term \in [Pids -> Terms \cup {NoTerm}]
    /\ vidmapFlag \in [Pids -> BOOLEAN]
    /\ pages \in [Pids -> PageDirs]
    /\ pc \in [Pids -> PCs]
    /\ {current, running, cr3} \subseteq Pids
    /\ curTerm \in Terms
    /\ procInTerm \in [Terms -> Pids \cup {NoPid}]
    /\ readFlag \in [Terms -> BOOLEAN]
    /\ readFrom \in [Pids -> Terms \cup {NoTerm}]
    /\ hung \in BOOLEAN

\* The runqueue holds each live process exactly once (new_process's
\* "largest pid + 1" never hands out the pid, and so the PCB, kernel
\* stack and page directory, of a process that is still in the queue), and
\* syscall_halt removes exactly the process that ends.
QueueHoldsLive ==
    /\ IsInjective(queue)
    /\ Live = {p \in Pids : pc[p] # "none"}

\* The execute chains: every live process has a live parent; a parent
\* other than the kernel sits in syscall_execute in the same terminal; and
\* a process is active exactly when no child runs on top of it
\* (syscall_execute idles the parent, syscall_halt reactivates it).
ExecChain ==
    \A p \in Live \ {KERNEL} :
        /\ parent[p] \in Live
        /\ parent[p] # KERNEL =>
              pc[parent[p]] = "exec_wait" /\ term[parent[p]] = term[p]
        /\ status[p] = "active" <=> ~\E c \in Live : parent[c] = p

\* process_in_terminal names, for each terminal, the one active process
\* running in it (the top of its execute chain), and names no process or
\* the kernel for a terminal where nothing runs, which new_terminal may
\* then hand to a new shell.
TerminalOwner ==
    \A t \in Terms :
        LET inT == {p \in Live \ {KERNEL} : term[p] = t}
        IN  IF inT = {}
              THEN procInTerm[t] \in {NoPid, KERNEL}
              ELSE {p \in inT : status[p] = "active"} = {procInTerm[t]}

\* schedule() only ever makes an active task current: a process waiting in
\* syscall_execute never runs, and the kernel is current only at boot or
\* in its hlt loop.
IdleNeverRuns ==
    ~Stopped =>
        \/ status[current] = "active"
        \/ current = KERNEL /\ pc[KERNEL] \in {"boot", "hlt"}

\* A process in keyboard_read whose line is ready on the shown terminal
\* eventually returns from the read, unless the line is taken away (the
\* user switches terminal or another read consumes it) or the kernel stops.
\* This needs schedule()'s round robin to come back to the reader.
ReadCompletes ==
    \A p \in Pids \ {KERNEL} :
        (pc[p] \in {"read_test", "read_copy"} /\ Ready(p))
            ~> (pc[p] = "user" \/ ~Ready(p) \/ Stopped)

\* spec.md 4.4: schedule() picks the next runnable task and returns.  The
\* scheduler never spins (violated: the loop bound is unsigned).
SchedulerNeverHangs == ~hung

\* After a failed kernel_spawn, current_process still names the process
\* whose context the CPU runs (violated: task.c:217 returns early).
CurrentIsRunning == current = running

\* A process running in user mode, or copying a line into its user buffer
\* in keyboard_read, does so in its own address space (violated:
\* kernel_spawn leaves the new shell's page directory loaded).
OwnAddressSpace ==
    pc[running] \in {"user", "read_copy"} => cr3 = running

\* kernel_spawn, run from the mouse interrupt on top of whatever process
\* was running, returns to that process with its context intact:
\* current_process names it and its own page directory is loaded
\* (violated twice: task.c:217 returns early without restoring
\* current_process, and task.c:222 restores it without load_pages).
SpawnRestoresContext == CurrentIsRunning /\ OwnAddressSpace

\* The CPU is handed on correctly: a timer tick's schedule() returns
\* (SchedulerNeverHangs), and a Start click returns from kernel_spawn to the
\* interrupted process with its context (SpawnRestoresContext).  Violated
\* three ways: task.c:456's unsigned loop bound, and task.c:217 and 222.
CpuHandedOn == SchedulerNeverHangs /\ SpawnRestoresContext

\* The page at MB(256) of a running user process is video memory when its
\* terminal is shown and its terminal's backing page otherwise, as
\* switch_terminals arranges (violated: vidmap maps VIDEO from a background
\* terminal, and mappings survive execute/halt and pid reuse).
VidmapFollowsFocus ==
    LET p == running
    IN  (pc[p] = "user" /\ VidPage(p) # NoPage) =>
            VidPage(p) = IF curTerm = term[p] THEN Video ELSE Backing(term[p])

\* A process that has called vidmap can still write through virtual
\* MB(256) in user mode, after any number of terminal switches: both the
\* directory entry and the page-table entry behind it keep the U/S bit.
\* switch_terminals remaps the page with KernelPrivilege; this holds only
\* because map_4kb_page writes the flags 0x1F whatever the privilege.
VidmapStaysWritable ==
    \A p \in Pids :
        vidmapFlag[p] =>
            /\ pages[p].dir # NoTable
            /\ pages[p].dirUser
            /\ pages[p].pt[pages[p].dir].user

\* Virtual address 0 stays unmapped in every page directory, so a NULL
\* pointer dereference faults (refuted: switch_terminals passes page table
\* 0, the kernel's 0-4MB table, to map_4kb_page, which points directory
\* entry 64 at it and writes the screen page into its entry 0, which is
\* also the entry for virtual address 0).
NullPageUnmapped ==
    \A p \in Pids : pages[p].pt[0].page = NoPage

\* keyboard_read returns a line typed on the reader's own terminal
\* (violated: the loop condition is tested with interrupts on, then the
\* line of whatever terminal is shown after the cli() is copied).
ReadOwnLine ==
    \A p \in Pids : readFrom[p] \in {NoTerm, term[p]}

\* A process sees only its own terminal, and mapping its window never
\* maps virtual address 0: keyboard_read returns a line typed on the
\* reader's terminal (ReadOwnLine), the window at MB(256) shows the running
\* process's own terminal (VidmapFollowsFocus), and virtual address 0 stays
\* unmapped (NullPageUnmapped).  Violated three ways: keyboard.c:675 tests
\* the loop condition with interrupts on, syscall.c:401 maps VIDEO from a
\* background terminal, and keyboard.c:937 hands map_4kb_page the kernel's
\* page table 0.
TerminalIsolation == ReadOwnLine /\ VidmapFollowsFocus /\ NullPageUnmapped

=============================================================================
