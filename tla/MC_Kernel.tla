------------------------------ MODULE MC_Kernel ------------------------------
(***************************************************************************)
(* Model values for Kernel: pids 0..2 (the kernel and two processes), two *)
(* terminals and one boot shell.  Three pids let a shell execute a child   *)
(* or a second shell be spawned, so pid reuse, two active tasks in the     *)
(* round robin and a refused spawn all occur.                              *)
(***************************************************************************)
EXTENDS Kernel

MC_MAX_PROCESSES == 3
MC_NUM_TERMINALS == 2
MC_BOOT_SHELLS == 1

=============================================================================
