CONSTANTS
    MAX_PROCESSES <- MC_MAX_PROCESSES
    NUM_TERMINALS <- MC_NUM_TERMINALS
    BOOT_SHELLS <- MC_BOOT_SHELLS
SPECIFICATION Spec
INVARIANT
    TerminalIsolation
