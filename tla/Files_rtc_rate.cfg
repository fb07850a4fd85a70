CONSTANTS
    MAX_PROCESSES <- MC_MAX_PROCESSES
    MAX_FILES <- MC_MAX_FILES
    BLOCK_SIZE <- MC_BLOCK_SIZE
    DENTRIES <- MC_DENTRIES
    FILE_HEADER_SIZE <- MC_FILE_HEADER_SIZE
    EXEC_NAMES <- MC_EXEC_NAMES
    READ_SIZES <- MC_READ_SIZES
    MAX_USERS <- MC_MAX_USERS
    MAX_DIR_POS <- MC_MAX_DIR_POS
    WRITE_ARGS <- MC_WRITE_ARGS_RATE
SPECIFICATION Spec
INVARIANT
    RtcRunsAtMaxInUse
