CONSTANTS
    BUFFER_SIZE <- MC_BUFFER_SIZE
    MAX_HISTORY_CMDS <- MC_MAX_HISTORY_CMDS
    MAX_EXECUTABLES <- MC_MAX_EXECUTABLES
    CHARS <- MC_CHARS
    DIR <- MC_DIR
    MODS <- MC_MODS
    Garbage = Garbage
    GARBAGE <- Garbage
SPECIFICATION Spec
PROPERTIES
    LineEditsPerSpec
