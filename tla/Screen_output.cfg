CONSTANTS
    t1 = t1
    t2 = t2
    NUM_COLS <- MC_NUM_COLS
    NUM_ROWS <- MC_OUT_NUM_ROWS
    MAX_SCROLLBACK_OFFSET <- MC_OUT_MAX_SCROLLBACK_OFFSET
    TERMS <- MC_TERMS
    CHARS <- MC_CHARS
    MAX_HALTS <- MC_MAX_HALTS

SPECIFICATION Spec

SYMMETRY Symmetry

PROPERTY
    ScreenKeepsOwnOutput
