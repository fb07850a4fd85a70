CONSTANTS
    NUM_COLS <- MC_NUM_COLS
    VIDEO_ROWS <- MC_VIDEO_ROWS
    X_SCALE <- MC_X_SCALE
    Y_SCALE <- MC_Y_SCALE
    DX <- MC_DX
    DY <- MC_DY
    MAX_PACKETS <- MC_MAX_PACKETS
    ATTRS = {ATTRIB, CURSOR_ATTRIB}
    MOUSE_CURSOR = MOUSE_CURSOR
SPECIFICATION Spec
INVARIANT
    MouseReflectsInput
