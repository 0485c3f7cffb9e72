\* The console on a screen of 3 x 3 character cells (the code's 8 x 16 font
\* on a 24 x 48 pixel screen), two printable characters and '\n': enough
\* for rows to wrap, to fill the screen and to scroll, over every initial
\* content of the framebuffer.
CONSTANTS
    SCREEN_RESOLUTION_WIDTH = 24
    SCREEN_RESOLUTION_HEIGHT = 48
    SCREEN_FONT_WIDTH = 8
    SCREEN_FONT_HEIGHT = 16
    Printable = {a, b}
    NEWLINE = NEWLINE

SPECIFICATION Spec

INVARIANTS
    TypeOK
    ScreenShowsConsole
