------------------------------- MODULE Video -------------------------------
(***************************************************************************)
(* The text console of devices/video.c on the framebuffer set up by        *)
(* devices/framebuffer.c.  The cursor (screen.x_position, y_position) is   *)
(* kept in pixels as in the code; the screen is abstracted to its          *)
(* character cells, indexed <<column, row>>, since every drawing call      *)
(* covers exactly one cell or one row of cells (the cursor only moves by   *)
(* whole font widths and heights).  A cell is Blank, shows one character,  *)
(* holds Junk (whatever the GPU memory held at boot), or is Garbled (a     *)
(* glyph drawn over pixels that were not clean).  Two writers share the    *)
(* console: a thread's printf, whose video_putc is split at its statements *)
(* around the IRQ mask, and the printf of schedule() and                   *)
(* thread_schedule_tail from IRQ context, whose whole video_putc is one    *)
(* step.  VIDEO_MEMORY_COPY_METHOD is 0, so video_new_line is              *)
(* video_new_line_fastest.                                                 *)
(*                                                                         *)
(* `shown` is not a variable of the code: it is the reference the screen   *)
(* is checked against, the rows of text the console should display.       *)
(***************************************************************************)
EXTENDS Naturals, Sequences, SequencesExt

CONSTANTS
    SCREEN_RESOLUTION_WIDTH,   \* pixels, scaled down from 800
    SCREEN_RESOLUTION_HEIGHT,  \* pixels, scaled down from 480
    SCREEN_FONT_WIDTH,
    SCREEN_FONT_HEIGHT,
    Printable,                 \* characters other than '\n' passed to putc
    NEWLINE                    \* '\n'

\* screen.h: the resolution is a whole number of character cells
ASSUME /\ SCREEN_RESOLUTION_WIDTH % SCREEN_FONT_WIDTH = 0
       /\ SCREEN_RESOLUTION_HEIGHT % SCREEN_FONT_HEIGHT = 0
       /\ NEWLINE \notin Printable

VARIABLES
    framebuffer,  \* the framebuffer_info pointer of framebuffer_init
    actLed,       \* the ACT led (GPIO 16) is lit
    cells,        \* the screen, cell by cell
    x, y,         \* screen.x_position, screen.y_position
    shown,        \* reference: the rows of text on the screen
    intr,         \* the CPSR I bit of the printing thread (interrupts_get_level)
    tpc,          \* where the thread is in video_putc: "idle" outside it
    tch,          \* the character it is printing
    oldLevel      \* the old_level local of its video_putc

vars == <<framebuffer, actLed, cells, x, y, shown, intr, tpc, tch, oldLevel>>

\* enum interrupts_level
ON  == "ON"
OFF == "OFF"

Blank   == "blank"
Junk    == "junk"
Garbled == "garbled"
NULL    == "null"

FW == SCREEN_FONT_WIDTH
FH == SCREEN_FONT_HEIGHT
Columns == SCREEN_RESOLUTION_WIDTH \div FW
Rows    == SCREEN_RESOLUTION_HEIGHT \div FH
Cells   == (0 .. Columns - 1) \X (0 .. Rows - 1)

\* the cell whose top left corner is the pixel (px, py)
CellAt(px, py) == <<px \div FW, py \div FH>>

\* DrawCharacter (drawing.s) sets the glyph's pixels and leaves the others
DrawCharacter(cell, c) == IF cell = Blank THEN c ELSE Garbled

\* video_clean_row(y): every cell of the text row at pixel row y blank
video_clean_row(cs, py) ==
    [c \in Cells |-> IF c[2] = py \div FH THEN Blank ELSE cs[c]]

\* faulty variant: the cell is drawn over without cleaning it first
CleanCharacterSkipped(cs, px, py) == cs

\* video_clean_character(x, y): the cell at (x, y) blank
video_clean_character(cs, px, py) == [cs EXCEPT ![CellAt(px, py)] = Blank]

\* memory_fastest_copy(src = row 1, dest = row 0, total = all rows but one):
\* every text row takes the content of the row below it; the last keeps its own
ScrollUp(cs) ==
    [c \in Cells |-> IF c[2] < Rows - 1 THEN cs[<<c[1], c[2] + 1>>] ELSE cs[c]]

\* faulty variant: the screen scrolls but its last row is not cleaned
NewLineNoClean(cs, px, py) ==
    LET new_y == py + FH
    IN  IF new_y + FH > SCREEN_RESOLUTION_HEIGHT
        THEN [cells |-> ScrollUp(cs), x |-> 0, y |-> py]
        ELSE [cells |-> cs, x |-> 0, y |-> new_y]

\* video_new_line_fastest: down one text row; on the last row, scroll the
\* screen up one row and clean the last row instead.  Gives the screen and
\* the cursor after it.
video_new_line(cs, px, py) ==
    LET new_y == py + FH
    IN  IF new_y + FH > SCREEN_RESOLUTION_HEIGHT
        THEN [cells |-> video_clean_row(ScrollUp(cs), py), x |-> 0, y |-> py]
        ELSE [cells |-> cs, x |-> 0, y |-> new_y]

\* faulty variant: wraps only once the cursor itself is past the edge
CalculateNewPositionLate(cs, px, py) ==
    LET new_x == px + FW
    IN  IF new_x > SCREEN_RESOLUTION_WIDTH
        THEN video_new_line(cs, px, py)
        ELSE [cells |-> cs, x |-> new_x, y |-> py]

\* video_calculate_new_position: one cell right, or a new line when the
\* next character would not fit on this row
video_calculate_new_position(cs, px, py) ==
    LET new_x == px + FW
    IN  IF new_x + FW > SCREEN_RESOLUTION_WIDTH
        THEN video_new_line(cs, px, py)
        ELSE [cells |-> cs, x |-> new_x, y |-> py]

(***************************************************************************)
(* The reference console: a list of text rows, a new one after '\n' and    *)
(* after a row has filled the width of the screen; the screen displays the *)
(* last Rows of them.                                                      *)
(***************************************************************************)
AddChar(rows, c) ==
    IF c = NEWLINE
    THEN Append(rows, <<>>)
    ELSE LET row == Append(Last(rows), c)
             filled == [rows EXCEPT ![Len(rows)] = row]
         IN  IF Len(row) = Columns THEN Append(filled, <<>>) ELSE filled

OnScreen(rows) == IF Len(rows) > Rows THEN Tail(rows) ELSE rows

(***************************************************************************)
(* framebuffer_init then video_init (init.c): when InitialiseFrameBuffer   *)
(* gets no framebuffer, GPIO 16 is made an output and driven low, which    *)
(* lights the ACT led, and the kernel spins forever.  Otherwise the cursor *)
(* starts at the top left corner of a screen nobody has cleared.           *)
(***************************************************************************)
\* gpio_enable_function(16, 1); gpio_set_register(16, 0): GPIO 16 an
\* output, driven low, which is what lights the ACT led
gpio_set_register(value) == value = 0

\* InitialiseFrameBuffer (frameBufferInfo.s) may or may not get a framebuffer
FramebufferInit == {"allocated", NULL}

Init ==
    /\ framebuffer \in FramebufferInit
    /\ actLed = IF framebuffer = NULL THEN gpio_set_register(0) ELSE FALSE
    /\ cells \in [Cells -> {Blank, Junk}]
    /\ x = 0
    /\ y = 0
    /\ shown = <<<<>>>>
    /\ intr = ON
    /\ tpc = "idle"
    /\ tch = NEWLINE
    /\ oldLevel = ON

\* while(true): the kernel never gets past framebuffer_init
Hang ==
    /\ framebuffer = NULL
    /\ UNCHANGED vars

(***************************************************************************)
(* video_putc(character) in two parts: the cell drawn (nothing for '\n'),  *)
(* then the cursor moved (video_calculate_new_position, or video_new_line  *)
(* for '\n'), which may scroll.  Each gives the screen after it.           *)
(***************************************************************************)
Drawn(c) ==
    LET here    == CellAt(x, y)
        cleaned == video_clean_character(cells, x, y)
    IN  IF c = NEWLINE THEN cells
        ELSE [cleaned EXCEPT ![here] = DrawCharacter(cleaned[here], c)]

Moved(cs, c) ==
    IF c = NEWLINE THEN video_new_line(cs, x, y)
    ELSE video_calculate_new_position(cs, x, y)

(***************************************************************************)
(* A thread's video_putc (printf from init.c's tasks): IRQs are masked     *)
(* first and the caller's level restored last, so that an IRQ handler that *)
(* prints cannot run between the drawing and the cursor update.            *)
(***************************************************************************)
\* faulty variant: video_putc without its interrupts_disable
PutcEnterNoMask(c) ==
    /\ tpc = "idle"
    /\ framebuffer # NULL
    /\ tpc' = "draw"
    /\ tch' = c
    /\ oldLevel' = intr
    /\ UNCHANGED <<intr, framebuffer, actLed, cells, x, y, shown>>

\* old_level = interrupts_disable ()
PutcEnter(c) ==
    /\ tpc = "idle"
    /\ framebuffer # NULL
    /\ tpc' = "draw"
    /\ tch' = c
    /\ oldLevel' = intr
    /\ intr' = OFF
    /\ UNCHANGED <<framebuffer, actLed, cells, x, y, shown>>

\* video_clean_character and DrawCharacter at the cursor
PutcDraw ==
    /\ tpc = "draw"
    /\ tpc' = "move"
    /\ cells' = Drawn(tch)
    /\ UNCHANGED <<framebuffer, actLed, x, y, shown, intr, tch, oldLevel>>

\* video_calculate_new_position, or video_new_line for '\n'
PutcMove ==
    LET after == Moved(cells, tch)
    IN  /\ tpc = "move"
        /\ tpc' = "leave"
        /\ cells' = after.cells
        /\ x' = after.x
        /\ y' = after.y
        /\ shown' = OnScreen(AddChar(shown, tch))
        /\ UNCHANGED <<framebuffer, actLed, intr, tch, oldLevel>>

\* interrupts_set_level (old_level)
PutcLeave ==
    /\ tpc = "leave"
    /\ tpc' = "idle"
    /\ intr' = oldLevel
    /\ UNCHANGED <<framebuffer, actLed, cells, x, y, shown, tch, oldLevel>>

(***************************************************************************)
(* An IRQ taken while IRQs are on whose handler prints: schedule() and     *)
(* thread_schedule_tail call printf when the timer IRQ yields on return.   *)
(* In IRQ mode IRQs stay masked, so its whole video_putc is one step.      *)
(***************************************************************************)
IrqPutc(c) ==
    LET after == Moved(Drawn(c), c)
    IN  /\ intr = ON
        /\ framebuffer # NULL
        /\ cells' = after.cells
        /\ x' = after.x
        /\ y' = after.y
        /\ shown' = OnScreen(AddChar(shown, c))
        /\ UNCHANGED <<framebuffer, actLed, intr, tpc, tch, oldLevel>>

Next ==
    \/ Hang
    \/ \E c \in Printable \cup {NEWLINE} : PutcEnter(c) \/ IrqPutc(c)
    \/ PutcDraw \/ PutcMove \/ PutcLeave

Spec == Init /\ [][Next]_vars

-----------------------------------------------------------------------------

TypeOK ==
    /\ framebuffer \in {"allocated", NULL}
    /\ actLed \in BOOLEAN
    /\ cells \in [Cells -> {Blank, Junk, Garbled} \cup Printable]
    /\ x \in {FW * i : i \in 0 .. Columns - 1}
    /\ y \in {FH * j : j \in 0 .. Rows - 1}
    /\ shown \in Seq(Seq(Printable))
    /\ intr \in {ON, OFF} /\ oldLevel \in {ON, OFF}
    /\ tpc \in {"idle", "draw", "move", "leave"}
    /\ tch \in Printable \cup {NEWLINE}

(***************************************************************************)
(* Whenever no video_putc is between its drawing and its cursor update,    *)
(* after any interleaving of thread and IRQ-context printing, the screen   *)
(* shows the last rows of the text written, wrapped at the screen width:   *)
(* every character in its own cell, never garbled by what the cell held,   *)
(* no character left over where no text belongs (after a scroll, in        *)
(* particular), and the cursor just after the last character.              *)
(***************************************************************************)
ScreenShowsConsole ==
    framebuffer # NULL /\ tpc # "move" =>
        /\ \A c \in Cells :
              IF c[2] < Len(shown) /\ c[1] < Len(shown[c[2] + 1])
              THEN cells[c] = shown[c[2] + 1][c[1] + 1]
              ELSE cells[c] \in {Blank, Junk}
        /\ x = FW * Len(Last(shown))
        /\ y = FH * (Len(shown) - 1)

=============================================================================
