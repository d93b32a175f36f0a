------------------------------ MODULE LogScreen ------------------------------
(***************************************************************************)
(* The log on the screen (loader/debugscreen.c with gpu.c): the GPU's      *)
(* memory pixel row by pixel row, what the drawing commands do to it, and  *)
(* the buffers the lines are formatted in.                                 *)
(*                                                                         *)
(* A pixel row holds the set of what has been drawn in its columns from    *)
(* LOG_MARGIN on since they were last filled: a texture's black is         *)
(* transparent, so text drawn over text leaves both.  A line of text is    *)
(* opaque but for its length.                                              *)
(***************************************************************************)
EXTENDS Integers, Sequences, FiniteSets

CONSTANTS Messages,      \* what mini_vsprintf makes of the calls: [text, length]
          LogLines,      \* LOG_LINES, 22
          ScreenHeight,  \* SCREEN_HEIGHT, 480
          SignBit,       \* 2^31, the sign of an int
          MaxRepeats     \* bound on equal lines in a row

CharHeight == 15         \* CHAR_HEIGHT
LogStartY == 80          \* LOG_START_Y
LineHeight == 16         \* LOG_LINE_HEIGHT

(* Seeded fault: room for the longest line, but not for its counter.       *)
BufferSizeTight == 50

BufferSize == 64         \* formatted, formatted_repeated, last_printed_line

(* "Loading executable (%d bytes @ %x)" with two numbers of full width.    *)
(* What other calls insert is shorter: the name of the executable as long  *)
(* as it fits the 32 bytes of bootfilebuf, the BIOS's version and the      *)
(* drive's region as the hardware has them.                                *)
LongestLine == 49

ASSUME MessagesAssumption ==
    \A m \in Messages :
        /\ m = [text |-> m.text, length |-> m.length]
        /\ m.text # "" /\ m.length \in 1 .. LongestLine
        /\ \A n \in Messages : n.text = m.text => n = m
ASSUME LogLinesAssumption == LogLines \in Nat \ {0}
ASSUME ScreenHeightAssumption ==
    ScreenHeight \in Nat /\ LogStartY + LogLines * LineHeight <= ScreenHeight
ASSUME SignBitAssumption == SignBit \in Nat \ {0}
ASSUME SignBitWidth == SignBit - 1 <= 2147483647
ASSUME MaxRepeatsAssumption == MaxRepeats \in 0 .. SignBit + (SignBit - 1)

VARIABLES
    rows,     \* what each pixel row of the screen shows
    gpu,      \* pal: the standard; on: the display is enabled; area: the rows
              \* the drawing area lets through; texpage: textures come from the
              \* page the font is in
    last      \* last_printed_line and last_printed_count

vars == <<rows, gpu, last>>

PixelRows == 0 .. ScreenHeight - 1

NoLine == [text |-> "", length |-> 0]

(* The game's picture; debug_init has not run.                             *)
Init ==
    /\ rows = [y \in PixelRows |-> {<<"picture", 1, y>>}]
    /\ \E pal \in BOOLEAN :
          gpu = [pal |-> pal, on |-> FALSE, area |-> {}, texpage |-> FALSE]
    /\ last = [line |-> NoLine, count |-> 0]
-----------------------------------------------------------------------------
(* gpu.c                                                                   *)

(* Memory to memory; the drawing area does not matter.                     *)
gpu_copy_rectangle(r, src, dst, height) ==
    [y \in PixelRows |->
        IF y \in dst .. dst + height - 1 THEN r[src + (y - dst)] ELSE r[y]]

gpu_draw_solid_rect(r, g, top, height, color) ==
    [y \in PixelRows |->
        IF y \in top .. top + height - 1 /\ y \in g.area THEN color ELSE r[y]]

(* A texture; its black lets through what is there.  From another page     *)
(* comes whatever is in the memory.                                        *)
Texture(g, image) == IF g.texpage THEN image ELSE <<"anything", 1>>

gpu_draw_tex_rect(r, g, top, height, image) ==
    [y \in PixelRows |->
        IF y \in top .. top + height - 1 /\ y \in g.area
        THEN r[y] \cup {<<Texture(g, image)[1], Texture(g, image)[2], y - top>>}
        ELSE r[y]]

(* Both corners are inside the area.                                       *)
gpu_set_drawing_area(g, top, height) ==
    [g EXCEPT !.area = top .. top + height - 1]

(* The reset turns the display off, closes the drawing area and forgets    *)
(* the page of the textures.                                               *)
gpu_reset(g) == [g EXCEPT !.on = FALSE, !.area = {}, !.texpage = FALSE]

gpu_display_mode(g, pal) == [g EXCEPT !.pal = pal]

gpu_display_enable(g) == [g EXCEPT !.on = TRUE]

(* The page, and a window that lets the whole of it through.               *)
gpu_texture_page(g) == [g EXCEPT !.texpage = TRUE]
-----------------------------------------------------------------------------
(* debugscreen.c                                                           *)

debug_text_at(r, g, top, text, times) ==
    gpu_draw_tex_rect(r, g, top, CharHeight, <<text, times>>)

debug_switch_standard(g, pal) ==
    gpu_texture_page(gpu_display_enable(
        gpu_set_drawing_area(gpu_display_mode(gpu_reset(g), pal), 0, ScreenHeight)))

Black == {}
White == {<<"border", 1, 0>>}

(* bios_is_european picks the standard.                                    *)
DebugInit ==
    /\ ~gpu.on
    /\ \E pal \in BOOLEAN :
          LET g       == debug_switch_standard(gpu, pal)
              cleared == gpu_draw_solid_rect(rows, g, 0, ScreenHeight, Black)
              title   == debug_text_at(cleared, g, 40, "tonyhax", 1)
              band    == gpu_draw_solid_rect(title, g, 65, 2, White)
              website == debug_text_at(band, g, 40, "orca.pet", 1)
          IN  gpu' = g /\ rows' = gpu_draw_tex_rect(website, g, 40, 20, <<"orca", 1>>)
    /\ UNCHANGED last

LineY(line) == LogStartY + LineHeight * line

(* Seeded faults: bottom up, every line becomes the last one; one line     *)
(* too many.                                                               *)
ScrolledUpwards(r) ==
    LET after[line \in 1 .. LogLines] ==
            IF line = LogLines THEN r
            ELSE gpu_copy_rectangle(after[line + 1], LineY(line), LineY(line - 1),
                                    LineHeight)
    IN  after[1]

ScrolledOneMore(r) ==
    LET after[line \in 0 .. LogLines - 1] ==
            gpu_copy_rectangle(IF line = 0 THEN r ELSE after[line - 1],
                               LineY(line), LineY(line - 1), LineHeight)
    IN  after[LogLines - 1]

(* The loop over the lines, from the top.                                  *)
Scrolled(r) ==
    LET after[line \in 0 .. LogLines - 1] ==
            IF line = 0 THEN r
            ELSE gpu_copy_rectangle(after[line - 1], LineY(line), LineY(line - 1),
                                    LineHeight)
    IN  after[LogLines - 1]

(* The digits of a number of 32 bits: one more from every power of ten on. *)
DigitsOf(n) == 1 + Cardinality({k \in 1 .. 9 : 10 ^ k <= n})

(* What %d writes for the counter, which is unsigned: from the sign bit on *)
(* it is taken for a negative number.                                      *)
CounterChars(count) ==
    IF count < SignBit THEN DigitsOf(count)
                       ELSE 1 + DigitsOf(SignBit - (count - SignBit))

(* "%s (x%d)" and its terminator.                                          *)
RepeatedBytes(line, count) == line.length + 4 + CounterChars(count) + 1

debug_write(m) ==
    LET again  == last.line = m
        count  == IF again THEN last.count + 1 ELSE 1
        moved  == IF again THEN rows ELSE Scrolled(rows)
        bottom == LineY(LogLines - 1)
        clear  == gpu_draw_solid_rect(moved, gpu, bottom, CharHeight, Black)
    IN  /\ last' = [line |-> m, count |-> count]
        /\ rows' = debug_text_at(clear, gpu, bottom, m.text, count)
        /\ UNCHANGED gpu

DebugWrite ==
    /\ gpu.on
    /\ \E m \in Messages :
          /\ last.line = m => last.count < MaxRepeats
          /\ debug_write(m)

(* try_boot_cd, for the game's region.                                     *)
SwitchStandard ==
    /\ gpu.on
    /\ gpu' = debug_switch_standard(gpu, ~gpu.pal)
    /\ UNCHANGED <<rows, last>>

Next == DebugInit \/ DebugWrite \/ SwitchStandard

Spec == Init /\ [][Next]_vars
-----------------------------------------------------------------------------
(* What can be read on the screen.                                         *)
Blank == [text |-> "", times |-> 0]
Garbled == [text |-> "", times |-> -1]
Dark == <<>>

(* A line shows a text if every row of the characters does and the row     *)
(* below them is black.                                                    *)
Read(r, line) ==
    LET row(n)  == r[LineY(line - 1) + n]
        shows   == {<<image[1], image[2]>> : image \in row(0)}
        legible == /\ Cardinality(shows) <= 1
                   /\ \A n \in 0 .. CharHeight - 1 :
                         row(n) = {<<image[1], image[2], n>> : image \in shows}
                   /\ \A n \in CharHeight .. LineHeight - 1 : row(n) = Black
    IN  IF ~legible THEN Garbled
        ELSE IF shows = {} THEN Blank
        ELSE LET image == CHOOSE i \in shows : TRUE
             IN  [text |-> image[1], times |-> image[2]]

Page == IF gpu.on THEN [line \in 1 .. LogLines |-> Read(rows, line)] ELSE Dark

Book == INSTANCE LogBook
            WITH page <- Page, standard <- IF gpu.pal THEN "PAL" ELSE "NTSC",
                 Texts <- {m.text : m \in Messages}

(* The screen is the page the user is promised, whatever is written in     *)
(* what order, scrolled however often, before and after a change of the    *)
(* video standard (debugscreen.c:200-265, 267-306).                        *)
ScreenIsBook == Book!Spec

(* The title's pictures, drawn over one another, and the white border.     *)
Heading(y) ==
    IF y \in 65 .. 66 THEN White
    ELSE {<<image, 1, y - 40>> : image \in
            {i \in {"tonyhax", "orca.pet", "orca"} :
                y \in 40 .. 40 + (IF i = "orca" THEN 20 ELSE CharHeight) - 1}}

(* Scrolling and clearing stay inside the log: title and border stand as   *)
(* debug_init has drawn them (debugscreen.c:116-132, 213-262).             *)
HeadingStands == gpu.on => \A y \in 0 .. LogStartY - 1 : rows[y] = Heading(y)

(* The one text that is too long: the longest line of all, which the       *)
(* loader never writes twice in a row, with a sign in front of ten digits. *)
TooOften(line, count) == line.length = LongestLine /\ count >= SignBit

(* No line, and no line with any counter of 32 bits, leaves the buffers of *)
(* 64 bytes, but for the longest line written 2^31 times in a row          *)
(* (debugscreen.c:81, 205-208, 240-241).                                   *)
BuffersHold ==
    /\ last.line.length + 1 <= BufferSize
    /\ \/ TooOften(last.line, last.count)
       \/ RepeatedBytes(last.line, last.count) <= BufferSize
=============================================================================
