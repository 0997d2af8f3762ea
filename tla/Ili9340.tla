------------------------------ MODULE Ili9340 ------------------------------
(***************************************************************************)
(* The driver of the display, minerMaster/ILI9340/ILI9340.c, as far as     *)
(* minerMaster calls it, and (external) the panel behind it: what it makes *)
(* of the bytes it is sent.  Every operator is a call of the driver: it    *)
(* takes the panel as it is and returns it as the call leaves it.          *)
(*                                                                         *)
(* What is on the panel is a set of marks: a mark is a character that can  *)
(* be read there, at its left and upper edge and in its colour.  Drawing   *)
(* over part of a mark makes it unreadable, and it is gone.                *)
(***************************************************************************)
EXTENDS Integers, Sequences

CONSTANTS Width, Height   \* ILI9340_TFTWIDTH, ILI9340_TFTHEIGHT

GlyphWidth  == 9
GlyphHeight == 16
TextOffset  == 10

ASSUME PanelAssumption == Width \in Nat \ {0} /\ Height \in Nat \ {0}

NUL   == <<"NUL", 0>>     \* a byte 0 in a text
Space == <<" ", 0>>

-----------------------------------------------------------------------------
(* The panel *)

\* At power-on the memory of the panel holds anything.
Noise   == {<<x, y, <<"noise", 0>>, "white">> : x \in {0, Width - GlyphWidth}, y \in {0, Height - GlyphHeight}}
Powered == [columns |-> <<0, 0>>, pages |-> <<0, 0>>, awake |-> FALSE, on |-> FALSE, pixel |-> 18,
            ram |-> Noise]

\* The marks that the window of p does not touch
Beside(p) == {m \in p.ram : \/ m[1] + GlyphWidth <= p.columns[1] \/ p.columns[2] < m[1]
                           \/ m[2] + GlyphHeight <= p.pages[1] \/ p.pages[2] < m[2]}

Extent(range) == range[2] - range[1] + 1

\* A command with its data
Receive(p, command, data) ==
  CASE command = "CASET"  -> [p EXCEPT !.columns = data]
    [] command = "PASET"  -> [p EXCEPT !.pages = data]
    [] command = "PIXFMT" -> [p EXCEPT !.pixel = IF data = <<85>> THEN 16 ELSE @]
    [] command = "SLPOUT" -> [p EXCEPT !.awake = TRUE]
    [] command = "DISPON" -> [p EXCEPT !.on = TRUE]
    [] OTHER -> p

\* RAMWR and n pixels of 16 bits.  A character is readable when its pixels fill its
\* window and the window is on the panel; anything else leaves nothing to read.
ReceivePixels(p, n, mark) ==
  IF ~p.awake \/ p.pixel # 16 THEN p
  ELSE [p EXCEPT !.ram = Beside(p) \cup
         IF /\ Extent(p.columns) = GlyphWidth /\ Extent(p.pages) = GlyphHeight
            /\ n = GlyphWidth * GlyphHeight
            /\ p.columns[2] < Width /\ p.pages[2] < Height
         THEN {<<p.columns[1], p.pages[1], m[1], m[2]>> : m \in mark} ELSE {}]

-----------------------------------------------------------------------------
(* The driver *)

\* ILI9340_WriteCommand, and ILI9340_WriteData or ILI9340_WriteDataBytes for its
\* data: CS is low for each of them, DC low for the command alone.
Write(p, command, data) == Receive(p, command, data)

\* ILI9340_Initialize, of whose commands three make a difference here; the others set
\* voltages, gamma curves, the frame rate and the direction of the panel.
Initialize(p) == Write(Write(Write(p, "PIXFMT", <<85>>), "SLPOUT", <<>>), "DISPON", <<>>)

\* The reset line goes down and up again; what is in the memory stays.
Reset(p) == Initialize([p EXCEPT !.awake = FALSE, !.on = FALSE, !.pixel = 18])

SetAddressWindow(p, x1, y1, x2, y2) == Write(Write(p, "CASET", <<x1, x2>>), "PASET", <<y1, y2>>)

\* FillRect, in the background colour
FillRect(p, x, y, w, h) == IF w = 0 \/ h = 0 THEN p
  ELSE ReceivePixels(SetAddressWindow(p, x, y, x + w - 1, y + h - 1), w * h, {})

FillScreen(p) == FillRect(p, 0, 0, Width, Height)

\* getCharAddress: what the font does not have is drawn as a space.
Glyph(c) == IF c = NUL THEN Space ELSE c

\* DrawChar: 16 lines of 8 pixels and 1
DrawChar(p, x, y, c, ink) ==
  ReceivePixels(SetAddressWindow(p, x, y, x + GlyphWidth - 1, y + GlyphHeight - 1),
         GlyphHeight * (8 + 1), {<<Glyph(c), ink>>})

\* DrawCharString: the next character, when the first n of the text are drawn
DrawNext(p, x, y, text, n, ink) == DrawChar(p, x + TextOffset * n, y, text[n + 1], ink)
=============================================================================
