----------------------------- MODULE LcdConsole -----------------------------
(***************************************************************************)
(* The log of minerMaster on its display: set_lcd_print_info keeps a       *)
(* result in a ring of entries, set_lcd_print_log draws the ring, oldest   *)
(* first.  Core 0 calls both in RESULT_UPDATE, one behind the other; a     *)
(* watchdog reboot may come between any two characters that are drawn.     *)
(*                                                                         *)
(* An entry is 25 bytes of text fields without room between them, and a    *)
(* text is written with the NUL behind it: a text as long as its field     *)
(* reaches into the next one.                                              *)
(***************************************************************************)
EXTENDS Ili9340

CONSTANTS Entries,   \* LCD_DUINO_INFO_MEM_ARR_SIZE
          Results    \* [name, good, len]: a result, and the length of each of its numbers

Field  == {"index", "result", "hashrate", "elapsed", "difficulty"}
Offset == [index |-> 0, result |-> 2, hashrate |-> 6, elapsed |-> 12, difficulty |-> 18]
Room   == [index |-> 2, result |-> 4, hashrate |-> 6, elapsed |-> 6, difficulty |-> 7]
Bytes  == 0..24

\* A client has at most two digits, a hash rate is below 100 KH/s, a difficulty
\* below 10^6 (the difficulties of such slow miners), a time below 1000 s.
ASSUME ConsoleAssumption ==
  /\ Entries \in Nat \ {0}
  /\ \A r \in Results : /\ r.good \in BOOLEAN
                        /\ r.len.index \in 1..2 /\ r.len.hashrate \in 4..5
                        /\ r.len.difficulty \in 1..6 /\ r.len.elapsed \in 4..6

VARIABLES
  lcd,       \* the panel
  info,      \* g_duino_lcd_info
  newest,    \* g_lcd_newest_mem_index
  printed,   \* g_lcd_printed_line_cnt
  pc,        \* "off", in ILI9340_init, "idle", or in set_lcd_print_log: "print"
  i, start,  \* its locals: i and start_mem_cnt
  strings,   \* where ILI9340_Write_Mining_State is: 0 at its FillRect, n at its n-th string
  chars,     \* the characters of a string that are drawn
  last       \* history: the results since the reboot, the last Entries of them

vars == <<lcd, info, newest, printed, pc, i, start, strings, chars, last>>

Zeroes == [b \in Bytes |-> NUL]

Init == /\ lcd = Powered
        /\ info = [n \in 0..(Entries - 1) |-> Zeroes] /\ newest = 0 /\ printed = 1
        /\ pc = "off" /\ i = 0 /\ start = 0 /\ strings = 0 /\ chars = 0 /\ last = <<>>

Word(name, len) == [k \in 1..len |-> <<name, k>>]

\* At power-on, and whenever the watchdog has rebooted: main calls ILI9340_init.
Boot == /\ lcd' = Reset(lcd)
        /\ info' = [n \in 0..(Entries - 1) |-> Zeroes] /\ newest' = 0 /\ printed' = 1
        /\ pc' = "clear" /\ i' = 0 /\ start' = 0 /\ strings' = 0 /\ chars' = 0 /\ last' = <<>>

ClearAll == /\ pc = "clear" /\ pc' = "loading"
            /\ lcd' = FillScreen(lcd)
            /\ UNCHANGED <<info, newest, printed, i, start, strings, chars, last>>

LoadingText == Word("LODING..", 8)

Loading == /\ pc = "loading"
           /\ lcd' = DrawNext(lcd, 5, 10, LoadingText, chars, "white")
           /\ IF chars + 1 < Len(LoadingText) THEN chars' = chars + 1 /\ pc' = pc
                                              ELSE chars' = 0 /\ pc' = "idle"
           /\ UNCHANGED <<info, newest, printed, i, start, strings, last>>

-----------------------------------------------------------------------------
(* set_lcd_print_info *)

Text(r, f) == IF f = "result" THEN IF r.good THEN Word("GOOD", 4) ELSE Append(Word("BAD", 3), NUL)
              ELSE [k \in 1..r.len[f] |-> <<r.name, f, k>>]

\* itoa and sprintf: the text at its field, and a NUL
Put(entry, f, text) ==
  [b \in Bytes |-> CASE b \in Offset[f]..(Offset[f] + Len(text) - 1) -> text[b - Offset[f] + 1]
                     [] b = Offset[f] + Len(text) -> NUL
                     [] OTHER -> entry[b]]

\* memcpy: as many bytes as the field has
Copy(entry, f, text) ==
  [b \in Bytes |-> IF b \in Offset[f]..(Offset[f] + Room[f] - 1) THEN text[b - Offset[f] + 1] ELSE entry[b]]

\* Mutant of Entry: the result is copied first, and a client of two digits cuts it.
EntryResultFirst(r) ==
  LET put(e, f) == Put(e, f, Text(r, f))
  IN  put(put(put(put(Copy(Zeroes, "result", Text(r, "result")),
                      "index"), "difficulty"), "elapsed"), "hashrate")
Entry(r) ==
  LET put(e, f) == Put(e, f, Text(r, f))
  IN  Copy(put(put(put(put(Zeroes, "index"), "difficulty"), "elapsed"), "hashrate"),
           "result", Text(r, "result"))

-----------------------------------------------------------------------------
(* ILI9340_Write_Mining_State: the block of one entry *)

At(entry, f) == [k \in 1..Room[f] |-> entry[Offset[f] + k - 1]]

\* What is drawn: from where in the block, in which row, the text and its colour
Columns == [index |-> 37, result |-> 65, difficulty |-> 160, hashrate |-> 20, elapsed |-> 145]
Row     == [index |-> 0, result |-> 0, difficulty |-> 0, hashrate |-> 20, elapsed |-> 20]
Ink(text) == [index |-> "white", result |-> IF text = Word("GOOD", 4) THEN "white" ELSE "red",
              difficulty |-> "yellow", hashrate |-> "green", elapsed |-> "blue"]

Number(entry, f) == <<Columns[f], Row[f], At(entry, f), Ink(At(entry, "result"))[f]>>
Label  == [slave |-> <<5, 0, Word("Slv", 3), "white">>, diff |-> <<115, 0, Word("Diff", 4), "yellow">>,
           rate |-> <<80, 20, Word("KH/s", 4), "green">>, open |-> <<135, 20, Word("(", 1), "blue">>,
           close |-> <<205, 20, Word("s)", 2), "blue">>]
Labels == {Label[l] : l \in DOMAIN Label}

Top(n) == 50 * n + 10

\* The panel has 240 by 320 pixels, and six blocks are drawn on it.
ASSUME LayoutAssumption == Width > 228 /\ Height > Top(Entries - 1) + 20 + GlyphHeight

Drawn(entry) ==
  <<Label.slave, Number(entry, "index"), Number(entry, "result"), Label.diff, Number(entry, "difficulty"),
    Number(entry, "hashrate"), Label.rate, Label.open, Number(entry, "elapsed"), Label.close>>

-----------------------------------------------------------------------------
(* RESULT_UPDATE, and the loop of set_lcd_print_log *)

Next1(n) == IF n = Entries - 1 THEN 0 ELSE n + 1

\* Mutant of First: the ring is drawn from its newest entry.
FirstNewest == IF newest = Entries - 1 \/ printed < Entries THEN 0 ELSE newest
First == IF newest = Entries - 1 \/ printed < Entries THEN 0 ELSE newest + 1

Result(r) ==
  /\ pc = "idle"
  /\ info' = [info EXCEPT ![newest] = Entry(r)]
  /\ pc' = "print" /\ i' = 0 /\ start' = First /\ strings' = 0 /\ chars' = 0
  /\ last' = SubSeq(Append(last, r), IF Len(last) = Entries THEN 2 ELSE 1, Len(last) + 1)
  /\ UNCHANGED <<lcd, newest, printed>>

Wipe ==
  /\ pc = "print" /\ printed > i /\ strings = 0
  /\ lcd' = FillRect(lcd, 0, Top(i), 100, 16) /\ strings' = 1
  /\ UNCHANGED <<info, newest, printed, pc, i, start, chars, last>>

Draw ==
  /\ pc = "print" /\ strings \in 1..10
  /\ LET t == Drawn(info[start])[strings]
     IN  /\ lcd' = DrawNext(lcd, t[1], Top(i) + t[2], t[3], chars, t[4])
         /\ IF chars + 1 < Len(t[3]) THEN chars' = chars + 1 /\ strings' = strings
                                      ELSE chars' = 0 /\ strings' = strings + 1
  /\ UNCHANGED <<info, newest, printed, pc, i, start, last>>

NextBlock ==
  /\ pc = "print" /\ strings = 11
  /\ i' = i + 1 /\ start' = Next1(start) /\ strings' = 0
  /\ UNCHANGED <<lcd, info, newest, printed, pc, chars, last>>

LoopEnds ==
  /\ pc = "print" /\ printed = i
  /\ newest' = start /\ printed' = IF printed < Entries THEN printed + 1 ELSE printed
  /\ pc' = "idle"
  /\ UNCHANGED <<lcd, info, i, start, strings, chars, last>>

Next == Boot \/ ClearAll \/ Loading \/ Wipe \/ Draw \/ NextBlock \/ LoopEnds \/ \E r \in Results : Result(r)
Spec == Init /\ [][Next]_vars

-----------------------------------------------------------------------------
(* What a reader of the display may rely on *)

Slot(n, k) == IF n + k < Entries THEN n + k ELSE n + k - Entries
HoldsFrom(n) == \A k \in DOMAIN last : info[Slot(n, k - 1)] = Entry(last[k])

\* The ring holds the last results: when it is full, g_lcd_newest_mem_index is where
\* the oldest is, and the k-th entry from there on is the k-th of the last results
\* (set_lcd_print_info writes the entries, set_lcd_print_log moves the index).
RingHoldsLast ==
  pc = "idle" =>
    /\ printed = (IF Len(last) < Entries THEN Len(last) + 1 ELSE Entries)
    /\ Len(last) < Entries => newest = Len(last)
    /\ HoldsFrom(IF Len(last) < Entries THEN 0 ELSE newest)

\* How a text of a result is to be read: all its characters, then spaces
Reads(r, f) == [k \in 1..Room[f] |-> IF k > Len(Text(r, f)) THEN Space ELSE Glyph(Text(r, f)[k])]

Marks(x, y, text, ink) == {<<x + TextOffset * (k - 1), y, text[k], ink>> : k \in DOMAIN text}

Block(y, r) ==
  UNION ({Marks(l[1], y + l[2], l[3], l[4]) : l \in Labels}
         \cup {Marks(Columns[f], y + Row[f], Reads(r, f), Ink(Text(r, "result"))[f]) : f \in Field})

\* The time fits into its field with the NUL behind it: it is below 100 s.
Fits(r) == Len(Text(r, "elapsed")) < Room["elapsed"]

\* The places the property lets off: where the first digit of a difficulty is drawn,
\* when the NUL behind the time may have taken it away.
LetOff   == {<<Columns["difficulty"], Top(n - 1) + Row["difficulty"]>> : n \in {k \in DOMAIN last : ~Fits(last[k])}}
Sure(ms) == {m \in ms : <<m[1], m[2]>> \notin LetOff}

\* Once a result is drawn the display shows the last results, oldest first, each text
\* complete and in its own place, and nothing else: no character of an older result,
\* of the text before the first one or of a neighbour is left (set_lcd_print_log,
\* ILI9340_Write_Mining_State, ILI9340_DrawChar).  Only where the time of a result is
\* 100 s or more nothing is said of the first digit of its difficulty: it is lost.
LinesAreLast ==
  pc = "idle" /\ last # <<>> =>
    Sure(lcd.ram) = Sure(UNION {Block(Top(n - 1), last[n]) : n \in DOMAIN last})
=============================================================================
