--------------------------- MODULE MasterLoopProofs ---------------------------
(***************************************************************************)
(* What core 0 of the master does in its loop besides the conversations:   *)
(* when its clients open (OpenSchedule), and the log on the display        *)
(* (LcdConsole).  The two share no state; each is proved for itself, for   *)
(* all values of its constants.                                            *)
(***************************************************************************)
EXTENDS LcdConsole, OpenSchedule, TLAPS

(***************************************************************************)
(* THE RING OF THE LOG                                                     *)
(*                                                                         *)
(* RingHoldsLast speaks of the rest between two calls.  LogInv adds what   *)
(* holds inside set_lcd_print_log: its index start is First, i entries on, *)
(* and First does not change in the loop, which reads the ring and moves   *)
(* newest only at its end.                                                 *)
(***************************************************************************)

Indices ==
  /\ DOMAIN info = 0..(Entries - 1)
  /\ newest \in 0..(Entries - 1) /\ start \in 0..(Entries - 1)
  /\ printed \in 1..Entries /\ i \in 0..printed
  /\ pc \in {"off", "clear", "loading", "idle", "print"}
  /\ last \in Seq(Results) /\ Len(last) <= Entries

\* In front of the first result, and whenever the log rests
Rested ==
  pc \in {"off", "clear", "loading", "idle"} =>
    /\ printed = (IF Len(last) < Entries THEN Len(last) + 1 ELSE Entries)
    /\ Len(last) < Entries => newest = Len(last)
    /\ HoldsFrom(IF Len(last) < Entries THEN 0 ELSE newest)

\* In the loop
Printing ==
  pc = "print" =>
    /\ printed = Len(last)
    /\ printed < Entries => newest = printed - 1
    /\ start = Slot(First, i)
    /\ HoldsFrom(First)
    /\ strings # 0 => i < printed

LogInv == Indices /\ Rested /\ Printing

\* An index that goes round the ring stays in it.
LEMMA SlotInRange ==
  ASSUME NEW n \in 0..(Entries - 1), NEW k \in 0..Entries
  PROVE  Slot(n, k) \in 0..(Entries - 1)
BY ConsoleAssumption DEF Slot

\* The loop starts at a slot of the ring.
LEMMA FirstInRange == ASSUME Indices PROVE First \in 0..(Entries - 1)
BY ConsoleAssumption DEF First, Indices

\* An empty log: at power-on and after every reboot
LEMMA EmptyLog ==
  ASSUME info = [n \in 0..(Entries - 1) |-> Zeroes], newest = 0, printed = 1,
         i = 0, start = 0, last = <<>>, pc \in {"off", "clear"}
  PROVE  LogInv
<1>1. Indices
  BY ConsoleAssumption DEF Indices
<1>2. Rested
  BY ConsoleAssumption DEF Rested, HoldsFrom
<1>3. Printing
  BY DEF Printing
<1> QED BY <1>1, <1>2, <1>3 DEF LogInv

\* A new result takes the slot of the oldest, and the ring goes on from the next one.
LEMMA ResultKeeps ==
  ASSUME LogInv, NEW r \in Results, Result(r)
  PROVE  LogInv'
<1>0. /\ pc = "idle" /\ pc' = "print" /\ i' = 0 /\ start' = First /\ strings' = 0
      /\ info' = [info EXCEPT ![newest] = Entry(r)]
      /\ last' = SubSeq(Append(last, r), IF Len(last) = Entries THEN 2 ELSE 1, Len(last) + 1)
      /\ newest' = newest /\ printed' = printed
  BY DEF Result
<1>1. /\ Indices /\ printed = (IF Len(last) < Entries THEN Len(last) + 1 ELSE Entries)
      /\ Len(last) < Entries => newest = Len(last)
      /\ HoldsFrom(IF Len(last) < Entries THEN 0 ELSE newest)
  BY <1>0 DEF LogInv, Rested
<1>2. Entries \in Nat \ {0} /\ Len(last) \in Nat /\ newest \in 0..(Entries - 1) /\ DOMAIN info = 0..(Entries - 1)
  BY <1>1, ConsoleAssumption DEF Indices
<1>3. First' = First
  BY <1>0 DEF First
<1>4. First \in 0..(Entries - 1)
  BY <1>1, FirstInRange
<1>5. CASE Len(last) < Entries
  <2>1. last' = Append(last, r)
    BY <1>0, <1>1, <1>2, <1>5 DEF Indices
  <2>2. last' \in Seq(Results) /\ Len(last') = Len(last) + 1
    BY <2>1, <1>1 DEF Indices
  <2>3. First = 0
    BY <1>1, <1>2, <1>5 DEF First
  <2>4. HoldsFrom(0)'
    <3> SUFFICES ASSUME NEW k \in DOMAIN last' PROVE info'[Slot(0, k - 1)] = Entry(last'[k])
      BY DEF HoldsFrom
    <3>1. k \in 1..(Len(last) + 1)
      BY <2>2
    <3>2. Slot(0, k - 1) = k - 1
      BY <3>1, <1>2, <1>5 DEF Slot
    <3>3. CASE k = Len(last) + 1
      BY <3>2, <3>3, <1>0, <1>1, <1>2, <1>5, <2>1 DEF Indices
    <3>4. CASE k # Len(last) + 1
      <4>1. k \in DOMAIN last /\ last'[k] = last[k]
        BY <3>1, <3>4, <2>1, <1>1 DEF Indices
      <4>2. info[Slot(0, k - 1)] = Entry(last[k])
        BY <4>1, <1>1, <1>5 DEF HoldsFrom
      <4>3. info'[k - 1] = info[k - 1]
        BY <1>0, <1>1, <1>2, <1>5, <3>1, <3>4
      <4> QED BY <4>1, <4>2, <4>3, <3>2
    <3> QED BY <3>3, <3>4
  <2>5. Slot(First', 0) = First
    BY <1>3, <2>3, <1>2 DEF Slot
  <2>6. Indices'
    BY <1>0, <1>1, <1>2, <1>4, <1>5, <2>2 DEF Indices
  <2>7. Printing'
    BY <1>0, <1>1, <1>2, <1>3, <1>5, <2>2, <2>3, <2>4, <2>5 DEF Printing, HoldsFrom, Slot
  <2>8. Rested'
    BY <1>0 DEF Rested
  <2> QED BY <2>6, <2>7, <2>8 DEF LogInv
<1>6. CASE Len(last) = Entries
  <2>1. last' = SubSeq(Append(last, r), 2, Len(last) + 1)
    BY <1>0, <1>6
  <2>2. Append(last, r) \in Seq(Results) /\ Len(Append(last, r)) = Entries + 1
    BY <1>1, <1>6 DEF Indices
  <2>3. last' \in Seq(Results) /\ Len(last') = Entries
    BY <2>1, <2>2, <1>2, <1>6
  <2>4. \A k \in 1..Entries : last'[k] = IF k = Entries THEN r ELSE last[k + 1]
    <3> SUFFICES ASSUME NEW k \in 1..Entries
                 PROVE  last'[k] = IF k = Entries THEN r ELSE last[k + 1]
      OBVIOUS
    <3>1. last'[k] = Append(last, r)[k + 1]
      BY <2>1, <2>2, <1>2, <1>6
    <3>2. Append(last, r)[k + 1] = IF k = Entries THEN r ELSE last[k + 1]
      BY <1>1, <1>2, <1>6 DEF Indices
    <3> QED BY <3>1, <3>2
  <2>5. printed = Entries /\ First = Slot(newest, 1)
    BY <1>1, <1>2, <1>6 DEF First, Slot
  <2>6. HoldsFrom(First)'
    <3> SUFFICES ASSUME NEW k \in DOMAIN last' PROVE info'[Slot(First, k - 1)] = Entry(last'[k])
      BY <1>3 DEF HoldsFrom, Slot
    <3>1. k \in 1..Entries
      BY <2>3
    <3>2. CASE k = Entries
      <4>1. Slot(First, k - 1) = newest
        BY <3>2, <2>5, <1>2 DEF Slot
      <4> QED BY <4>1, <3>1, <3>2, <2>4, <1>0, <1>2
    <3>3. CASE k # Entries
      <4>1. k + 1 \in DOMAIN last
        BY <3>1, <3>3, <1>1, <1>6 DEF Indices
      <4>2. Slot(First, k - 1) = Slot(newest, k) /\ Slot(newest, k) # newest
            /\ Slot(newest, k) \in 0..(Entries - 1)
        BY SMTT(30), <3>1, <3>3, <2>5, <1>2 DEF Slot
      <4>3. info[Slot(newest, (k + 1) - 1)] = Entry(last[k + 1])
        BY <4>1, <1>1, <1>6 DEF HoldsFrom
      <4>4. Slot(newest, (k + 1) - 1) = Slot(newest, k)
        BY <3>1 DEF Slot
      <4> QED BY <4>2, <4>3, <4>4, <3>1, <3>3, <2>4, <1>0, <1>2
    <3> QED BY <3>2, <3>3
  <2>7. Slot(First', 0) = First
    BY <1>3, <1>4, <1>2 DEF Slot
  <2>8. Indices'
    BY <1>0, <1>1, <1>2, <1>4, <2>3 DEF Indices
  <2>9. Printing'
    <3>1. First' = First /\ start' = Slot(First', i')
      BY <1>0, <1>3, <2>7
    <3>2. printed' = Len(last') /\ ~(printed' < Entries)
      BY <1>0, <1>2, <2>3, <2>5
    <3>3. 0 < printed' /\ strings' = 0
      BY <1>0, <1>2, <2>5
    <3>4. start' = Slot(First, i)'
      BY <3>1 DEF Slot
    <3> QED BY <2>6, <3>2, <3>3, <3>4 DEF Printing
  <2>10. Rested'
    BY <1>0 DEF Rested
  <2> QED BY <2>8, <2>9, <2>10 DEF LogInv
<1> QED BY <1>1, <1>2, <1>5, <1>6 DEF Indices

\* The loop moves start and i together.
LEMMA NextBlockKeeps ==
  ASSUME LogInv, NextBlock
  PROVE  LogInv'
<1>0. /\ pc = "print" /\ pc' = pc /\ strings = 11 /\ i' = i + 1 /\ start' = Next1(start) /\ strings' = 0
      /\ info' = info /\ newest' = newest /\ printed' = printed /\ last' = last
  BY DEF NextBlock
<1>1. Indices /\ Entries \in Nat \ {0}
  BY ConsoleAssumption DEF LogInv
<1>2. First' = First /\ First \in 0..(Entries - 1)
  BY <1>0, <1>1, FirstInRange DEF First
<1>3. /\ printed = Len(last) /\ (printed < Entries => newest = printed - 1)
      /\ start = Slot(First, i) /\ HoldsFrom(First) /\ i < printed
  BY <1>0 DEF LogInv, Printing
<1>4. start' = Slot(First, i + 1)
  BY <1>0, <1>1, <1>2, <1>3 DEF Next1, Slot, Indices
<1>5. Indices'
  BY <1>0, <1>1, <1>3 DEF Indices, Next1
<1>6. Printing'
  BY <1>0, <1>2, <1>3, <1>4 DEF Printing, HoldsFrom, Slot
<1>7. Rested'
  BY <1>0 DEF Rested
<1> QED BY <1>5, <1>6, <1>7 DEF LogInv

\* At the end of the loop start has gone round the entries that were drawn.
LEMMA LoopEndsKeeps ==
  ASSUME LogInv, LoopEnds
  PROVE  LogInv'
<1>0. /\ pc = "print" /\ pc' = "idle" /\ printed = i /\ newest' = start
      /\ printed' = (IF printed < Entries THEN printed + 1 ELSE printed)
      /\ info' = info /\ i' = i /\ start' = start /\ last' = last
  BY DEF LoopEnds
<1>1. Indices /\ Entries \in Nat \ {0}
  BY ConsoleAssumption DEF LogInv
<1>2. First \in 0..(Entries - 1)
  BY <1>1, FirstInRange
<1>3. /\ printed = Len(last) /\ (printed < Entries => newest = printed - 1)
      /\ start = Slot(First, i) /\ HoldsFrom(First)
  BY <1>0 DEF LogInv, Printing
<1>4. Indices'
  BY <1>0, <1>1 DEF Indices
<1>5. IF Len(last) < Entries THEN First = 0 /\ newest' = Len(last) ELSE newest' = First
  BY SMTT(30), <1>0, <1>1, <1>2, <1>3 DEF First, Slot, Indices
<1>6. Rested'
  <2>1. printed' = (IF Len(last') < Entries THEN Len(last') + 1 ELSE Entries)
    BY <1>0, <1>1, <1>3 DEF Indices
  <2>2. Len(last') < Entries => newest' = Len(last')
    BY <1>0, <1>5
  <2>3. First = IF Len(last) < Entries THEN 0 ELSE newest'
    BY <1>5
  <2>4. HoldsFrom(IF Len(last) < Entries THEN 0 ELSE newest)'
    BY <1>0, <1>3, <2>3 DEF HoldsFrom, Slot
  <2> QED BY <2>1, <2>2, <2>4 DEF Rested
<1>7. Printing'
  BY <1>0 DEF Printing
<1> QED BY <1>4, <1>6, <1>7 DEF LogInv

\* The ring, its indices and the loop that draws it, from power-on and through every
\* reboot (set_lcd_print_info, set_lcd_print_log).
THEOREM LogInvHolds == Spec => []LogInv
<1>1. Init => LogInv
  BY EmptyLog DEF Init
<1>2. LogInv /\ [Next]_vars => LogInv'
  <2> SUFFICES ASSUME LogInv, [Next]_vars PROVE LogInv'
    OBVIOUS
  <2>1. CASE Boot
    <3>1. /\ info' = [n \in 0..(Entries - 1) |-> Zeroes] /\ newest' = 0 /\ printed' = 1
          /\ i' = 0 /\ start' = 0 /\ last' = <<>> /\ pc' = "clear"
      BY <2>1 DEF Boot
    <3>2. Indices'
      BY <3>1, ConsoleAssumption DEF Indices
    <3>3. Rested'
      BY <3>1, ConsoleAssumption DEF Rested, HoldsFrom
    <3>4. Printing'
      BY <3>1 DEF Printing
    <3> QED BY <3>2, <3>3, <3>4 DEF LogInv
  <2>2. CASE ClearAll \/ Loading
    BY <2>2 DEF ClearAll, Loading, LogInv, Indices, Rested, Printing, HoldsFrom
  <2>3. CASE Wipe \/ Draw
    <3>1. /\ pc = "print" /\ UNCHANGED <<info, newest, printed, pc, i, start, last>>
          /\ i < printed
      BY <2>3 DEF Wipe, Draw, LogInv, Indices, Printing
    <3> QED BY <3>1 DEF LogInv, Indices, Rested, Printing, HoldsFrom, First
  <2>4. CASE NextBlock
    BY <2>4, NextBlockKeeps
  <2>5. CASE LoopEnds
    BY <2>5, LoopEndsKeeps
  <2>6. CASE \E r \in Results : Result(r)
    BY <2>6, ResultKeeps
  <2>7. CASE UNCHANGED vars
    BY <2>7 DEF vars, LogInv, Indices, Rested, Printing, HoldsFrom, First
  <2> QED BY <2>1, <2>2, <2>3, <2>4, <2>5, <2>6, <2>7 DEF Next
<1> QED BY <1>1, <1>2, PTL DEF Spec

\* Between two calls the ring holds the last results, oldest first, from the slot
\* the next call takes (set_lcd_print_info, set_lcd_print_log).
THEOREM RingAlwaysHoldsLast == Spec => []RingHoldsLast
<1>1. LogInv => RingHoldsLast
  BY DEF LogInv, Rested, RingHoldsLast
<1> QED BY <1>1, LogInvHolds, PTL

(***************************************************************************)
(* WHAT IS ON THE DISPLAY                                                  *)
(*                                                                         *)
(* LinesAreLast speaks of the rest as well, and is not inductive: while    *)
(* the log is drawn the display shows the new characters up to the one     *)
(* that is due, and behind it what the last call left.  PanelInv says that *)
(* every mark is either the new one of a character that is drawn (IsNew),  *)
(* or stands exactly where a character is still to be drawn (IsOld), or is *)
(* of the text before the first result, which the first FillRect wipes.    *)
(* A character that is drawn takes its own place and no other (Apart), and *)
(* at the end of the loop no place is left for an old one.                 *)
(***************************************************************************)

\* ILI9340_Write_Mining_State as a table: where its strings stand, and how long they are
Left == <<5, 37, 65, 115, 160, 20, 80, 135, 145, 205>>
Line == <<0, 0, 0, 0, 0, 20, 20, 20, 20, 20>>
Size == <<3, 2, 4, 4, 7, 6, 4, 1, 6, 2>>
String == 1..10

X(s, k) == Left[s] + 10 * (k - 1)
Y(n, s) == Top(n) + Line[s]

\* The mark of a character of the n-th block, which shows the result r
MarkOf(r, n, s, k) == <<X(s, k), Y(n, s), Glyph(Drawn(Entry(r))[s][3][k]), Drawn(Entry(r))[s][4]>>

Blocks == 0..(Len(last) - 1)

\* The characters that are drawn since the last result
IsDrawn(n, s, k) == n < i \/ (n = i /\ (s < strings \/ (s = strings /\ k <= chars)))

IsPanel(p) == DOMAIN p = {"columns", "pages", "awake", "on", "pixel", "ram"}
Ready(p) == IsPanel(p) /\ p.awake /\ p.pixel = 16

\* The text before the first result
IsLoading(m) == m[2] = 10 /\ m[1] \in 0..90

\* A character that is drawn; and anything that stands where one is still to be drawn
IsNew(m) == \E n \in Blocks, s \in String : \E k \in 1..Size[s] :
              IsDrawn(n, s, k) /\ m = MarkOf(last[n + 1], n, s, k)
IsOld(m) == \E n \in Blocks, s \in String : \E k \in 1..Size[s] :
              ~IsDrawn(n, s, k) /\ m[1] = X(s, k) /\ m[2] = Y(n, s)

CountsOK ==
  /\ strings \in 0..11 /\ chars \in Nat
  /\ strings \in String => chars < Size[strings]
  /\ pc # "loading" /\ strings \notin String => chars = 0
  /\ pc = "loading" => chars < 8
  /\ pc # "print" => strings = 0

PanelOK == /\ IsPanel(lcd) /\ (pc # "off" => Ready(lcd))
           /\ \A m \in lcd.ram : m[1] \in 0..(Width - 1) /\ m[2] \in 0..(Height - 1)

Kept == \A n \in Blocks, s \in String : \A k \in 1..Size[s] :
          IsDrawn(n, s, k) => MarkOf(last[n + 1], n, s, k) \in lcd.ram
Seen == \A m \in lcd.ram : IsNew(m) \/ IsOld(m) \/ (i = 0 /\ strings = 0 /\ IsLoading(m))

PanelInv ==
  /\ CountsOK /\ PanelOK
  /\ pc \in {"clear", "loading"} => last = <<>>
  /\ pc = "loading" \/ (pc = "idle" /\ last = <<>>) => \A m \in lcd.ram : IsLoading(m)
  /\ pc = "idle" /\ last # <<>> => i = Len(last)
  /\ pc = "print" \/ (pc = "idle" /\ last # <<>>) => Kept /\ Seen

-----------------------------------------------------------------------------
\* The strings of a block, one by one
LEMMA Strings == \A s \in String : \/ s = 1 \/ s = 2 \/ s = 3 \/ s = 4 \/ s = 5
                                   \/ s = 6 \/ s = 7 \/ s = 8 \/ s = 9 \/ s = 10
BY DEF String

\* The strings of a block stand in two lines, one behind the other.
LEMMA Layout ==
  ASSUME NEW s \in String
  PROVE  /\ Left[s] \in Nat /\ Line[s] \in Nat /\ Size[s] \in Nat
         /\ Left[s] >= 5 /\ Size[s] >= 1 /\ Left[s] + 10 * Size[s] <= 230
         /\ Line[s] = 0 \/ Line[s] = 20
BY Strings DEF Left, Line, Size

\* Of two strings the later one is on the second line, or right of the earlier one.
LEMMA InOrder ==
  ASSUME NEW s \in String, NEW t \in String, s < t
  PROVE  \/ Line[s] = 0 /\ Line[t] = 20
         \/ Line[s] = Line[t] /\ Left[s] + 10 * Size[s] <= Left[t]
<1>1. s \in 1..5 \/ s \in 6..10
  BY DEF String
<1> QED BY Strings DEF Left, Line, Size

\* The strings in their order
LEMMA DrawnIs ==
  ASSUME NEW e
  PROVE  /\ Drawn(e)[1] = Label.slave /\ Drawn(e)[2] = Number(e, "index")
         /\ Drawn(e)[3] = Number(e, "result") /\ Drawn(e)[4] = Label.diff
         /\ Drawn(e)[5] = Number(e, "difficulty") /\ Drawn(e)[6] = Number(e, "hashrate")
         /\ Drawn(e)[7] = Label.rate /\ Drawn(e)[8] = Label.open
         /\ Drawn(e)[9] = Number(e, "elapsed") /\ Drawn(e)[10] = Label.close
BY DEF Drawn

\* What is drawn of a field: its place, all its bytes, and its colour
LEMMA NumberIs ==
  ASSUME NEW e, NEW f \in Field
  PROVE  /\ Number(e, f)[1] = Columns[f] /\ Number(e, f)[2] = Row[f]
         /\ Number(e, f)[3] = At(e, f) /\ Len(At(e, f)) = Room[f]
         /\ Number(e, f)[4] = Ink(At(e, "result"))[f]
<1>1. Len(At(e, f)) = Room[f]
  BY DEF At, Field, Room
<1>2. /\ Number(e, f)[1] = Columns[f] /\ Number(e, f)[2] = Row[f]
      /\ Number(e, f)[3] = At(e, f) /\ Number(e, f)[4] = Ink(At(e, "result"))[f]
  BY DEF Number
<1> QED BY <1>1, <1>2

\* What is drawn of the labels
LEMMA LabelIs ==
  /\ Label.slave[1] = 5 /\ Label.slave[2] = 0 /\ Label.slave[3] = Word("Slv", 3) /\ Label.slave[4] = "white"
  /\ Label.diff[1] = 115 /\ Label.diff[2] = 0 /\ Label.diff[3] = Word("Diff", 4) /\ Label.diff[4] = "yellow"
  /\ Label.rate[1] = 80 /\ Label.rate[2] = 20 /\ Label.rate[3] = Word("KH/s", 4) /\ Label.rate[4] = "green"
  /\ Label.open[1] = 135 /\ Label.open[2] = 20 /\ Label.open[3] = Word("(", 1) /\ Label.open[4] = "blue"
  /\ Label.close[1] = 205 /\ Label.close[2] = 20 /\ Label.close[3] = Word("s)", 2) /\ Label.close[4] = "blue"
BY DEF Label

\* A word has as many characters as it says.
LEMMA WordLen == \A x : \A n \in Nat : Len(Word(x, n)) = n
BY DEF Word

\* Every string stands where the table has it, whatever the entry.
LEMMA DrawnShape ==
  ASSUME NEW e, NEW s \in String
  PROVE  Drawn(e)[s][1] = Left[s] /\ Drawn(e)[s][2] = Line[s] /\ Len(Drawn(e)[s][3]) = Size[s]
<1> DEFINE Shape(d, n) == d[1] = Left[n] /\ d[2] = Line[n] /\ Len(d[3]) = Size[n]
<1>1. /\ Shape(Label.slave, 1) /\ Shape(Label.diff, 4) /\ Shape(Label.rate, 7)
      /\ Shape(Label.open, 8) /\ Shape(Label.close, 10)
  <2>1. /\ Len(Word("Slv", 3)) = 3 /\ Len(Word("Diff", 4)) = 4 /\ Len(Word("KH/s", 4)) = 4
        /\ Len(Word("(", 1)) = 1 /\ Len(Word("s)", 2)) = 2
    BY WordLen
  <2> QED BY <2>1, LabelIs DEF Left, Line, Size
<1>2. /\ Shape(Number(e, "index"), 2) /\ Shape(Number(e, "result"), 3) /\ Shape(Number(e, "difficulty"), 5)
      /\ Shape(Number(e, "hashrate"), 6) /\ Shape(Number(e, "elapsed"), 9)
  BY NumberIs DEF Left, Line, Size, Columns, Row, Room, Field
<1> HIDE DEF Shape
<1>3. \A n \in String : Shape(Drawn(e)[n], n)
  BY <1>1, <1>2, DrawnIs, Strings
<1> QED BY <1>3 DEF Shape

\* A mark that a rectangle does not touch
Clear(m, x, y, w, h) == \/ m[1] + GlyphWidth <= x \/ x + w - 1 < m[1]
                        \/ m[2] + GlyphHeight <= y \/ y + h - 1 < m[2]

\* SetAddressWindow opens the window, and draws nothing.
LEMMA WindowSet ==
  ASSUME NEW p, Ready(p), NEW x, NEW y, NEW x2, NEW y2
  PROVE  LET q == SetAddressWindow(p, x, y, x2, y2)
         IN  Ready(q) /\ q.columns = <<x, x2>> /\ q.pages = <<y, y2>> /\ q.ram = p.ram
BY DEF SetAddressWindow, Write, Receive, Ready, IsPanel

\* FillRect leaves the marks that its rectangle does not touch, and no others.
LEMMA FillRectDoes ==
  ASSUME NEW p, Ready(p), NEW x \in Nat, NEW y \in Nat, NEW w \in Nat \ {0}, NEW h \in Nat \ {0}
  PROVE  LET r == FillRect(p, x, y, w, h)
         IN  Ready(r) /\ \A m : m \in r.ram <=> m \in p.ram /\ Clear(m, x, y, w, h)
<1> DEFINE q == SetAddressWindow(p, x, y, x + w - 1, y + h - 1)
<1>1. Ready(q) /\ q.columns = <<x, x + w - 1>> /\ q.pages = <<y, y + h - 1>> /\ q.ram = p.ram
  BY WindowSet
<1>2. FillRect(p, x, y, w, h) = ReceivePixels(q, w * h, {})
  BY DEF FillRect
<1> HIDE DEF q
<1>3. Beside(q) = {m \in p.ram : Clear(m, x, y, w, h)}
  BY <1>1 DEF Beside, Clear
<1>4. ReceivePixels(q, w * h, {}) = [q EXCEPT !.ram = Beside(q)]
  BY <1>1 DEF ReceivePixels, Ready
<1>5. /\ Ready(FillRect(p, x, y, w, h))
      /\ FillRect(p, x, y, w, h).ram = {m \in p.ram : Clear(m, x, y, w, h)}
  BY <1>1, <1>2, <1>3, <1>4 DEF Ready, IsPanel
<1> QED BY <1>5

\* A character that lies on the panel takes the place of the marks it touches.
LEMMA DrawNextDoes ==
  ASSUME NEW p, Ready(p), NEW x \in Nat, NEW y \in Nat, NEW text, NEW n \in Nat, NEW ink,
         NEW a \in Nat, a = x + 10 * n, a + 8 < Width, y + 15 < Height, NEW c, c = text[n + 1]
  PROVE  LET r == DrawNext(p, x, y, text, n, ink)
         IN  /\ Ready(r)
             /\ \A m : m \in r.ram <=> \/ m \in p.ram /\ Clear(m, a, y, 9, 16)
                                      \/ m = <<a, y, Glyph(c), ink>>
<1> DEFINE q == SetAddressWindow(p, a, y, a + 9 - 1, y + 16 - 1)
           mark == {<<Glyph(c), ink>>}
<1>0. a + 8 < Width /\ Width \in Nat /\ Height \in Nat
  BY PanelAssumption
<1>1. Ready(q) /\ q.columns = <<a, a + 9 - 1>> /\ q.pages = <<y, y + 16 - 1>> /\ q.ram = p.ram
  BY WindowSet
<1>2. DrawNext(p, x, y, text, n, ink) = ReceivePixels(q, 16 * (8 + 1), mark)
  BY DEF DrawNext, DrawChar, TextOffset, GlyphWidth, GlyphHeight
<1> HIDE DEF q, mark
<1>3. Beside(q) = {m \in p.ram : Clear(m, a, y, 9, 16)}
  BY <1>1 DEF Beside, Clear
<1>4. Extent(q.columns) = 9 /\ Extent(q.pages) = 16 /\ q.columns[2] < Width /\ q.pages[2] < Height
  BY <1>0, <1>1 DEF Extent
<1>5. ReceivePixels(q, 16 * (8 + 1), mark) =
        [q EXCEPT !.ram = Beside(q) \cup {<<q.columns[1], q.pages[1], m[1], m[2]>> : m \in mark}]
  BY <1>1, <1>4 DEF ReceivePixels, Ready, GlyphWidth, GlyphHeight
<1>6. {<<q.columns[1], q.pages[1], m[1], m[2]>> : m \in mark} = {<<a, y, Glyph(c), ink>>}
  BY <1>1 DEF mark
<1>7. /\ Ready(DrawNext(p, x, y, text, n, ink))
      /\ DrawNext(p, x, y, text, n, ink).ram =
           {m \in p.ram : Clear(m, a, y, 9, 16)} \cup {<<a, y, Glyph(c), ink>>}
  BY <1>1, <1>2, <1>3, <1>5, <1>6 DEF Ready, IsPanel
<1>8. \A m : m \in DrawNext(p, x, y, text, n, ink).ram <=>
               \/ m \in p.ram /\ Clear(m, a, y, 9, 16)
               \/ m = <<a, y, Glyph(c), ink>>
  BY <1>7
<1> QED BY <1>7, <1>8

\* At the start and after a reboot
LEMMA ResetDoes ==
  ASSUME NEW p, IsPanel(p)
  PROVE  Ready(Reset(p)) /\ Reset(p).ram = p.ram
BY DEF Reset, Initialize, Write, Receive, Ready, IsPanel

-----------------------------------------------------------------------------
\* A block and its characters lie on the panel.
LEMMA CellIs ==
  ASSUME NEW n \in Nat, NEW s \in String, NEW k \in 1..Size[s]
  PROVE  /\ k \in Nat /\ k >= 1 /\ X(s, k) \in Nat /\ X(s, k) >= 5 /\ X(s, k) <= 220
         /\ X(s, k) = Left[s] + 10 * (k - 1) /\ X(s, k) + 10 <= Left[s] + 10 * Size[s]
         /\ Y(n, s) \in Nat /\ Y(n, s) = 50 * n + 10 + Line[s]
         /\ Line[s] = 0 \/ Line[s] = 20
<1>1. /\ Left[s] \in Nat /\ Line[s] \in Nat /\ Size[s] \in Nat
      /\ Left[s] >= 5 /\ Size[s] >= 1 /\ Left[s] + 10 * Size[s] <= 230
      /\ Line[s] = 0 \/ Line[s] = 20
  BY Layout
<1>2. k \in Nat /\ k >= 1 /\ k <= Size[s]
  BY <1>1
<1>3. X(s, k) = Left[s] + 10 * (k - 1) /\ Y(n, s) = 50 * n + 10 + Line[s]
  BY DEF X, Y, Top
<1> QED BY <1>1, <1>2, <1>3

\* Different characters do not touch each other.
LEMMA Apart ==
  ASSUME NEW n \in Nat, NEW s \in String, NEW k \in 1..Size[s],
         NEW m \in Nat, NEW t \in String, NEW l \in 1..Size[t],
         n # m \/ s # t \/ k # l
  PROVE  \/ X(s, k) + 9 <= X(t, l) \/ X(t, l) + 9 <= X(s, k)
         \/ Y(n, s) + 16 <= Y(m, t) \/ Y(m, t) + 16 <= Y(n, s)
<1>1. /\ k \in Nat /\ X(s, k) \in Nat /\ X(s, k) = Left[s] + 10 * (k - 1) /\ X(s, k) + 10 <= Left[s] + 10 * Size[s]
      /\ Y(n, s) \in Nat /\ Y(n, s) = 50 * n + 10 + Line[s] /\ (Line[s] = 0 \/ Line[s] = 20) /\ k >= 1
  BY CellIs
<1>2. /\ l \in Nat /\ X(t, l) \in Nat /\ X(t, l) = Left[t] + 10 * (l - 1) /\ X(t, l) + 10 <= Left[t] + 10 * Size[t]
      /\ Y(m, t) \in Nat /\ Y(m, t) = 50 * m + 10 + Line[t] /\ (Line[t] = 0 \/ Line[t] = 20) /\ l >= 1
  BY CellIs
<1>3. Left[s] \in Nat /\ Left[t] \in Nat /\ Size[s] \in Nat /\ Size[t] \in Nat
  BY Layout
<1>4. CASE n # m
  BY <1>1, <1>2, <1>4
<1>5. CASE s = t /\ n = m
  BY <1>1, <1>2, <1>3, <1>5
<1>6. CASE s < t
  <2>1. \/ Line[s] = 0 /\ Line[t] = 20
        \/ Line[s] = Line[t] /\ Left[s] + 10 * Size[s] <= Left[t]
    BY <1>6, InOrder
  <2> QED BY <1>1, <1>2, <1>3, <1>4, <2>1
<1>7. CASE t < s
  <2>1. \/ Line[t] = 0 /\ Line[s] = 20
        \/ Line[t] = Line[s] /\ Left[t] + 10 * Size[t] <= Left[s]
    BY <1>7, InOrder
  <2> QED BY <1>1, <1>2, <1>3, <1>4, <2>1
<1>8. s = t \/ s < t \/ t < s
  BY DEF String
<1> QED BY <1>4, <1>5, <1>6, <1>7, <1>8

\* A mark stands at the place of its character.
LEMMA MarkIs ==
  ASSUME NEW r, NEW n, NEW s, NEW k
  PROVE  MarkOf(r, n, s, k)[1] = X(s, k) /\ MarkOf(r, n, s, k)[2] = Y(n, s)
BY DEF MarkOf

-----------------------------------------------------------------------------
\* At power-on: the noise lies on the panel.
LEMMA PanelStart == Init => PanelInv
<1> SUFFICES ASSUME Init PROVE PanelInv
  OBVIOUS
<1>1. pc = "off" /\ i = 0 /\ strings = 0 /\ chars = 0 /\ lcd = Powered
  BY DEF Init
<1>2. CountsOK
  BY <1>1 DEF CountsOK, String
<1>3. PanelOK
  <2>1. Width \in Nat /\ Height \in Nat /\ Width > 228 /\ Height > 16
    <3>1. Entries \in Nat \ {0} /\ Height \in Nat /\ Height > 50 * (Entries - 1) + 10 + 20 + 16
      BY ConsoleAssumption, LayoutAssumption, PanelAssumption DEF Top, GlyphHeight
    <3> QED BY <3>1, LayoutAssumption, PanelAssumption
  <2>2. IsPanel(lcd) /\ lcd.ram = Noise
    BY <1>1 DEF Powered, IsPanel
  <2>3. \A m \in Noise : m[1] \in 0..(Width - 1) /\ m[2] \in 0..(Height - 1)
    BY <2>1 DEF Noise, GlyphWidth, GlyphHeight
  <2> QED BY <1>1, <2>2, <2>3 DEF PanelOK
<1> QED BY <1>1, <1>2, <1>3 DEF PanelInv

\* ILI9340_init finds the panel in any state and makes it ready.
LEMMA BootPanel == ASSUME PanelInv, Boot PROVE PanelInv'
<1>1. pc' = "clear" /\ i' = 0 /\ strings' = 0 /\ chars' = 0 /\ lcd' = Reset(lcd) /\ last' = <<>>
  BY DEF Boot
<1>2. CountsOK'
  BY <1>1 DEF CountsOK, String
<1>3. Ready(lcd') /\ lcd'.ram = lcd.ram
  BY <1>1, ResetDoes DEF PanelInv, PanelOK
<1>4. PanelOK'
  BY <1>1, <1>3 DEF PanelInv, PanelOK, Ready
<1> QED BY <1>1, <1>2, <1>4 DEF PanelInv

\* FillScreen leaves nothing.
LEMMA ClearPanel == ASSUME PanelInv, ClearAll PROVE PanelInv'
<1>0. /\ PanelOK /\ pc = "clear" /\ pc' = "loading" /\ lcd' = FillScreen(lcd)
      /\ UNCHANGED <<i, strings, chars, last>> /\ last = <<>>
  BY DEF PanelInv, ClearAll
<1>1. Width \in Nat \ {0} /\ Height \in Nat \ {0} /\ 0 \in Nat
  BY PanelAssumption
<1>2. Ready(lcd') /\ \A m : m \in lcd'.ram <=> m \in lcd.ram /\ Clear(m, 0, 0, Width, Height)
  <2>1. Ready(lcd)
    BY <1>0 DEF PanelOK
  <2> DEFINE next == FillRect(lcd, 0, 0, Width, Height)
  <2>2. Ready(next) /\ \A m : m \in next.ram <=> m \in lcd.ram /\ Clear(m, 0, 0, Width, Height)
    BY <1>1, <2>1, FillRectDoes
  <2> HIDE DEF next
  <2>3. lcd' = next
    BY <1>0 DEF next, FillScreen
  <2> QED BY <2>2, <2>3
<1>3. lcd'.ram = {}
  BY <1>0, <1>1, <1>2 DEF PanelOK, Clear, GlyphWidth, GlyphHeight
<1>4. PanelOK'
  BY <1>2, <1>3 DEF PanelOK, Ready
<1>5. CountsOK'
  BY <1>0 DEF PanelInv, CountsOK, String
<1> QED BY <1>0, <1>3, <1>4, <1>5 DEF PanelInv

\* The text before the first result stands in its line.
LEMMA LoadingPanel == ASSUME PanelInv, LogInv, Loading PROVE PanelInv'
<1>0. /\ PanelOK /\ Ready(lcd) /\ CountsOK /\ pc = "loading" /\ chars \in Nat /\ chars < 8
      /\ UNCHANGED <<i, strings, last>> /\ strings = 0
  BY DEF PanelInv, PanelOK, CountsOK, Loading
<1>1. lcd' = DrawNext(lcd, 5, 10, LoadingText, chars, "white")
      /\ (IF chars + 1 < 8 THEN chars' = chars + 1 /\ pc' = pc ELSE chars' = 0 /\ pc' = "idle")
  BY WordLen DEF Loading, LoadingText
<1>2. Width \in Nat /\ Height \in Nat /\ Width > 228 /\ Height > 46
  <2>1. Entries \in Nat \ {0} /\ Height \in Nat /\ Height > 50 * (Entries - 1) + 10 + 20 + 16
    BY ConsoleAssumption, LayoutAssumption, PanelAssumption DEF Top, GlyphHeight
  <2> QED BY <2>1, LayoutAssumption, PanelAssumption
<1>3. 5 \in Nat /\ 10 \in Nat /\ 5 + 10 * chars + 8 < Width /\ 10 + 15 < Height
  BY <1>0, <1>2
<1>4. /\ Ready(lcd')
      /\ \A m : m \in lcd'.ram <=> \/ m \in lcd.ram /\ Clear(m, 5 + 10 * chars, 10, 9, 16)
                                  \/ m = <<5 + 10 * chars, 10, Glyph(LoadingText[chars + 1]), "white">>
  <2>1. PICK x, y, text, ink : x = 5 /\ y = 10 /\ text = LoadingText /\ ink = "white"
    OBVIOUS
  <2>2. PICK a \in Nat : a = x + 10 * chars
    BY <1>0, <2>1
  <2>6. /\ x \in Nat /\ y \in Nat /\ a + 8 < Width /\ y + 15 < Height /\ chars \in Nat /\ Ready(lcd)
        /\ a = x + 10 * chars /\ a \in Nat
    BY <1>0, <1>3, <2>1, <2>2
  <2>7. PICK c : c = text[chars + 1]
    OBVIOUS
  <2>3. PICK q : q = DrawNext(lcd, x, y, text, chars, ink)
    OBVIOUS
  <2>4. Ready(q)
    BY <2>6, <2>7, <2>3, DrawNextDoes
  <2>5. \A m : m \in q.ram <=> \/ m \in lcd.ram /\ Clear(m, a, y, 9, 16)
                               \/ m = <<a, y, Glyph(c), ink>>
    BY <2>6, <2>7, <2>3, DrawNextDoes
  <2> QED BY <1>1, <2>1, <2>2, <2>3, <2>4, <2>5, <2>7
<1>5. \A m \in lcd'.ram : IsLoading(m) /\ m[1] \in 0..(Width - 1) /\ m[2] \in 0..(Height - 1)
  <2>1. \A m \in lcd.ram : IsLoading(m)
    BY <1>0 DEF PanelInv
  <2> QED BY <1>0, <1>2, <1>4, <2>1 DEF IsLoading
<1>6. PanelOK'
  BY <1>4, <1>5 DEF PanelOK, Ready
<1>7. CountsOK'
  BY <1>0, <1>1 DEF CountsOK, String
<1>8. last = <<>>
  BY <1>0 DEF PanelInv
<1> QED BY <1>0, <1>1, <1>5, <1>6, <1>7, <1>8 DEF PanelInv

\* A new result: what is on the display is old from now on, and stands where it will be
\* drawn over; the log has not become shorter.
LEMMA ResultPanel ==
  ASSUME LogInv, PanelInv, NEW r \in Results, Result(r)
  PROVE  PanelInv'
<1>0. /\ pc = "idle" /\ pc' = "print" /\ i' = 0 /\ strings' = 0 /\ chars' = 0 /\ lcd' = lcd
      /\ last' = SubSeq(Append(last, r), IF Len(last) = Entries THEN 2 ELSE 1, Len(last) + 1)
  BY DEF Result
<1>1. CountsOK' /\ PanelOK'
  BY <1>0 DEF PanelInv, CountsOK, PanelOK, String
<1>2. Blocks \subseteq Blocks'
  <2>1. /\ Append(last, r) \in Seq(Results) /\ Len(Append(last, r)) = Len(last) + 1
        /\ Len(last) \in Nat /\ Entries \in Nat \ {0}
    BY ConsoleAssumption DEF LogInv, Indices
  <2>2. Len(last') >= Len(last)
    BY <1>0, <2>1
  <2>3. Len(last') \in Nat
    BY <1>0, <2>1
  <2> QED BY <2>1, <2>2, <2>3 DEF Blocks
<1>3. \A n \in Nat, s \in String : \A k \in 1..Size[s] : ~IsDrawn(n, s, k)'
  BY <1>0 DEF IsDrawn, String
<1>4. Kept'
  <2>1. Blocks' \subseteq Nat
    BY DEF Blocks
  <2> QED BY <1>3, <2>1 DEF Kept
<1>5. Blocks \subseteq Nat
  BY DEF Blocks
<1>6. \A n \in Blocks, s \in String : \A k \in 1..Size[s] : \A m :
        m[1] = X(s, k) /\ m[2] = Y(n, s) => IsOld(m)'
  BY <1>2, <1>3, <1>5 DEF IsOld
<1>7. Seen'
  <2> SUFFICES ASSUME NEW m \in lcd.ram PROVE IsOld(m)' \/ IsLoading(m)
    BY <1>0 DEF Seen
  <2>1. CASE last = <<>>
    BY <1>0, <2>1 DEF PanelInv
  <2>2. CASE last # <<>>
    <3>1. IsNew(m) \/ IsOld(m) \/ IsLoading(m)
      BY <1>0, <2>2 DEF PanelInv, Seen
    <3>2. CASE IsNew(m)
      BY <3>2, <1>6, MarkIs DEF IsNew
    <3>3. CASE IsOld(m)
      BY <3>3, <1>6 DEF IsOld
    <3> QED BY <3>1, <3>2, <3>3
  <2> QED BY <2>1, <2>2
<1> QED BY <1>0, <1>1, <1>4, <1>7 DEF PanelInv

\* The FillRect of a block touches no block in front of it, and wipes the first text.
LEMMA WipePanel ==
  ASSUME LogInv, PanelInv, Wipe
  PROVE  PanelInv'
<1>0. /\ pc = "print" /\ strings = 0 /\ strings' = 1 /\ chars = 0 /\ chars' = 0 /\ UNCHANGED <<pc, i, last>>
      /\ lcd' = FillRect(lcd, 0, Top(i), 100, 16)
  BY DEF PanelInv, CountsOK, Wipe, String
<1>1. i \in Nat /\ Top(i) \in Nat /\ Top(i) = 50 * i + 10 /\ PanelOK /\ Ready(lcd) /\ Kept /\ Seen
  BY <1>0, ConsoleAssumption DEF LogInv, Indices, PanelInv, PanelOK, Top
<1>2. Ready(lcd') /\ \A m : m \in lcd'.ram <=> m \in lcd.ram /\ Clear(m, 0, Top(i), 100, 16)
  <2>1. PICK x \in Nat, y \in Nat, w \in Nat \ {0}, h \in Nat \ {0} : x = 0 /\ y = Top(i) /\ w = 100 /\ h = 16
    BY <1>1
  <2>2. PICK next : next = FillRect(lcd, x, y, w, h)
    OBVIOUS
  <2>3. Ready(lcd)
    BY <1>1
  <2>4. Ready(next) /\ \A m : m \in next.ram <=> m \in lcd.ram /\ Clear(m, x, y, w, h)
    BY <2>2, <2>3, FillRectDoes
  <2>5. lcd' = next
    BY <1>0, <2>1, <2>2
  <2> QED BY <2>1, <2>4, <2>5
<1>3. CountsOK'
  <2>1. Size[1] = 3
    BY DEF Size
  <2> QED BY <1>0, <2>1 DEF CountsOK, String
<1>4. PanelOK'
  BY <1>1, <1>2 DEF PanelOK, Ready
<1>5. Blocks' = Blocks /\ Blocks \subseteq Nat
  BY <1>0 DEF Blocks
<1>6. \A n \in Nat, s \in String : \A k \in 1..Size[s] : /\ IsDrawn(n, s, k)' <=> n < i
                                                         /\ IsDrawn(n, s, k) <=> n < i
  <2> SUFFICES ASSUME NEW n \in Nat, NEW s \in String, NEW k \in 1..Size[s]
               PROVE  (IsDrawn(n, s, k)' <=> n < i) /\ (IsDrawn(n, s, k) <=> n < i)
    OBVIOUS
  <2>1. k \in Nat /\ k >= 1
    BY CellIs
  <2>2. s \in Nat /\ s >= 1
    BY DEF String
  <2> QED BY <1>0, <2>1, <2>2 DEF IsDrawn
<1>7. Kept'
  <2> SUFFICES ASSUME NEW n \in Blocks, NEW s \in String, NEW k \in 1..Size[s], n < i
               PROVE  MarkOf(last[n + 1], n, s, k) \in lcd'.ram
    BY <1>0, <1>5, <1>6 DEF Kept
  <2> DEFINE m == MarkOf(last[n + 1], n, s, k)
  <2>1. m \in lcd.ram
    BY <1>1, <1>5, <1>6 DEF Kept
  <2>2. m[1] = X(s, k) /\ m[2] = Y(n, s)
    BY MarkIs
  <2>3. Y(n, s) \in Nat /\ Y(n, s) = 50 * n + 10 + Line[s] /\ (Line[s] = 0 \/ Line[s] = 20) /\ n \in Nat
    BY CellIs, <1>5
  <2>4. Y(n, s) + 16 <= Top(i)
    BY <1>1, <2>3
  <2> HIDE DEF m
  <2>5. Clear(m, 0, Top(i), 100, 16)
    BY <2>2, <2>4 DEF Clear, GlyphHeight
  <2>6. m \in lcd'.ram
    BY <1>2, <2>1, <2>5
  <2> QED BY <2>6 DEF m
<1>8. Seen'
  <2> SUFFICES ASSUME NEW m \in lcd'.ram PROVE IsNew(m)' \/ IsOld(m)'
    BY DEF Seen
  <2>1. m \in lcd.ram /\ Clear(m, 0, Top(i), 100, 16)
    BY <1>2
  <2>2. IsNew(m) \/ IsOld(m) \/ (i = 0 /\ IsLoading(m))
    BY <1>1, <2>1 DEF Seen
  <2>3. CASE IsNew(m)
    BY <2>3, <1>0, <1>5, <1>6 DEF IsNew
  <2>4. CASE IsOld(m)
    BY <2>4, <1>0, <1>5, <1>6 DEF IsOld
  <2>5. ~(i = 0 /\ IsLoading(m))
    BY <1>1, <2>1 DEF IsLoading, Clear, GlyphWidth, GlyphHeight
  <2> QED BY <2>2, <2>3, <2>4, <2>5
<1> QED BY <1>0, <1>3, <1>4, <1>7, <1>8 DEF PanelInv

\* A block that is finished
LEMMA NextBlockPanel ==
  ASSUME LogInv, PanelInv, NextBlock
  PROVE  PanelInv'
<1>0. /\ pc = "print" /\ strings = 11 /\ strings' = 0 /\ chars = 0 /\ i' = i + 1
      /\ UNCHANGED <<lcd, pc, last, chars>>
  BY DEF PanelInv, CountsOK, NextBlock, String
<1>1. i \in Nat /\ Kept /\ Seen
  BY <1>0, ConsoleAssumption DEF LogInv, Indices, PanelInv
<1>2. CountsOK' /\ PanelOK'
  BY <1>0 DEF PanelInv, CountsOK, PanelOK, String
<1>3. Blocks' = Blocks /\ Blocks \subseteq Nat
  BY <1>0 DEF Blocks
<1>4. \A n \in Nat, s \in String : \A k \in 1..Size[s] : IsDrawn(n, s, k)' <=> IsDrawn(n, s, k)
  <2> SUFFICES ASSUME NEW n \in Nat, NEW s \in String, NEW k \in 1..Size[s]
               PROVE  IsDrawn(n, s, k)' <=> IsDrawn(n, s, k)
    OBVIOUS
  <2>1. IsDrawn(n, s, k) <=> n < i + 1
    BY <1>0, <1>1 DEF IsDrawn, String
  <2>2. IsDrawn(n, s, k)' <=> n < i + 1
    BY <1>0, <1>1 DEF IsDrawn, String
  <2> QED BY <2>1, <2>2
<1>5. Kept'
  BY <1>0, <1>1, <1>3, <1>4 DEF Kept
<1>6. Seen'
  <2> SUFFICES ASSUME NEW m \in lcd.ram PROVE IsNew(m)' \/ IsOld(m)'
    BY <1>0 DEF Seen
  <2>1. IsNew(m) \/ IsOld(m)
    BY <1>0, <1>1 DEF Seen
  <2>2. CASE IsNew(m)
    BY <2>2, <1>0, <1>3, <1>4 DEF IsNew
  <2>3. CASE IsOld(m)
    BY <2>3, <1>0, <1>3, <1>4 DEF IsOld
  <2> QED BY <2>1, <2>2, <2>3
<1> QED BY <1>0, <1>2, <1>5, <1>6 DEF PanelInv

\* At the end of the loop every block is finished.
LEMMA LoopEndsPanel ==
  ASSUME LogInv, PanelInv, LoopEnds
  PROVE  PanelInv'
<1>0. /\ pc = "print" /\ pc' = "idle" /\ printed = i /\ UNCHANGED <<lcd, i, last, strings, chars>>
  BY DEF LoopEnds
<1>1. /\ i = Len(last) /\ i \in Nat \ {0} /\ strings = 0 /\ Kept /\ Seen
  BY <1>0, ConsoleAssumption DEF LogInv, Indices, Printing, PanelInv, CountsOK, String
<1>2. CountsOK' /\ PanelOK'
  BY <1>0, <1>1 DEF PanelInv, CountsOK, PanelOK, String
<1>3. last # <<>>
  BY <1>1
<1>4. Kept' /\ Seen'
  BY <1>0, <1>1 DEF Kept, Seen, IsNew, IsOld, IsDrawn, Blocks
<1> QED BY <1>0, <1>1, <1>2, <1>3, <1>4 DEF PanelInv

\* The next character: its place is its own, and the entry is the one of the result.
LEMMA DrawPanel ==
  ASSUME LogInv, PanelInv, Draw
  PROVE  PanelInv'
<1> DEFINE e == Entry(last[i + 1])
           n0 == chars + 1
<1>0. /\ pc = "print" /\ strings \in String /\ UNCHANGED <<pc, i, last>>
      /\ chars \in Nat /\ chars < Size[strings] /\ PanelOK /\ Ready(lcd) /\ Kept /\ Seen
  BY DEF PanelInv, CountsOK, PanelOK, Draw, String
<1>1. i \in Nat /\ i < printed /\ printed = Len(last) /\ printed <= Entries /\ i + 1 \in DOMAIN last
  BY <1>0, ConsoleAssumption DEF LogInv, Indices, Printing, String
<1>2. info[start] = e
  <2>1. start = Slot(First, i) /\ HoldsFrom(First)
    BY <1>0 DEF LogInv, Printing
  <2>2. (i + 1) - 1 = i
    BY <1>1
  <2> QED BY <1>1, <2>1, <2>2 DEF HoldsFrom
<1> HIDE DEF e
<1>3. /\ Drawn(e)[strings][1] = Left[strings] /\ Drawn(e)[strings][2] = Line[strings]
      /\ Len(Drawn(e)[strings][3]) = Size[strings]
  BY <1>0, DrawnShape
<1>4. /\ lcd' = DrawNext(lcd, Left[strings], Top(i) + Line[strings], Drawn(e)[strings][3], chars, Drawn(e)[strings][4])
      /\ IF chars + 1 < Size[strings] THEN chars' = chars + 1 /\ strings' = strings
                                      ELSE chars' = 0 /\ strings' = strings + 1
  BY <1>2, <1>3 DEF Draw
<1>5. Size[strings] \in Nat /\ n0 \in 1..Size[strings] /\ n0 \in Nat /\ n0 = chars + 1
  BY <1>0, Layout
<1> HIDE DEF n0
<1>6. /\ X(strings, n0) \in Nat /\ X(strings, n0) = Left[strings] + 10 * chars /\ X(strings, n0) <= 220
      /\ Y(i, strings) \in Nat /\ Y(i, strings) = Top(i) + Line[strings] /\ Left[strings] \in Nat
      /\ Y(i, strings) <= 50 * i + 30
  <2>1. /\ X(strings, n0) \in Nat /\ X(strings, n0) <= 220
        /\ X(strings, n0) = Left[strings] + 10 * (n0 - 1)
        /\ Y(i, strings) \in Nat /\ Y(i, strings) = 50 * i + 10 + Line[strings]
        /\ Line[strings] = 0 \/ Line[strings] = 20
    BY <1>0, <1>1, <1>5, CellIs
  <2>2. n0 - 1 = chars
    BY <1>0, <1>5
  <2>3. Left[strings] \in Nat
    BY <1>0, Layout
  <2> QED BY <1>0, <1>1, <2>1, <2>2, <2>3 DEF Top
<1>7. X(strings, n0) + 8 < Width /\ Y(i, strings) + 15 < Height /\ Width \in Nat /\ Height \in Nat
  <2>1. Entries \in Nat \ {0} /\ Height \in Nat /\ Height > 50 * (Entries - 1) + 10 + 20 + 16
    BY ConsoleAssumption, LayoutAssumption, PanelAssumption DEF Top, GlyphHeight
  <2>2. i <= Entries - 1 /\ Entries \in Nat /\ i \in Nat
    BY <1>1, <2>1
  <2>3. Y(i, strings) + 15 < Height
    BY <1>6, <2>1, <2>2
  <2>4. X(strings, n0) + 8 < Width /\ Width \in Nat
    BY <1>6, LayoutAssumption, PanelAssumption
  <2> QED BY <2>1, <2>3, <2>4
<1> DEFINE new == MarkOf(last[i + 1], i, strings, n0)
<1>8. /\ Ready(lcd')
      /\ \A m : m \in lcd'.ram <=> \/ m \in lcd.ram /\ Clear(m, X(strings, n0), Y(i, strings), 9, 16)
                                   \/ m = new
  <2>1. PICK x, y, a, text, ink, c :
          /\ x \in Nat /\ y \in Nat /\ a \in Nat
          /\ x = Left[strings] /\ y = Y(i, strings) /\ a = X(strings, n0)
          /\ text = Drawn(e)[strings][3] /\ ink = Drawn(e)[strings][4] /\ c = text[n0]
    BY <1>6
  <2>2. /\ x \in Nat /\ y \in Nat /\ a \in Nat /\ chars \in Nat /\ Ready(lcd)
        /\ a = x + 10 * chars /\ a + 8 < Width /\ y + 15 < Height /\ c = text[chars + 1]
    BY <1>0, <1>5, <1>6, <1>7, <2>1
  <2>3. PICK q : q = DrawNext(lcd, x, y, text, chars, ink)
    OBVIOUS
  <2>4. Ready(q)
    BY <2>2, <2>3, DrawNextDoes
  <2>5. \A m : m \in q.ram <=> \/ m \in lcd.ram /\ Clear(m, a, y, 9, 16)
                               \/ m = <<a, y, Glyph(c), ink>>
    BY <2>2, <2>3, DrawNextDoes
  <2>6. lcd' = q
    BY <1>4, <1>6, <2>1, <2>3
  <2>7. new = <<a, y, Glyph(c), ink>>
    BY <2>1 DEF MarkOf, e
  <2> HIDE DEF new
  <2> QED BY <2>1, <2>4, <2>5, <2>6, <2>7
<1>9. new[1] = X(strings, n0) /\ new[2] = Y(i, strings)
  BY MarkIs
<1> HIDE DEF new
<1>10. CountsOK'
  <2>1. strings \in Nat /\ strings >= 1 /\ strings <= 10
    BY <1>0 DEF String
  <2>2. strings + 1 \in String => Size[strings + 1] \in Nat /\ Size[strings + 1] >= 1
    BY Layout
  <2>3. CASE chars + 1 < Size[strings]
    BY <1>0, <1>4, <1>5, <2>1, <2>3 DEF CountsOK, String
  <2>4. CASE ~(chars + 1 < Size[strings])
    <3>1. chars' = 0 /\ strings' = strings + 1
      BY <1>4, <2>4
    <3> QED BY <1>0, <2>1, <2>2, <3>1 DEF CountsOK, String
  <2> QED BY <2>3, <2>4
<1>11. PanelOK'
  <2> SUFFICES ASSUME NEW m \in lcd'.ram PROVE m[1] \in 0..(Width - 1) /\ m[2] \in 0..(Height - 1)
    BY <1>8 DEF PanelOK, Ready
  <2>1. CASE m = new
    BY <2>1, <1>6, <1>7, <1>9
  <2>2. CASE m \in lcd.ram
    BY <2>2, <1>0 DEF PanelOK
  <2> QED BY <1>8, <2>1, <2>2
<1>12. Blocks' = Blocks /\ Blocks \subseteq Nat /\ i \in Blocks
  BY <1>0, <1>1 DEF Blocks
<1>13. \A n \in Nat, s \in String : \A k \in 1..Size[s] :
         IsDrawn(n, s, k)' <=> IsDrawn(n, s, k) \/ (n = i /\ s = strings /\ k = n0)
  <2> SUFFICES ASSUME NEW n \in Nat, NEW s \in String, NEW k \in 1..Size[s]
               PROVE  IsDrawn(n, s, k)' <=> IsDrawn(n, s, k) \/ (n = i /\ s = strings /\ k = n0)
    OBVIOUS
  <2>1. k \in Nat /\ k >= 1 /\ k <= Size[s] /\ Size[s] \in Nat /\ s \in Nat /\ strings \in Nat
    BY <1>0, Layout DEF String
  <2>2. IsDrawn(n, s, k)' <=> n < i \/ (n = i /\ (s < strings' \/ (s = strings' /\ k <= chars')))
    BY <1>0 DEF IsDrawn
  <2>3. CASE chars + 1 < Size[strings]
    <3>1. chars' = chars + 1 /\ strings' = strings
      BY <1>4, <2>3
    <3> QED BY <3>1, <2>1, <2>2, <1>0, <1>1, <1>5 DEF IsDrawn
  <2>4. CASE ~(chars + 1 < Size[strings])
    <3>1. chars' = 0 /\ strings' = strings + 1
      BY <1>4, <2>4
    <3>2. chars + 1 = Size[strings]
      BY <1>0, <1>5, <2>4
    <3> QED BY <3>1, <3>2, <2>1, <2>2, <1>0, <1>1, <1>5 DEF IsDrawn
  <2> QED BY <2>3, <2>4
<1>14. ~IsDrawn(i, strings, n0)
  BY <1>0, <1>1, <1>5 DEF IsDrawn, String
<1>15. Kept'
  <2> SUFFICES ASSUME NEW n \in Blocks, NEW s \in String, NEW k \in 1..Size[s], IsDrawn(n, s, k)'
               PROVE  MarkOf(last[n + 1], n, s, k) \in lcd'.ram
    BY <1>0, <1>12 DEF Kept
  <2> DEFINE m == MarkOf(last[n + 1], n, s, k)
  <2>1. m[1] = X(s, k) /\ m[2] = Y(n, s)
    BY MarkIs
  <2>2. CASE n = i /\ s = strings /\ k = n0
    BY <2>2, <1>8 DEF new
  <2>3. CASE ~(n = i /\ s = strings /\ k = n0)
    <3>1. IsDrawn(n, s, k)
      BY <2>3, <1>12, <1>13
    <3>2. m \in lcd.ram
      BY <3>1, <1>0 DEF Kept
    <3>3. \/ X(s, k) + 9 <= X(strings, n0) \/ X(strings, n0) + 9 <= X(s, k)
          \/ Y(n, s) + 16 <= Y(i, strings) \/ Y(i, strings) + 16 <= Y(n, s)
      BY <2>3, <1>0, <1>1, <1>5, <1>12, Apart
    <3>4. X(s, k) \in Nat /\ Y(n, s) \in Nat
      BY <1>12, CellIs
    <3> HIDE DEF m
    <3>5. Clear(m, X(strings, n0), Y(i, strings), 9, 16)
      BY <2>1, <3>3, <3>4, <1>6 DEF Clear, GlyphWidth, GlyphHeight
    <3>6. m \in lcd'.ram
      BY <1>8, <3>2, <3>5
    <3> QED BY <3>6 DEF m
  <2> QED BY <2>2, <2>3
<1>16. Seen'
  <2> SUFFICES ASSUME NEW m \in lcd'.ram PROVE IsNew(m)' \/ IsOld(m)'
    BY DEF Seen
  <2>1. CASE m = new
    <3>1. PICK n \in Blocks, s \in String : n = i /\ s = strings
      BY <1>0, <1>12
    <3>2. PICK k \in 1..Size[s] : k = n0
      BY <1>5, <3>1
    <3>3. IsDrawn(n, s, k)'
      BY <3>1, <3>2, <1>12, <1>13
    <3>4. m = MarkOf(last[n + 1], n, s, k)
      BY <2>1, <3>1, <3>2 DEF new
    <3> QED BY <3>3, <3>4, <1>0, <1>12 DEF IsNew
  <2>2. CASE m \in lcd.ram /\ Clear(m, X(strings, n0), Y(i, strings), 9, 16)
    <3>1. IsNew(m) \/ IsOld(m)
      BY <1>0, <2>2 DEF Seen, String
    <3>2. CASE IsNew(m)
      BY <3>2, <1>0, <1>12, <1>13 DEF IsNew
    <3>3. CASE IsOld(m)
      <4>1. PICK n \in Blocks, s \in String : \E k \in 1..Size[s] :
              ~IsDrawn(n, s, k) /\ m[1] = X(s, k) /\ m[2] = Y(n, s)
        BY <3>3 DEF IsOld
      <4>2. PICK k \in 1..Size[s] : ~IsDrawn(n, s, k) /\ m[1] = X(s, k) /\ m[2] = Y(n, s)
        BY <4>1
      <4>3. ~(n = i /\ s = strings /\ k = n0)
        BY <4>2, <2>2, <1>6 DEF Clear, GlyphWidth, GlyphHeight
      <4>4. ~IsDrawn(n, s, k)'
        BY <4>2, <4>3, <1>12, <1>13
      <4> QED BY <4>2, <4>4, <1>12 DEF IsOld
    <3> QED BY <3>1, <3>2, <3>3
  <2> QED BY <1>8, <2>1, <2>2
<1> QED BY <1>0, <1>10, <1>11, <1>15, <1>16 DEF PanelInv

\* Every mark on the display is of a character that is drawn, or stands where one is still
\* to be drawn, from the first result to the next reboot (ILI9340_Write_Mining_State,
\* ILI9340_DrawChar, ILI9340_FillRect).
THEOREM PanelInvariant == Spec => [](LogInv /\ PanelInv)
<1>1. Init => PanelInv
  BY PanelStart
<1>2. LogInv /\ PanelInv /\ [Next]_vars => PanelInv'
  <2> SUFFICES ASSUME LogInv, PanelInv, [Next]_vars PROVE PanelInv'
    OBVIOUS
  <2>1. CASE UNCHANGED vars
    <3>1. UNCHANGED <<lcd, pc, i, strings, chars, last>>
      BY <2>1 DEF vars
    <3>2. CountsOK' /\ PanelOK'
      BY <3>1 DEF PanelInv, CountsOK, PanelOK
    <3>3. Kept => Kept'
      BY <3>1 DEF Kept, IsDrawn, Blocks
    <3>4. Seen => Seen'
      BY <3>1 DEF Seen, IsNew, IsOld, IsDrawn, Blocks
    <3> QED BY <3>1, <3>2, <3>3, <3>4 DEF PanelInv
  <2>2. CASE Boot
    BY <2>2, BootPanel
  <2>3. CASE ClearAll
    BY <2>3, ClearPanel
  <2>4. CASE Loading
    BY <2>4, LoadingPanel
  <2>5. CASE Wipe
    BY <2>5, WipePanel
  <2>6. CASE Draw
    BY <2>6, DrawPanel
  <2>7. CASE NextBlock
    BY <2>7, NextBlockPanel
  <2>8. CASE LoopEnds
    BY <2>8, LoopEndsPanel
  <2>9. CASE \E r \in Results : Result(r)
    BY <2>9, ResultPanel
  <2> QED BY <2>1, <2>2, <2>3, <2>4, <2>5, <2>6, <2>7, <2>8, <2>9 DEF Next
<1> QED BY <1>1, <1>2, LogInvHolds, PTL DEF Spec

-----------------------------------------------------------------------------
\* The fields of an entry, one by one
LEMMA Fields == \A f \in Field : \/ f = "index" \/ f = "result" \/ f = "hashrate"
                                  \/ f = "elapsed" \/ f = "difficulty"
BY DEF Field

\* The lengths of the texts of a result
LEMMA TextLen ==
  ASSUME NEW r \in Results
  PROVE  /\ Len(Text(r, "index")) \in 1..2 /\ Len(Text(r, "hashrate")) \in 4..5
         /\ Len(Text(r, "difficulty")) \in 1..6 /\ Len(Text(r, "elapsed")) \in 4..6
         /\ Len(Text(r, "result")) = 4
         /\ r.len.elapsed = Len(Text(r, "elapsed"))
<1>1. /\ r.len.index \in 1..2 /\ r.len.hashrate \in 4..5
      /\ r.len.difficulty \in 1..6 /\ r.len.elapsed \in 4..6 /\ r.good \in BOOLEAN
  BY ConsoleAssumption
<1>2. \A f \in Field : f # "result" /\ r.len[f] \in Nat => Len(Text(r, f)) = r.len[f]
  BY DEF Text, Field
<1>3. Len(Text(r, "result")) = 4
  <2>1. Word("GOOD", 4) \in Seq(Nat \X Nat) \/ Len(Word("GOOD", 4)) = 4
    BY WordLen
  <2>2. Len(Append(Word("BAD", 3), NUL)) = 4
    BY DEF Word
  <2>3. Len(Word("GOOD", 4)) = 4
    BY WordLen
  <2> QED BY <2>2, <2>3, <1>1 DEF Text
<1>4. /\ Len(Text(r, "index")) = r.len.index /\ Len(Text(r, "hashrate")) = r.len.hashrate
      /\ Len(Text(r, "difficulty")) = r.len.difficulty /\ Len(Text(r, "elapsed")) = r.len.elapsed
  <2>1. \A f \in Field : f # "result" => Len(Text(r, f)) = r.len[f]
    BY <1>1, <1>2, Fields
  <2> QED BY <2>1 DEF Field
<1> QED BY <1>1, <1>3, <1>4

\* What is in an entry: each text and what is behind it, save that the NUL behind a
\* time of six characters lies on the first digit of the difficulty.
LEMMA EntryByte ==
  ASSUME NEW r \in Results, NEW f \in Field, NEW k \in 1..Room[f]
  PROVE  Entry(r)[Offset[f] + k - 1] =
           IF k > Len(Text(r, f)) \/ (f = "difficulty" /\ k = 1 /\ r.len.elapsed = 6) THEN NUL ELSE Text(r, f)[k]
<1> DEFINE ti == Text(r, "index")  td == Text(r, "difficulty")  te == Text(r, "elapsed")
           th == Text(r, "hashrate")  tr == Text(r, "result")
           e1 == Put(Zeroes, "index", ti)  e2 == Put(e1, "difficulty", td)
           e3 == Put(e2, "elapsed", te)  e4 == Put(e3, "hashrate", th)  e5 == Copy(e4, "result", tr)
<1>1. Entry(r) = e5
  BY DEF Entry
<1>2. /\ Len(ti) \in 1..2 /\ Len(th) \in 4..5 /\ Len(td) \in 1..6 /\ Len(te) \in 4..6 /\ Len(tr) = 4
      /\ r.len.elapsed = Len(te)
  BY TextLen
<1> HIDE DEF ti, td, te, th, tr
<1>3. /\ Offset["index"] = 0 /\ Offset["result"] = 2 /\ Offset["hashrate"] = 6
      /\ Offset["elapsed"] = 12 /\ Offset["difficulty"] = 18
      /\ Room["index"] = 2 /\ Room["result"] = 4 /\ Room["hashrate"] = 6
      /\ Room["elapsed"] = 6 /\ Room["difficulty"] = 7
  BY DEF Offset, Room
<1>4. PICK li \in 1..2, ld \in 1..6, le \in 4..6, lh \in 4..5 :
        li = Len(ti) /\ ld = Len(td) /\ le = Len(te) /\ lh = Len(th)
  <2>1. Len(ti) \in 1..2 /\ Len(td) \in 1..6 /\ Len(te) \in 4..6 /\ Len(th) \in 4..5
    BY <1>2
  <2> QED BY Zenon, <2>1
<1>5. \A b \in Bytes : Zeroes[b] = NUL
  BY DEF Zeroes
<1>6. \A b \in Bytes : /\ b >= 0 /\ b < 0 + li => e1[b] = ti[b - 0 + 1]
                       /\ b = 0 + li => e1[b] = NUL
                       /\ b < 0 \/ b > 0 + li => e1[b] = Zeroes[b]
  <2>1. e1 = [b \in Bytes |-> CASE b \in 0..(0 + li - 1) -> ti[b - 0 + 1]
                                [] b = 0 + li -> NUL
                                [] OTHER -> Zeroes[b]]
    BY <1>3, <1>4 DEF Put
  <2> HIDE DEF e1
  <2>2. \A b \in Bytes : e1[b] = CASE b \in 0..(0 + li - 1) -> ti[b - 0 + 1]
                                [] b = 0 + li -> NUL
                                [] OTHER -> Zeroes[b]
    BY <2>1
  <2>3. Bytes \subseteq Nat /\ li \in Nat
    BY <1>4 DEF Bytes
  <2> QED BY <2>2, <2>3
<1> HIDE DEF e1
<1>7. \A b \in Bytes : /\ b >= 18 /\ b < 18 + ld => e2[b] = td[b - 18 + 1]
                       /\ b = 18 + ld => e2[b] = NUL
                       /\ b < 18 \/ b > 18 + ld => e2[b] = e1[b]
  <2>1. e2 = [b \in Bytes |-> CASE b \in 18..(18 + ld - 1) -> td[b - 18 + 1]
                                [] b = 18 + ld -> NUL
                                [] OTHER -> e1[b]]
    BY <1>3, <1>4 DEF Put
  <2> HIDE DEF e2
  <2>2. \A b \in Bytes : e2[b] = CASE b \in 18..(18 + ld - 1) -> td[b - 18 + 1]
                                [] b = 18 + ld -> NUL
                                [] OTHER -> e1[b]
    BY <2>1
  <2>3. Bytes \subseteq Nat /\ ld \in Nat
    BY <1>4 DEF Bytes
  <2> QED BY <2>2, <2>3
<1> HIDE DEF e2
<1>8. \A b \in Bytes : /\ b >= 12 /\ b < 12 + le => e3[b] = te[b - 12 + 1]
                       /\ b = 12 + le => e3[b] = NUL
                       /\ b < 12 \/ b > 12 + le => e3[b] = e2[b]
  <2>1. e3 = [b \in Bytes |-> CASE b \in 12..(12 + le - 1) -> te[b - 12 + 1]
                                [] b = 12 + le -> NUL
                                [] OTHER -> e2[b]]
    BY <1>3, <1>4 DEF Put
  <2> HIDE DEF e3
  <2>2. \A b \in Bytes : e3[b] = CASE b \in 12..(12 + le - 1) -> te[b - 12 + 1]
                                [] b = 12 + le -> NUL
                                [] OTHER -> e2[b]
    BY <2>1
  <2>3. Bytes \subseteq Nat /\ le \in Nat
    BY <1>4 DEF Bytes
  <2> QED BY <2>2, <2>3
<1> HIDE DEF e3
<1>9. \A b \in Bytes : /\ b >= 6 /\ b < 6 + lh => e4[b] = th[b - 6 + 1]
                       /\ b = 6 + lh => e4[b] = NUL
                       /\ b < 6 \/ b > 6 + lh => e4[b] = e3[b]
  <2>1. e4 = [b \in Bytes |-> CASE b \in 6..(6 + lh - 1) -> th[b - 6 + 1]
                                [] b = 6 + lh -> NUL
                                [] OTHER -> e3[b]]
    BY <1>3, <1>4 DEF Put
  <2> HIDE DEF e4
  <2>2. \A b \in Bytes : e4[b] = CASE b \in 6..(6 + lh - 1) -> th[b - 6 + 1]
                                [] b = 6 + lh -> NUL
                                [] OTHER -> e3[b]
    BY <2>1
  <2>3. Bytes \subseteq Nat /\ lh \in Nat
    BY <1>4 DEF Bytes
  <2> QED BY <2>2, <2>3
<1> HIDE DEF e4
<1>10. \A b \in Bytes : e5[b] = IF b \in 2..5 THEN tr[b - 2 + 1] ELSE e4[b]
  BY <1>3 DEF Copy
<1> HIDE DEF e5
<1>11. /\ li \in Nat /\ ld \in Nat /\ le \in Nat /\ lh \in Nat /\ k \in Nat /\ k >= 1
       /\ li <= 2 /\ le <= 6 /\ lh <= 5
  <2>1. k \in Nat /\ k >= 1
    BY <1>3, Fields
  <2>2. /\ li \in Nat /\ ld \in Nat /\ le \in Nat /\ lh \in Nat
        /\ li <= 2 /\ le <= 6 /\ lh <= 5
    OBVIOUS
  <2> QED BY <2>1, <2>2
<1>12. CASE f = "index"
  <2>1. k <= 2 /\ Offset[f] = 0
    BY <1>12, <1>3
  <2>2. PICK b \in Bytes : b = 0 + k - 1
    BY <1>11, <2>1 DEF Bytes
  <2>3. b \in Nat /\ b - 0 + 1 = k
    BY <1>11, <2>2
  <2>4. e5[b] = IF k > li THEN NUL ELSE ti[k]
    <3>1. e5[b] = e4[b]
      BY <1>11, <2>1, <2>2, <2>3, <1>10
    <3>2. e4[b] = e3[b]
      BY <1>11, <2>1, <2>2, <2>3, <1>9
    <3>3. e3[b] = e2[b]
      BY <1>11, <2>1, <2>2, <2>3, <1>8
    <3>4. e2[b] = e1[b]
      BY <1>11, <2>1, <2>2, <2>3, <1>7
    <3>5. e1[b] = IF b < li THEN ti[b - 0 + 1] ELSE NUL
      BY <1>11, <2>1, <2>2, <2>3, <1>5, <1>6
    <3>6. b < li <=> ~(k > li)
      BY <1>11, <2>1, <2>2, <2>3
    <3> QED BY <2>3, <3>1, <3>2, <3>3, <3>4, <3>5, <3>6
  <2>5. Len(Text(r, f)) = li /\ Text(r, f) = ti /\ r.len.elapsed = le
    BY <1>2, <1>4, <1>12 DEF ti
  <2> QED BY <1>1, <1>11, <1>12, <2>1, <2>2, <2>4, <2>5
<1>13. CASE f = "result"
  <2>1. k <= 4 /\ Offset[f] = 2
    BY <1>13, <1>3
  <2>2. PICK b \in Bytes : b = 2 + k - 1
    BY <1>11, <2>1 DEF Bytes
  <2>3. b \in Nat /\ b - 2 + 1 = k
    BY <1>11, <2>2
  <2>4. e5[b] = tr[k]
    <3>1. b \in 2..5
      BY <1>11, <2>1, <2>2, <2>3
    <3> QED BY <1>10, <2>3, <3>1
  <2>5. Len(Text(r, f)) = 4 /\ Text(r, f) = tr /\ r.len.elapsed = le
    BY <1>2, <1>4, <1>13 DEF tr
  <2> QED BY <1>1, <1>11, <1>13, <2>1, <2>2, <2>4, <2>5
<1>14. CASE f = "hashrate"
  <2>1. k <= 6 /\ Offset[f] = 6
    BY <1>14, <1>3
  <2>2. PICK b \in Bytes : b = 6 + k - 1
    BY <1>11, <2>1 DEF Bytes
  <2>3. b \in Nat /\ b - 6 + 1 = k
    BY <1>11, <2>2
  <2>4. e5[b] = IF k > lh THEN NUL ELSE th[k]
    <3>1. e5[b] = e4[b]
      BY <1>11, <2>1, <2>2, <2>3, <1>10
    <3>2. b < 6 + lh => e4[b] = th[b - 6 + 1]
      BY <1>11, <2>1, <2>2, <2>3, <1>9
    <3>3. b = 6 + lh => e4[b] = NUL
      BY <1>11, <2>1, <2>2, <2>3, <1>9
    <3>4. b > 6 + lh => e4[b] = e3[b]
      BY <1>11, <2>1, <2>2, <2>3, <1>9
    <3>5. e3[b] = e2[b]
      BY <1>11, <2>1, <2>2, <2>3, <1>8
    <3>6. e2[b] = e1[b]
      BY <1>11, <2>1, <2>2, <2>3, <1>7
    <3>7. e1[b] = NUL
      <4>1. b >= li
        BY <1>11, <2>1, <2>2, <2>3
      <4>2. \A c \in Bytes : c >= li => e1[c] = NUL
        BY <1>5, <1>6, <1>11 DEF Bytes
      <4> QED BY <4>1, <4>2
    <3>8. /\ b < 6 + lh <=> ~(k > lh)
          /\ k > lh => b = 6 + lh \/ b > 6 + lh
      BY <1>11, <2>1, <2>2, <2>3
    <3> QED BY <2>3, <3>1, <3>2, <3>3, <3>4, <3>5, <3>6, <3>7, <3>8
  <2>5. Len(Text(r, f)) = lh /\ Text(r, f) = th /\ r.len.elapsed = le
    BY <1>2, <1>4, <1>14 DEF th
  <2> QED BY <1>1, <1>11, <1>14, <2>1, <2>2, <2>4, <2>5
<1>15. CASE f = "elapsed"
  <2>1. k <= 6 /\ Offset[f] = 12
    BY <1>15, <1>3
  <2>2. PICK b \in Bytes : b = 12 + k - 1
    BY <1>11, <2>1 DEF Bytes
  <2>3. b \in Nat /\ b - 12 + 1 = k
    BY <1>11, <2>2
  <2>4. e5[b] = IF k > le THEN NUL ELSE te[k]
    <3>0. b >= 12 /\ b > 6 + lh
      BY <1>11, <2>1, <2>2, <2>3
    <3>1. e5[b] = e4[b] /\ e4[b] = e3[b]
      <4>1. e5[b] = e4[b]
        BY <3>0, <2>3, <1>10
      <4>2. e4[b] = e3[b]
        BY <3>0, <1>9
      <4> QED BY <4>1, <4>2
    <3>2. b < 12 + le => e3[b] = te[b - 12 + 1]
      BY <1>11, <2>1, <2>2, <2>3, <1>8
    <3>3. b = 12 + le => e3[b] = NUL
      BY <1>11, <2>1, <2>2, <2>3, <1>8
    <3>4. b > 12 + le => e3[b] = e2[b]
      BY <1>11, <2>1, <2>2, <2>3, <1>8
    <3>5. e2[b] = e1[b]
      BY <1>11, <2>1, <2>2, <2>3, <1>7
    <3>6. e1[b] = NUL
      <4>1. b >= li
        BY <1>11, <2>1, <2>2, <2>3
      <4>2. \A c \in Bytes : c >= li => e1[c] = NUL
        BY <1>5, <1>6, <1>11 DEF Bytes
      <4> QED BY <4>1, <4>2
    <3>7. /\ b < 12 + le <=> ~(k > le)
          /\ k > le => b = 12 + le \/ b > 12 + le
      BY <1>11, <2>1, <2>2, <2>3
    <3> QED BY <2>3, <3>1, <3>2, <3>3, <3>4, <3>5, <3>6, <3>7
  <2>5. Len(Text(r, f)) = le /\ Text(r, f) = te /\ r.len.elapsed = le
    BY <1>2, <1>4, <1>15 DEF te
  <2> QED BY <1>1, <1>11, <1>15, <2>1, <2>2, <2>4, <2>5
<1>16. CASE f = "difficulty"
  <2>1. k <= 7 /\ Offset[f] = 18
    BY <1>16, <1>3
  <2>2. PICK b \in Bytes : b = 18 + k - 1
    BY <1>11, <2>1 DEF Bytes
  <2>3. b \in Nat /\ b - 18 + 1 = k
    BY <1>11, <2>2
  <2>4. e5[b] = IF k > ld \/ (k = 1 /\ le = 6) THEN NUL ELSE td[k]
    <3>0. b >= 12 /\ b > 6 + lh
      BY <1>11, <2>1, <2>2, <2>3
    <3>1. e5[b] = e4[b] /\ e4[b] = e3[b]
      <4>1. e5[b] = e4[b]
        BY <3>0, <2>3, <1>10
      <4>2. e4[b] = e3[b]
        BY <3>0, <1>9
      <4> QED BY <4>1, <4>2
    <3>2. b = 12 + le => e3[b] = NUL
      BY <1>11, <2>1, <2>2, <2>3, <1>8
    <3>3. b # 12 + le => e3[b] = e2[b]
      <4>1. b >= 12 + le /\ 12 + le \in Nat
        BY <1>11, <2>1, <2>2, <2>3
      <4>2. b # 12 + le => b > 12 + le
        BY <4>1, <2>3
      <4> QED BY <4>2, <1>8
    <3>4. b < 18 + ld => e2[b] = td[b - 18 + 1]
      BY <1>11, <2>1, <2>2, <2>3, <1>7
    <3>5. b = 18 + ld => e2[b] = NUL
      BY <1>11, <2>1, <2>2, <2>3, <1>7
    <3>6. b > 18 + ld => e2[b] = e1[b]
      BY <1>11, <2>1, <2>2, <2>3, <1>7
    <3>7. e1[b] = NUL
      <4>1. b >= li
        BY <1>11, <2>1, <2>2, <2>3
      <4>2. \A c \in Bytes : c >= li => e1[c] = NUL
        BY <1>5, <1>6, <1>11 DEF Bytes
      <4> QED BY <4>1, <4>2
    <3>8. /\ b < 18 + ld <=> ~(k > ld)
          /\ k > ld => b = 18 + ld \/ b > 18 + ld
      BY <1>11, <2>1, <2>2, <2>3
    <3>9. b = 12 + le <=> (k = 1 /\ le = 6)
      BY <1>11, <2>1, <2>2, <2>3
    <3> QED BY <2>3, <3>1, <3>2, <3>3, <3>4, <3>5, <3>6, <3>7, <3>8, <3>9
  <2>5. Len(Text(r, f)) = ld /\ Text(r, f) = td /\ r.len.elapsed = le
    BY <1>2, <1>4, <1>16 DEF td
  <2> QED BY <1>1, <1>11, <1>16, <2>1, <2>2, <2>4, <2>5
<1> QED BY Fields, <1>12, <1>13, <1>14, <1>15, <1>16

\* A field is drawn as it is to be read: what the font does not have is a space.
LEMMA ReadsAre ==
  ASSUME NEW r \in Results, NEW f \in Field, NEW k \in 1..Room[f],
         Fits(r) \/ f # "difficulty" \/ k # 1
  PROVE  Reads(r, f)[k] = Glyph(At(Entry(r), f)[k])
<1>1. At(Entry(r), f)[k] = Entry(r)[Offset[f] + k - 1]
  BY DEF At
<1>2. Reads(r, f)[k] = IF k > Len(Text(r, f)) THEN Space ELSE Glyph(Text(r, f)[k])
  BY DEF Reads
<1>3. Entry(r)[Offset[f] + k - 1] =
        IF k > Len(Text(r, f)) \/ (f = "difficulty" /\ k = 1 /\ r.len.elapsed = 6) THEN NUL ELSE Text(r, f)[k]
  BY EntryByte
<1>4. Glyph(NUL) = Space
  BY DEF Glyph
<1>5. Fits(r) => r.len.elapsed # 6
  <2>1. Len(Text(r, "elapsed")) = r.len.elapsed /\ r.len.elapsed \in 4..6 /\ Room["elapsed"] = 6
    BY TextLen DEF Room
  <2> QED BY <2>1 DEF Fits
<1> QED BY Zenon, <1>1, <1>2, <1>3, <1>4, <1>5

\* The colours tell the verdict that was put into the entry.
LEMMA VerdictIs == ASSUME NEW r \in Results PROVE Ink(At(Entry(r), "result")) = Ink(Text(r, "result"))
<1> DEFINE at == At(Entry(r), "result")
           text == Text(r, "result")
<1>1. \A k \in 1..4 : at[k] = text[k]
  <2> TAKE k \in 1..4
  <2>1. "result" \in Field /\ "result" # "difficulty" /\ Room["result"] = 4
    BY DEF Field, Room
  <2>2. k \in 1..Room["result"]
    BY <2>1
  <2>3. ~(k > Len(Text(r, "result")))
    <3>1. Len(Text(r, "result")) = 4
      BY TextLen
    <3>2. ~(k > 4)
      OBVIOUS
    <3> QED BY Zenon, <3>1, <3>2
  <2>4. Entry(r)[Offset["result"] + k - 1] = Text(r, "result")[k]
    BY Zenon, <2>1, <2>2, <2>3, EntryByte
  <2> QED BY <2>2, <2>4 DEF At
<1>2. at = [k \in 1..4 |-> at[k]]
  BY DEF At, Room
<1> HIDE DEF at
<1>3. CASE r.good
  <2>1. text = Word("GOOD", 4) /\ Word("GOOD", 4) = [k \in 1..4 |-> <<"GOOD", k>>]
    BY <1>3 DEF Text, Word
  <2>2. at = text
    BY <1>1, <1>2, <2>1
  <2> QED BY <2>2 DEF at
<1>4. CASE ~r.good
  <2>1. text[1] # Word("GOOD", 4)[1]
    <3>1. text = Append(Word("BAD", 3), NUL) /\ Word("BAD", 3) = [k \in 1..3 |-> <<"BAD", k>>]
      BY <1>4 DEF Text, Word
    <3>2. text[1] = <<"BAD", 1>>
      BY <3>1
    <3>3. Word("GOOD", 4)[1] = <<"GOOD", 1>>
      BY DEF Word
    <3> QED BY <3>2, <3>3
  <2>2. at # Word("GOOD", 4) /\ text # Word("GOOD", 4)
    BY <1>1, <2>1
  <2> QED BY <2>2 DEF Ink, at
<1> QED BY <1>3, <1>4

\* The font has every character of a label.
LEMMA WordGlyph == \A x : \A n \in Nat : \A k \in 1..n : Word(x, n)[k] = Glyph(Word(x, n)[k])
<1> SUFFICES ASSUME NEW x, NEW n \in Nat, NEW k \in 1..n PROVE Word(x, n)[k] = Glyph(Word(x, n)[k])
  OBVIOUS
<1>1. Word(x, n)[k] = <<x, k>>
  BY DEF Word
<1>2. <<x, k>> # NUL
  BY DEF NUL
<1> QED BY <1>1, <1>2 DEF Glyph

\* The marks of a label are those of its string.
LEMMA LabelMarks ==
  ASSUME NEW r, NEW n \in Nat, NEW s \in String, NEW w, NEW len \in Nat, len = Size[s], NEW l,
         l = Drawn(Entry(r))[s], l[3] = Word(w, len)
  PROVE  \A m : m \in Marks(l[1], Top(n) + l[2], l[3], l[4]) <=> \E k \in 1..Size[s] : m = MarkOf(r, n, s, k)
<1>0. PICK x, y, text, ink : x = l[1] /\ y = Top(n) + l[2] /\ text = l[3] /\ ink = l[4]
  OBVIOUS
<1>1. x = Left[s] /\ y = Top(n) + Line[s] /\ ink = Drawn(Entry(r))[s][4]
  BY <1>0, DrawnShape
<1>2. DOMAIN text = 1..Size[s]
  BY <1>0 DEF Word
<1>3. \A k \in 1..Size[s] : text[k] = Glyph(Drawn(Entry(r))[s][3][k])
  BY <1>0, WordGlyph
<1>5. Marks(x, y, text, ink) = {<<x + 10 * (k - 1), y, text[k], ink>> : k \in 1..Size[s]}
  BY <1>2 DEF Marks, TextOffset
<1>6. \A k \in 1..Size[s] : MarkOf(r, n, s, k) = <<x + 10 * (k - 1), y, text[k], ink>>
  BY <1>1, <1>3 DEF MarkOf, X, Y
<1> QED BY <1>0, <1>5, <1>6

\* Where nothing can be said of a mark of the n-th block
Lost(r, n, m) == ~Fits(r) /\ m[1] = Columns["difficulty"] /\ m[2] = Top(n) + Row["difficulty"]

\* The marks of a field are those of its string.
LEMMA FieldMarks ==
  ASSUME NEW r \in Results, NEW n \in Nat, NEW s \in String, NEW f \in Field, Room[f] = Size[s],
         Drawn(Entry(r))[s] = Number(Entry(r), f)
  PROVE  \A m : ~Lost(r, n, m) =>
           (m \in Marks(Columns[f], Top(n) + Row[f], Reads(r, f), Ink(Text(r, "result"))[f])
              <=> \E k \in 1..Size[s] : m = MarkOf(r, n, s, k))
<1>0. PICK x, y, text, ink : /\ x = Columns[f] /\ y = Top(n) + Row[f] /\ text = Reads(r, f)
                             /\ ink = Ink(Text(r, "result"))[f]
  OBVIOUS
<1>1. /\ Columns[f] = Left[s] /\ Row[f] = Line[s]
      /\ Drawn(Entry(r))[s][3] = At(Entry(r), f)
      /\ Drawn(Entry(r))[s][4] = Ink(At(Entry(r), "result"))[f]
  BY DrawnShape, NumberIs
<1>2. DOMAIN text = 1..Size[s]
  BY <1>0 DEF Reads
<1>3. \A k \in 1..Size[s] : Fits(r) \/ f # "difficulty" \/ k # 1 => text[k] = Glyph(Drawn(Entry(r))[s][3][k])
  BY <1>0, <1>1, ReadsAre
<1>4. x = Left[s] /\ y = Top(n) + Line[s] /\ ink = Drawn(Entry(r))[s][4]
  BY <1>0, <1>1, VerdictIs
<1>5. Marks(x, y, text, ink) = {<<x + 10 * (k - 1), y, text[k], ink>> : k \in 1..Size[s]}
  BY <1>2 DEF Marks, TextOffset
<1>6. \A k \in 1..Size[s] : Fits(r) \/ f # "difficulty" \/ k # 1
                             => MarkOf(r, n, s, k) = <<x + 10 * (k - 1), y, text[k], ink>>
  BY <1>4, <1>3 DEF MarkOf, X, Y
<1>7. ASSUME ~Fits(r), f = "difficulty", NEW m, ~Lost(r, n, m),
             m \in Marks(x, y, text, ink) \/ \E k \in 1..Size[s] : m = MarkOf(r, n, s, k)
      PROVE  m # <<x + 10 * (1 - 1), y, text[1], ink>> /\ m # MarkOf(r, n, s, 1)
  <2>1. x \in Nat /\ x + 10 * (1 - 1) = x
    BY <1>1, <1>4, Layout
  <2>2. MarkOf(r, n, s, 1)[1] = x /\ MarkOf(r, n, s, 1)[2] = y
    BY <1>4, <2>1, MarkIs DEF X, Y
  <2> QED BY <1>0, <1>7, <2>1, <2>2 DEF Lost
<1>8. ASSUME NEW m, ~Lost(r, n, m)
      PROVE  m \in Marks(x, y, text, ink) <=> \E k \in 1..Size[s] : m = MarkOf(r, n, s, k)
  <2>1. CASE Fits(r) \/ f # "difficulty"
    BY <1>5, <1>6, <2>1
  <2>2. CASE ~Fits(r) /\ f = "difficulty"
    <3>1. ASSUME m \in Marks(x, y, text, ink) PROVE \E k \in 1..Size[s] : m = MarkOf(r, n, s, k)
      BY <1>5, <1>6, <1>7, <1>8, <2>2, <3>1
    <3>2. ASSUME NEW k \in 1..Size[s], m = MarkOf(r, n, s, k) PROVE m \in Marks(x, y, text, ink)
      BY <1>5, <1>6, <1>7, <1>8, <2>2, <3>2
    <3> QED BY <3>1, <3>2
  <2> QED BY <2>1, <2>2
<1> QED BY <1>0, <1>8

\* A block holds the characters that are drawn for its result.
LEMMA BlockIs ==
  ASSUME NEW r \in Results, NEW n \in Nat
  PROVE  \A m : ~Lost(r, n, m) => (m \in Block(Top(n), r) <=> \E s \in String : \E k \in 1..Size[s] : m = MarkOf(r, n, s, k))
<1> DEFINE e == Entry(r)
           LM(l) == Marks(l[1], Top(n) + l[2], l[3], l[4])
           FM(f) == Marks(Columns[f], Top(n) + Row[f], Reads(r, f), Ink(Text(r, "result"))[f])
           Of(m, s) == \E k \in 1..Size[s] : m = MarkOf(r, n, s, k)
<1>1. \A m : m \in Block(Top(n), r) <=> \/ \E l \in Labels : m \in LM(l)
                                        \/ \E f \in Field : m \in FM(f)
  BY DEF Block
<1>2. Labels = {Label.slave, Label.diff, Label.rate, Label.open, Label.close}
  <2>1. DOMAIN Label = {"slave", "diff", "rate", "open", "close"}
    BY DEF Label
  <2> QED BY <2>1 DEF Labels
<1>3. /\ Drawn(e)[1] = Label.slave /\ Drawn(e)[2] = Number(e, "index")
      /\ Drawn(e)[3] = Number(e, "result") /\ Drawn(e)[4] = Label.diff
      /\ Drawn(e)[5] = Number(e, "difficulty") /\ Drawn(e)[6] = Number(e, "hashrate")
      /\ Drawn(e)[7] = Label.rate /\ Drawn(e)[8] = Label.open
      /\ Drawn(e)[9] = Number(e, "elapsed") /\ Drawn(e)[10] = Label.close
  BY DrawnIs
<1>4. /\ 1 \in String /\ 4 \in String /\ 7 \in String /\ 8 \in String /\ 10 \in String
      /\ Size[1] = 3 /\ Size[4] = 4 /\ Size[7] = 4 /\ Size[8] = 1 /\ Size[10] = 2
  BY DEF String, Size
<1>5. ASSUME NEW s \in String, NEW w, NEW len \in Nat, len = Size[s], NEW l, l = Drawn(e)[s], l[3] = Word(w, len)
      PROVE  \A m : m \in LM(l) <=> Of(m, s)
  <2>1. \A m : m \in Marks(l[1], Top(n) + l[2], l[3], l[4]) <=> \E k \in 1..Size[s] : m = MarkOf(r, n, s, k)
    BY <1>5, LabelMarks
  <2> QED BY <2>1
<1>6. ASSUME NEW s \in String, NEW f \in Field, Room[f] = Size[s], Drawn(e)[s] = Number(e, f)
      PROVE  \A m : ~Lost(r, n, m) => (m \in FM(f) <=> Of(m, s))
  BY <1>6, FieldMarks
<1> HIDE DEF LM, FM, Of
<1>7. \A m : m \in LM(Label.slave) <=> Of(m, 1)
  BY <1>3, <1>4, <1>5, LabelIs
<1>8. \A m : m \in LM(Label.diff) <=> Of(m, 4)
  BY <1>3, <1>4, <1>5, LabelIs
<1>9. \A m : m \in LM(Label.rate) <=> Of(m, 7)
  BY <1>3, <1>4, <1>5, LabelIs
<1>10. \A m : m \in LM(Label.open) <=> Of(m, 8)
  BY <1>3, <1>4, <1>5, LabelIs
<1>11. \A m : m \in LM(Label.close) <=> Of(m, 10)
  BY <1>3, <1>4, <1>5, LabelIs
<1>12. \A m : ~Lost(r, n, m) => (m \in FM("index") <=> Of(m, 2))
  <2>1. 2 \in String /\ "index" \in Field /\ Room["index"] = Size[2]
    BY DEF String, Field, Room, Size
  <2> QED BY <1>3, <1>6, <2>1
<1>13. \A m : ~Lost(r, n, m) => (m \in FM("result") <=> Of(m, 3))
  <2>1. 3 \in String /\ "result" \in Field /\ Room["result"] = Size[3]
    BY DEF String, Field, Room, Size
  <2> QED BY <1>3, <1>6, <2>1
<1>14. \A m : ~Lost(r, n, m) => (m \in FM("difficulty") <=> Of(m, 5))
  <2>1. 5 \in String /\ "difficulty" \in Field /\ Room["difficulty"] = Size[5]
    BY DEF String, Field, Room, Size
  <2> QED BY <1>3, <1>6, <2>1
<1>15. \A m : ~Lost(r, n, m) => (m \in FM("hashrate") <=> Of(m, 6))
  <2>1. 6 \in String /\ "hashrate" \in Field /\ Room["hashrate"] = Size[6]
    BY DEF String, Field, Room, Size
  <2> QED BY <1>3, <1>6, <2>1
<1>16. \A m : ~Lost(r, n, m) => (m \in FM("elapsed") <=> Of(m, 9))
  <2>1. 9 \in String /\ "elapsed" \in Field /\ Room["elapsed"] = Size[9]
    BY DEF String, Field, Room, Size
  <2> QED BY <1>3, <1>6, <2>1
<1>17. \A m : (\E l \in Labels : m \in LM(l)) <=> Of(m, 1) \/ Of(m, 4) \/ Of(m, 7) \/ Of(m, 8) \/ Of(m, 10)
  BY <1>2, <1>7, <1>8, <1>9, <1>10, <1>11
<1>18. \A m : ~Lost(r, n, m) =>
          ((\E f \in Field : m \in FM(f)) <=> Of(m, 2) \/ Of(m, 3) \/ Of(m, 5) \/ Of(m, 6) \/ Of(m, 9))
  BY <1>12, <1>13, <1>14, <1>15, <1>16 DEF Field
<1>19. \A m : (\E s \in String : Of(m, s)) <=> \/ Of(m, 1) \/ Of(m, 2) \/ Of(m, 3) \/ Of(m, 4) \/ Of(m, 5)
                                               \/ Of(m, 6) \/ Of(m, 7) \/ Of(m, 8) \/ Of(m, 9) \/ Of(m, 10)
  BY Strings DEF String
<1>20. \A m : ~Lost(r, n, m) => (m \in Block(Top(n), r) <=> \E s \in String : Of(m, s))
  BY <1>1, <1>17, <1>18, <1>19
<1> QED BY <1>20 DEF Of

\* At rest nothing is left to be drawn: the marks are those of the last results.
LEMMA PanelShowsLast == ASSUME LogInv, PanelInv PROVE LinesAreLast
<1> SUFFICES ASSUME pc = "idle", last # <<>>
             PROVE  Sure(lcd.ram) = Sure(UNION {Block(Top(n - 1), last[n]) : n \in DOMAIN last})
  BY DEF LinesAreLast
<1>1. last \in Seq(Results) /\ Len(last) \in Nat /\ i = Len(last) /\ i # 0 /\ Kept /\ Seen
  BY DEF PanelInv, LogInv, Indices
<1>2. \A n \in Blocks, s \in String : \A k \in 1..Size[s] : IsDrawn(n, s, k)
  BY <1>1 DEF IsDrawn, Blocks
<1>3. \A m : m \in lcd.ram <=> \E n \in Blocks : \E s \in String : \E k \in 1..Size[s] : m = MarkOf(last[n + 1], n, s, k)
  <2>1. ASSUME NEW m \in lcd.ram
        PROVE  \E n \in Blocks : \E s \in String : \E k \in 1..Size[s] : m = MarkOf(last[n + 1], n, s, k)
    BY <1>1, <1>2 DEF Seen, IsNew, IsOld
  <2>2. ASSUME NEW n \in Blocks, NEW s \in String, NEW k \in 1..Size[s]
        PROVE  MarkOf(last[n + 1], n, s, k) \in lcd.ram
    BY <1>1, <1>2 DEF Kept
  <2> QED BY <2>1, <2>2
<1>4. \A n \in Blocks : n \in Nat /\ last[n + 1] \in Results
  BY <1>1 DEF Blocks
<1>5. ASSUME NEW m, <<m[1], m[2]>> \notin LetOff
      PROVE  m \in lcd.ram <=> \E n \in Blocks : m \in Block(Top(n), last[n + 1])
  <2>1. ASSUME NEW n \in Blocks PROVE ~Lost(last[n + 1], n, m)
    <3>1. n + 1 \in DOMAIN last /\ (n + 1) - 1 = n
      BY <1>1 DEF Blocks
    <3>2. ~Fits(last[n + 1]) => <<Columns["difficulty"], Top(n) + Row["difficulty"]>> \in LetOff
      BY <3>1 DEF LetOff
    <3> QED BY <1>5, <3>2 DEF Lost
  <2>2. \A n \in Blocks : m \in Block(Top(n), last[n + 1])
                          <=> \E s \in String : \E k \in 1..Size[s] : m = MarkOf(last[n + 1], n, s, k)
    BY <1>4, <2>1, BlockIs
  <2> QED BY <1>3, <2>2
<1>6. {Block(Top(n - 1), last[n]) : n \in DOMAIN last} = {Block(Top(n), last[n + 1]) : n \in Blocks}
  <2>1. ASSUME NEW n \in DOMAIN last
        PROVE  n - 1 \in Blocks /\ (n - 1) + 1 = n
    BY <1>1 DEF Blocks
  <2>2. ASSUME NEW n \in Blocks
        PROVE  n + 1 \in DOMAIN last /\ (n + 1) - 1 = n
    BY <1>1 DEF Blocks
  <2> QED BY <2>1, <2>2
<1>7. \A m : <<m[1], m[2]>> \notin LetOff =>
        (m \in lcd.ram <=> m \in UNION {Block(Top(n - 1), last[n]) : n \in DOMAIN last})
  BY <1>5, <1>6
<1> QED BY <1>7 DEF Sure

\* Once a result is drawn the display shows the last results, oldest first, each text
\* complete and in its own place, and nothing else (set_lcd_print_log,
\* ILI9340_Write_Mining_State, ILI9340_DrawChar), for texts of any of the lengths; only
\* of the first digit of a difficulty nothing is said when the time is 100 s or more.
THEOREM LinesAlwaysLast == Spec => []LinesAreLast
BY PanelInvariant, PanelShowsLast, PTL

(***************************************************************************)
(* THE SCHEDULE OF THE CLIENTS                                             *)
(*                                                                         *)
(* TurnComes bounds a wait.  The proof says where a wait stands in the     *)
(* hour: Behind counts the ticks since the minute of a client began, below *)
(* 0 as long as it is to come, and a wait is never longer than its cause   *)
(* is worth and Behind (Awaited).  A pass shorter than a minute reads      *)
(* every minute, so the clock is read in it before it is over (ClockTurn), *)
(* and then one turn and one pass are left (Due).                          *)
(***************************************************************************)

Ticks(n) == n * Minute
Ring == Ticks(Hour)

TimesOK == tick \in 0..(Ring - 1) /\ dog \in 0..Dog /\ g_start_min \in -1..(Hour - 1)
ClientsOK ==
  /\ todo \subseteq Clients
  /\ wait \in [Clients -> -1..(Hour - 1)]
  /\ state \in [Clients -> {"CONNECT", "away"}]
  /\ why \in [Clients -> {"start", "reboot", "connect failed", "failed", "closed", "no pcb"}]
  /\ since \in [Clients -> Nat]

ScheduleTypeOK == TimesOK /\ ClientsOK

\* A time that is given as ticks since the hour began, or until it begins
InHour(t) == IF t < 0 THEN t + Ring ELSE t

\* The clock was read dog ticks ago, at minute g_start_min; before it is first read it goes on
\* from minute 1, second 1.
ClockInv ==
  /\ g_start_min # -1 => /\ Ticks(g_start_min) <= InHour(tick - dog)
                         /\ InHour(tick - dog) < Ticks(g_start_min) + Minute
  /\ g_start_min = -1 => tick = Minute + 1 + dog

\* Before the clock is first read every client waits for a minute; later, one that is not
\* in CONNECT has none.
WaitInv ==
  \A c \in Clients : /\ state[c] = "away" => wait[c] = -1 /\ g_start_min # -1
                     /\ g_start_min = -1 => wait[c] # -1

\* The ticks since the minute of c began, below 0 as long as it is to come.  It has begun
\* only since the clock was read; or the clock has not been read yet.
Behind(c) ==
  LET ago == InHour(tick - Ticks(wait[c]))
  IN  IF ago < dog + (IF g_start_min = -1 THEN 2 ELSE 0) THEN ago ELSE ago - Ring

\* The minute of c is to come, or the clock has not been read in it.
Awaited(c) == since[c] <= Ticks(Minutes(c)) + Behind(c)

\* The clock has been read in the minute of c, and its turn is to come.
Due(c) == wait[c] = g_start_min /\ c \in todo /\ since[c] <= Ticks(Minutes(c)) + Dog + dog

\* c has no minute, and opens at its next turn.
AtOnce(c) == since[c] <= dog + (IF c \in todo THEN Dog ELSE 0)

InTurn(c) == state[c] = "CONNECT" => IF wait[c] = -1 THEN AtOnce(c) ELSE Awaited(c) \/ Due(c)
TurnInv == \A c \in Clients : InTurn(c)

ScheduleInv == ScheduleTypeOK /\ ClockInv /\ WaitInv /\ TurnInv

-----------------------------------------------------------------------------
\* The constants as numbers
LEMMA Sizes == Minute \in Nat /\ Hour \in Nat /\ Hour > 2 /\ Dog \in Nat /\ Dog > 0 /\ Dog < Minute
<1>1. Hour \in Nat /\ Minute \in Nat /\ Dog \in 1..(Minute - 1) /\ Hour > 2
  BY ScheduleAssumption
<1> QED BY <1>1

\* Minutes in ticks
LEMMA TicksOf ==
  /\ \A n \in Int : /\ Ticks(n) \in Int /\ Ticks(n + 1) = Ticks(n) + Minute
                    /\ Ticks(n + 2) = Ticks(n) + 2 * Minute /\ Ticks(n - 1) = Ticks(n) - Minute
                    /\ Ticks(n - Hour) = Ticks(n) - Ring
  /\ \A n \in Nat : Ticks(n) \in Nat
  /\ \A n \in 0..(Hour - 1) : Ticks(n) + Minute <= Ring
  /\ Ring \in Nat /\ Ring >= 3 * Minute
  /\ Ticks(0) = 0
<1>0. Minute \in Nat /\ Hour \in Nat /\ Hour >= 3
  BY Sizes
<1>1. \A n \in Int : /\ Ticks(n) \in Int /\ Ticks(n + 1) = Ticks(n) + Minute
                     /\ Ticks(n + 2) = Ticks(n) + 2 * Minute /\ Ticks(n - 1) = Ticks(n) - Minute
  BY <1>0 DEF Ticks
<1>2. \A a, b \in Int : Ticks(a - b) = Ticks(a) - Ticks(b)
  BY <1>0 DEF Ticks
<1>3. \A n \in Nat : Ticks(n) \in Nat
  BY <1>0 DEF Ticks
<1>4. \A n \in Nat : n < Hour => Ticks(n) + Minute <= Ring
  <2> TAKE n \in Nat
  <2> HAVE n < Hour
  <2>1. Hour - (n + 1) \in Nat /\ n + 1 \in Int /\ n \in Int /\ Hour \in Int
    BY <1>0
  <2>2. Ticks(Hour - (n + 1)) = Ticks(Hour) - Ticks(n + 1) /\ Ticks(Hour - (n + 1)) \in Nat
    BY <1>2, <1>3, <2>1
  <2>3. Ticks(n + 1) = Ticks(n) + Minute /\ Ticks(n) \in Int /\ Ticks(Hour) \in Int
    BY <1>1, <2>1
  <2> QED BY <2>2, <2>3, <1>0 DEF Ring
<1>5. Ring \in Nat
  BY <1>0, <1>3 DEF Ring
<1>6. Ticks(2) = 2 * Minute /\ Ticks(0) = 0
  BY <1>0 DEF Ticks
<1>7. Ring >= 3 * Minute
  BY <1>0, <1>4, <1>5, <1>6
<1>8. \A n \in Int : Ticks(n - Hour) = Ticks(n) - Ring
  BY <1>0, <1>2 DEF Ring
<1>9. \A n \in 0..(Hour - 1) : Ticks(n) + Minute <= Ring
  BY <1>0, <1>4
<1> QED BY <1>1, <1>3, <1>5, <1>6, <1>7, <1>8, <1>9

\* The times as numbers
LEMMA Numbers ==
  ASSUME TimesOK
  PROVE  /\ tick \in Nat /\ tick < Ring /\ dog \in Nat /\ dog <= Dog
         /\ g_start_min \in Int /\ g_start_min < Hour /\ (g_start_min = -1 \/ g_start_min \in Nat)
         /\ g_start_min # -1 => g_start_min \in 0..(Hour - 1)
<1>1. Ring \in Nat /\ Dog \in Nat /\ Hour \in Nat
  BY Sizes, TicksOf
<1> QED BY <1>1 DEF TimesOK

\* The minute of a time, as rtc_get_datetime reads it
LEMMA MinuteOf ==
  ASSUME NEW t \in 0..(Ring - 1)
  PROVE  /\ t \div Minute \in 0..(Hour - 1)
         /\ Ticks(t \div Minute) <= t /\ t < Ticks(t \div Minute) + Minute
<1>1. Minute \in Nat \ {0} /\ Hour \in Nat /\ t \in Nat /\ t < Hour * Minute
  BY Sizes, TicksOf DEF Ring, Ticks
<1>2. t \div Minute \in Nat /\ (t \div Minute) * Minute <= t /\ t < (t \div Minute) * Minute + Minute
  BY <1>1
<1>3. t \div Minute < Hour
  BY <1>1
<1> QED BY <1>1, <1>2, <1>3 DEF Ticks

\* A time lies in one minute only.
LEMMA OneMinute ==
  ASSUME NEW t \in 0..(Ring - 1), NEW n \in 0..(Hour - 1),
         Ticks(n) <= t, t < Ticks(n) + Minute
  PROVE  t \div Minute = n
<1>1. Minute \in Nat \ {0} /\ n \in Nat /\ t \in Nat
  BY Sizes, TicksOf
<1>2. n * Minute <= t /\ t < n * Minute + Minute
  BY DEF Ticks
<1> QED BY <1>1, <1>2

\* The start minutes, and the minutes until they come from minute 1
LEMMA FirstMinute ==
  ASSUME NEW c \in Clients
  PROVE  /\ c \div 2 \in Nat /\ (c \div 2) + 3 < Hour
         /\ c \div 2 = 0 => ((c \div 2) - 1) % Hour = Hour - 1
         /\ c \div 2 # 0 => ((c \div 2) - 1) % Hour = (c \div 2) - 1
<1>1. c \in Nat /\ Hour \in Nat /\ (c \div 2) + 3 < Hour
  BY ScheduleAssumption
<1>2. c \div 2 \in Nat
  BY <1>1
<1>3. \A w \in Nat : w + 3 < Hour => (w - 1) % Hour = IF w = 0 THEN Hour - 1 ELSE w - 1
  BY <1>1
<1> QED BY <1>1, <1>2, <1>3

\* What a cause is worth is a number of minutes.
LEMMA MinutesType ==
  ASSUME ScheduleTypeOK, NEW c \in Clients
  PROVE  Minutes(c) \in Nat /\ Ticks(Minutes(c)) \in Nat
<1>1. why[c] \in {"start", "reboot", "connect failed", "failed", "closed", "no pcb"}
  BY DEF ScheduleTypeOK, ClientsOK
<1>2. /\ ((c \div 2) - 1) % Hour \in Nat /\ (c \div 2) + 2 \in Nat /\ Hour \in Nat
      /\ 0 \in Nat /\ 1 \in Nat /\ 2 \in Nat
  BY FirstMinute, Sizes
<1>3. Minutes(c) \in Nat
  BY <1>1, <1>2 DEF Minutes
<1> QED BY <1>3, TicksOf

-----------------------------------------------------------------------------
\* set_client_connect_timeout gives a minute of the hour, one or two ahead.
LEMMA OpenMinuteType ==
  ASSUME TimesOK, g_start_min # -1, NEW c \in Clients, NEW add \in 1..2
  PROVE  /\ OpenMinute(c, add) \in 0..(Hour - 1)
         /\ \/ Ticks(OpenMinute(c, add)) = Ticks(g_start_min) + Ticks(add)
            \/ Ticks(OpenMinute(c, add)) = Ticks(g_start_min) + Ticks(add) - Ring
         /\ Ticks(add) = add * Minute
<1>1. g_start_min \in Nat /\ g_start_min < Hour /\ Hour \in Nat /\ Hour > 2 /\ Minute \in Nat
  BY Sizes, Numbers
<1>2. Ticks(g_start_min + add) = Ticks(g_start_min) + Ticks(add)
  BY <1>1 DEF Ticks
<1>3. OpenMinute(c, add) = IF g_start_min + add >= Hour THEN g_start_min + add - Hour ELSE g_start_min + add
  BY <1>1 DEF OpenMinute
<1>4. Ticks(g_start_min + add - Hour) = Ticks(g_start_min) + Ticks(add) - Ring
  BY <1>1 DEF Ticks, Ring
<1>5. OpenMinute(c, add) \in 0..(Hour - 1)
  BY <1>1, <1>3
<1>6. Ticks(add) = add * Minute
  BY DEF Ticks
<1>7. \/ OpenMinute(c, add) = g_start_min + add
      \/ OpenMinute(c, add) = g_start_min + add - Hour
  BY <1>3
<1>8. ASSUME OpenMinute(c, add) = g_start_min + add
      PROVE  Ticks(OpenMinute(c, add)) = Ticks(g_start_min) + Ticks(add)
  BY <1>2, <1>8, Zenon
<1>9. ASSUME OpenMinute(c, add) = g_start_min + add - Hour
      PROVE  Ticks(OpenMinute(c, add)) = Ticks(g_start_min) + Ticks(add) - Ring
  BY <1>4, <1>9, Zenon
<1> QED BY <1>5, <1>6, <1>7, <1>8, <1>9, Zenon

\* A time in place of another: the clock and the watchdog
LEMMA TimesStep ==
  ASSUME TimesOK, ScheduleNext
  PROVE  TimesOK'
<1>0. Ring \in Nat /\ Ring >= 3 * Minute /\ Minute \in Nat /\ Hour \in Nat /\ Hour > 2 /\ Dog \in Nat /\ Dog < Minute
      /\ Dog > 0
  BY TicksOf, Sizes
<1>1. CASE Tick
  <2>1. tick' = (tick + 1) % Ring /\ dog' = dog + 1 /\ dog < Dog /\ g_start_min' = g_start_min
    BY <1>1 DEF Tick, Ring, Ticks, InTime
  <2>2. tick \in Nat /\ dog \in Nat
    BY Numbers
  <2>3. tick' \in 0..(Ring - 1)
    BY <2>1, <2>2, <1>0
  <2>4. dog' \in 0..Dog
    BY <2>1, <2>2, <1>0
  <2> QED BY <2>1, <2>3, <2>4 DEF TimesOK
<1>2. CASE Reboot
  BY <1>2, <1>0 DEF Reboot, TimesOK
<1>3. CASE Clock
  <2>1. tick \div Minute \in 0..(Hour - 1)
    BY MinuteOf DEF TimesOK
  <2>2. tick \div Minute \in -1..(Hour - 1)
    BY <2>1, <1>0
  <2> QED BY <1>3, <2>2, <1>0 DEF Clock, TimesOK
<1>4. ASSUME NEW c \in Clients, ClientTurn(c) PROVE TimesOK'
  BY <1>4 DEF ClientTurn, NotYet, Opens, ConnectFails, NoPcb, GoesOn, Fails, Closed, Turn, TimesOK
<1> QED BY <1>1, <1>2, <1>3, <1>4 DEF ScheduleNext

\* Every handler leaves a client with a minute of the hour or none.
LEMMA ClientsStep ==
  ASSUME ScheduleTypeOK, WaitInv, ScheduleNext
  PROVE  ClientsOK'
<1>0. Hour \in Nat /\ Hour > 2 /\ TimesOK /\ ClientsOK
  BY Sizes DEF ScheduleTypeOK
<1>1. CASE Tick
  <2>0. since \in [Clients -> Nat]
    BY <1>0 DEF ClientsOK
  <2>1. since' \in [Clients -> Nat]
    BY <1>1, <2>0 DEF Tick
  <2> QED BY <1>0, <1>1, <2>1 DEF Tick, ClientsOK
<1>2. CASE Reboot
  <2>1. ASSUME NEW c \in Clients PROVE (c \div 2) + 3 \in -1..(Hour - 1)
    BY <1>0, FirstMinute
  <2>2. wait' \in [Clients -> -1..(Hour - 1)]
    BY <1>2, <2>1 DEF Reboot, StartMinutes
  <2> QED BY <1>2, <2>2 DEF Reboot, ClientsOK
<1>3. CASE Clock
  BY <1>0, <1>3 DEF Clock, ClientsOK
<1>4. ASSUME NEW c \in Clients, ClientTurn(c) PROVE ClientsOK'
  <2>1. ASSUME NEW m \in -1..(Hour - 1), NEW cause \in {"connect failed", "failed", "closed", "no pcb"},
               Turn(c), Waits(c, m, cause)
        PROVE  ClientsOK'
    BY <2>1, <1>0 DEF Turn, Waits, ClientsOK
  <2>2. wait[c] \in -1..(Hour - 1)
    BY <1>0 DEF ClientsOK
  <2>3. MayOpen(c) => g_start_min # -1
    BY DEF MayOpen, WaitInv
  <2>4. state[c] = "away" => g_start_min # -1
    BY DEF WaitInv
  <2>5. CASE NotYet(c) \/ GoesOn(c)
    BY <2>5, <1>0 DEF NotYet, GoesOn, Turn, ClientsOK
  <2>6. CASE Opens(c)
    <3>1. -1 \in -1..(Hour - 1)
      BY <1>0
    <3> QED BY <2>6, <1>0, <3>1 DEF Opens, Turn, ClientsOK
  <2>7. CASE ConnectFails(c)
    <3>1. OpenMinute(c, 2) \in 0..(Hour - 1)
      <4>1. g_start_min # -1
        BY <2>7, <2>3 DEF ConnectFails
      <4>2. 2 \in 1..2
        OBVIOUS
      <4> QED BY <4>1, <4>2, <1>0, OpenMinuteType
    <3>2. OpenMinute(c, 2) \in -1..(Hour - 1)
      BY <3>1, <1>0
    <3> QED BY <3>2, <2>1, <2>7 DEF ConnectFails
  <2>8. CASE NoPcb(c)
    BY <2>8, <2>1, <2>2 DEF NoPcb
  <2>9. CASE Fails(c)
    <3>1. OpenMinute(c, 1) \in 0..(Hour - 1)
      BY <2>9, <2>4, <1>0, OpenMinuteType DEF Fails
    <3>2. OpenMinute(c, 1) \in -1..(Hour - 1)
      BY <3>1, <1>0
    <3> QED BY <3>2, <2>1, <2>9 DEF Fails
  <2>10. CASE Closed(c)
    BY <2>10, <2>1, <2>2 DEF Closed
  <2> QED BY <1>4, <2>5, <2>6, <2>7, <2>8, <2>9, <2>10 DEF ClientTurn
<1> QED BY <1>1, <1>2, <1>3, <1>4 DEF ScheduleNext

\* A client leaves CONNECT only once the clock has been read, and then has no minute.
LEMMA WaitStep ==
  ASSUME ScheduleTypeOK, WaitInv, ScheduleNext
  PROVE  WaitInv'
<1>1. CASE Tick
  BY <1>1 DEF Tick, WaitInv
<1>2. CASE Reboot
  <2>1. \A c \in Clients : (c \div 2) + 3 # -1
    BY FirstMinute
  <2> QED BY <1>2, <2>1 DEF Reboot, StartMinutes, WaitInv
<1>3. CASE Clock
  <2>1. tick \div Minute # -1
    BY MinuteOf, Sizes DEF ScheduleTypeOK, TimesOK
  <2> QED BY <1>3, <2>1 DEF Clock, WaitInv
<1>4. ASSUME NEW c \in Clients, ClientTurn(c) PROVE WaitInv'
  <2>0. g_start_min' = g_start_min
    BY <1>4 DEF ClientTurn, NotYet, Opens, ConnectFails, NoPcb, GoesOn, Fails, Closed, Turn
  <2>1. NotYet(c) \/ GoesOn(c) \/ (MayOpen(c) \/ state[c] = "away")
    BY <1>4 DEF ClientTurn, NotYet, Opens, ConnectFails, NoPcb, GoesOn, Fails, Closed
  <2>2. CASE NotYet(c) \/ GoesOn(c)
    BY <2>2, <2>0 DEF NotYet, GoesOn, WaitInv
  <2>3. CASE MayOpen(c) \/ state[c] = "away"
    <3>1. g_start_min # -1
      BY <2>3 DEF MayOpen, WaitInv
    <3>2. /\ \A d \in Clients \ {c} : state'[d] = state[d] /\ wait'[d] = wait[d]
          /\ state'[c] = "away" => wait'[c] = -1
      BY <1>4, <3>1 DEF ClientTurn, NotYet, Opens, ConnectFails, NoPcb, GoesOn, Fails, Closed, Waits, WaitInv,
                 ScheduleTypeOK, ClientsOK
    <3> QED BY <2>0, <3>1, <3>2 DEF WaitInv
  <2> QED BY <2>1, <2>2, <2>3
<1> QED BY <1>1, <1>2, <1>3, <1>4 DEF ScheduleNext

\* g_start_min is the minute of dog ticks ago.
LEMMA ClockStep ==
  ASSUME ScheduleTypeOK, ClockInv, ScheduleNext
  PROVE  ClockInv'
<1>0. Ring \in Nat /\ Ring >= 3 * Minute /\ Minute \in Nat /\ Hour \in Nat /\ Dog \in Nat /\ Dog < Minute /\ Dog > 0
  BY TicksOf, Sizes
<1>a. tick \in 0..(Ring - 1) /\ tick \in Nat /\ dog \in Nat /\ g_start_min \in Int
  BY Numbers DEF ScheduleTypeOK, TimesOK
<1>1. CASE Tick
  <2>1. tick' = (tick + 1) % Ring /\ dog' = dog + 1 /\ g_start_min' = g_start_min /\ dog < Dog
    BY <1>1 DEF Tick, Ring, Ticks, InTime
  <2>2. tick' = IF tick = Ring - 1 THEN 0 ELSE tick + 1
    BY <2>1, <1>0, <1>a
  <2>3. InHour(tick' - dog') = InHour(tick - dog)
    BY <2>1, <2>2, <1>0, <1>a DEF InHour
  <2> QED BY <2>1, <2>2, <2>3, <1>0, <1>a DEF ClockInv
<1>2. CASE Reboot
  BY <1>2, <1>0 DEF Reboot, ClockInv
<1>3. CASE Clock
  <2>1. /\ tick \div Minute \in 0..(Hour - 1)
        /\ Ticks(tick \div Minute) <= tick /\ tick < Ticks(tick \div Minute) + Minute
    BY <1>a, MinuteOf
  <2>2. InHour(tick' - dog') = tick
    BY <1>3, <1>a, <1>0 DEF Clock, InHour
  <2> QED BY <1>3, <2>1, <2>2, <1>0 DEF Clock, ClockInv
<1>4. ASSUME NEW c \in Clients, ClientTurn(c) PROVE ClockInv'
  <2>0. UNCHANGED <<tick, dog, g_start_min>>
    BY <1>4 DEF ClientTurn, NotYet, Opens, ConnectFails, NoPcb, GoesOn, Fails, Closed, Turn
  <2> QED BY <2>0 DEF ClockInv
<1> QED BY <1>1, <1>2, <1>3, <1>4 DEF ScheduleNext

-----------------------------------------------------------------------------
\* Where a time is that lies less than an hour back or ahead
LEMMA BehindType ==
  ASSUME ScheduleTypeOK, NEW c \in Clients, wait[c] # -1
  PROVE  /\ wait[c] \in 0..(Hour - 1) /\ Ticks(wait[c]) \in Nat /\ Ticks(wait[c]) + Minute <= Ring
         /\ Behind(c) \in Int /\ Behind(c) >= -Ring
<1>1. wait[c] \in -1..(Hour - 1) /\ TimesOK
  BY DEF ScheduleTypeOK, ClientsOK
<1>2. wait[c] \in 0..(Hour - 1) /\ wait[c] \in Nat
  BY <1>1, Sizes
<1>3. Ticks(wait[c]) \in Nat /\ Ticks(wait[c]) + Minute <= Ring
  BY <1>2, TicksOf
<1>4. tick \in Nat /\ tick < Ring /\ Ring \in Nat /\ Minute \in Nat
  BY <1>1, Numbers, TicksOf, Sizes
<1>5. InHour(tick - Ticks(wait[c])) \in Nat
  BY <1>3, <1>4 DEF InHour
<1>6. Behind(c) \in Int /\ Behind(c) >= -Ring
  BY <1>4, <1>5 DEF Behind
<1> QED BY <1>2, <1>3, <1>6

\* A tick later every minute is a tick further back.
LEMMA TickTurn ==
  ASSUME ScheduleTypeOK, Tick, NEW c \in Clients, InTurn(c)
  PROVE  InTurn(c)'
<1>0. Ring \in Nat /\ Ring >= 3 * Minute /\ Minute \in Nat /\ Dog \in Nat /\ Dog < Minute /\ Dog > 0
  BY TicksOf, Sizes
<1>1. tick \in Nat /\ tick < Ring /\ dog \in Nat /\ dog < Dog /\ since[c] \in Nat /\ TimesOK
  BY Numbers DEF ScheduleTypeOK, ClientsOK, Tick, InTime
<1>2. tick' = (tick + 1) % Ring /\ dog' = dog + 1 /\ UNCHANGED <<g_start_min, todo, wait, state, why>>
  BY DEF Tick, Ring, Ticks
<1>3. tick' = IF tick = Ring - 1 THEN 0 ELSE tick + 1
  BY <1>0, <1>1, <1>2
<1>4. state[c] = "CONNECT" => since'[c] = since[c] + 1
  BY DEF Tick
<1>5. Minutes(c)' = Minutes(c) /\ Ticks(Minutes(c)) \in Nat
  BY <1>2, MinutesType DEF Minutes
<1> SUFFICES ASSUME state[c] = "CONNECT" PROVE InTurn(c)'
  BY <1>2 DEF InTurn
<1>6. CASE wait[c] = -1
  BY <1>0, <1>1, <1>2, <1>4, <1>6 DEF InTurn, AtOnce
<1>7. CASE wait[c] # -1
  <2>1. Ticks(wait[c]) \in Nat /\ Ticks(wait[c]) + Minute <= Ring /\ Behind(c) \in Int
    BY <1>7, BehindType
  <2>2. Ticks(wait'[c]) = Ticks(wait[c]) /\ Ticks(Minutes(c)') = Ticks(Minutes(c))
    BY <1>2, <1>5
  <2>3. Behind(c)' = Behind(c) + 1
    <3>1. InHour(tick - Ticks(wait[c])) \in 0..(Ring - 1)
      BY <1>0, <1>1, <2>1 DEF InHour
    <3>2. InHour(tick' - Ticks(wait'[c])) =
            IF InHour(tick - Ticks(wait[c])) = Ring - 1 THEN 0 ELSE InHour(tick - Ticks(wait[c])) + 1
      BY <1>0, <1>1, <1>3, <2>1, <2>2 DEF InHour
    <3>3. InHour(tick' - Ticks(wait'[c])) = InHour(tick - Ticks(wait[c]))' /\ g_start_min' = g_start_min
      BY <1>2 DEF InHour, Ring, Ticks
    <3> QED BY <1>0, <1>1, <1>2, <3>1, <3>2, <3>3 DEF Behind
  <2>4. Awaited(c) => Awaited(c)'
    BY <1>1, <1>4, <1>5, <2>1, <2>2, <2>3 DEF Awaited
  <2>5. Due(c) => Due(c)'
    BY <1>0, <1>1, <1>2, <1>4, <1>5, <2>2 DEF Due
  <2> QED BY <1>2, <1>7, <2>4, <2>5 DEF InTurn
<1> QED BY <1>6, <1>7

\* A clock that is read: a minute that has begun is the one it shows.
LEMMA ClockTurn ==
  ASSUME ScheduleTypeOK, Clock, NEW c \in Clients, InTurn(c)
  PROVE  InTurn(c)'
<1>0. Ring \in Nat /\ Ring >= 3 * Minute /\ Minute \in Nat /\ Dog \in Nat /\ Dog < Minute /\ Dog > 0
  BY TicksOf, Sizes
<1>1. tick \in 0..(Ring - 1) /\ tick \in Nat /\ tick < Ring /\ dog \in Nat /\ dog < Dog /\ since[c] \in Nat /\ TimesOK
  BY Numbers DEF ScheduleTypeOK, TimesOK, ClientsOK, Clock, InTime
<1>2. /\ g_start_min' = tick \div Minute /\ dog' = 0 /\ todo' = Clients /\ todo = {}
      /\ UNCHANGED <<tick, wait, state, why, since>>
  BY DEF Clock
<1>3. Minutes(c)' = Minutes(c) /\ Ticks(Minutes(c)) \in Nat
  BY <1>2, MinutesType DEF Minutes
<1>4. tick \div Minute \in 0..(Hour - 1)
  BY <1>1, MinuteOf
<1>5. g_start_min' # -1
  BY <1>2, <1>4, Sizes
<1> SUFFICES ASSUME state[c] = "CONNECT" PROVE InTurn(c)'
  BY <1>2 DEF InTurn
<1>6. CASE wait[c] = -1
  BY <1>0, <1>1, <1>2, <1>6 DEF InTurn, AtOnce
<1>7. CASE wait[c] # -1
  <2>1. /\ wait[c] \in 0..(Hour - 1) /\ Ticks(wait[c]) \in Nat /\ Ticks(wait[c]) + Minute <= Ring
        /\ Behind(c) \in Int
    BY <1>7, BehindType
  <2>2. Ticks(wait'[c]) = Ticks(wait[c]) /\ Ticks(Minutes(c)') = Ticks(Minutes(c))
    BY <1>2, <1>3
  <2>3. since[c] <= Ticks(Minutes(c)) + Behind(c)
    BY <1>2, <1>7 DEF InTurn, Due, Awaited
  <2>4. CASE Behind(c) < 0
    <3>1. Behind(c)' = Behind(c)
      BY <1>0, <1>1, <1>2, <1>5, <2>1, <2>2, <2>4 DEF Behind, InHour
    <3>2. Awaited(c)'
      BY <1>2, <1>3, <2>2, <2>3, <3>1 DEF Awaited
    <3> QED BY <3>2, <1>2, <1>7 DEF InTurn
  <2>5. CASE Behind(c) >= 0
    <3>1. Ticks(wait[c]) <= tick /\ tick < Ticks(wait[c]) + Minute /\ Behind(c) <= Dog
      BY <1>0, <1>1, <2>1, <2>5 DEF Behind, InHour
    <3>2. tick \div Minute = wait[c]
      BY <1>1, <2>1, <3>1, OneMinute
    <3>3. Due(c)'
      BY <1>0, <1>1, <1>2, <1>3, <2>1, <2>2, <2>3, <3>1, <3>2 DEF Due
    <3> QED BY <3>3, <1>2, <1>7 DEF InTurn
  <2> QED BY <2>1, <2>4, <2>5
<1> QED BY <1>6, <1>7

\* After a reboot the clock goes on from minute 1, and the start minutes are three later.
LEMMA RebootTurn ==
  ASSUME Reboot, NEW c \in Clients
  PROVE  InTurn(c)'
<1>0. Ring \in Nat /\ Ring >= 3 * Minute /\ Minute \in Nat /\ Dog \in Nat /\ Dog < Minute /\ Dog > 0 /\ Hour \in Nat
  BY TicksOf, Sizes
<1>1. c \div 2 \in Nat /\ (c \div 2) + 3 < Hour /\ (c \div 2) + 3 \in 0..(Hour - 1) /\ (c \div 2) + 3 # -1
  BY <1>0, FirstMinute
<1>2. /\ wait'[c] = (c \div 2) + 3 /\ why'[c] = "reboot" /\ since'[c] = 0
      /\ tick' = Minute + 1 /\ dog' = 0 /\ g_start_min' = -1
  BY DEF Reboot, StartMinutes
<1>3. Minutes(c)' = (c \div 2) + 2
  BY <1>2 DEF Minutes
<1>4. (c \div 2) + 2 \in Nat /\ (c \div 2) + 3 = ((c \div 2) + 2) + 1
  BY <1>1
<1>5. /\ Ticks((c \div 2) + 2) \in Nat
      /\ Ticks((c \div 2) + 3) = Ticks((c \div 2) + 2) + Minute
      /\ Ticks((c \div 2) + 3) + Minute <= Ring
  BY <1>1, <1>4, TicksOf
<1>6. Behind(c)' = 1 - Ticks((c \div 2) + 2)
  <2>1. Ticks(wait'[c]) = Ticks((c \div 2) + 2) + Minute
    BY <1>2, <1>5
  <2> QED BY <1>0, <1>2, <1>5, <2>1 DEF Behind, InHour
<1>7. Awaited(c)'
  BY <1>2, <1>3, <1>5, <1>6 DEF Awaited
<1> QED BY <1>2, <1>1, <1>7 DEF InTurn

-----------------------------------------------------------------------------
\* A client that begins to wait in its turn
LEMMA NewWait ==
  ASSUME ScheduleTypeOK, ClockInv, g_start_min # -1, NEW c \in Clients, NEW add \in 1..2,
         Minutes(c)' = add, wait'[c] = OpenMinute(c, add), since'[c] = 0,
         UNCHANGED <<tick, dog, g_start_min>>
  PROVE  InTurn(c)'
<1>0. Ring \in Nat /\ Ring >= 3 * Minute /\ Minute \in Nat /\ Dog \in Nat /\ Dog < Minute /\ Dog > 0
  BY TicksOf, Sizes
<1>1. tick \in Nat /\ tick < Ring /\ dog \in Nat /\ dog <= Dog /\ TimesOK /\ g_start_min \in 0..(Hour - 1)
  BY Numbers DEF ScheduleTypeOK
<1>2. wait'[c] = OpenMinute(c, add) /\ since'[c] = 0 /\ Minutes(c)' = add
      /\ tick' = tick /\ dog' = dog /\ g_start_min' = g_start_min
  OBVIOUS
<1>3. /\ OpenMinute(c, add) \in 0..(Hour - 1) /\ Ticks(add) = add * Minute
      /\ \/ Ticks(OpenMinute(c, add)) = Ticks(g_start_min) + Ticks(add)
         \/ Ticks(OpenMinute(c, add)) = Ticks(g_start_min) + Ticks(add) - Ring
  BY <1>1, OpenMinuteType
<1>4. Ticks(g_start_min) \in Nat /\ Ticks(g_start_min) + Minute <= Ring
  <2>1. g_start_min \in Nat
    BY <1>1, Sizes
  <2> QED BY <1>1, <2>1, TicksOf
<1>5. Ticks(g_start_min) <= InHour(tick - dog) /\ InHour(tick - dog) < Ticks(g_start_min) + Minute
  BY DEF ClockInv
<1>6. Ticks(add) = Minute \/ Ticks(add) = 2 * Minute
  <2>1. CASE add = 1
    BY <1>0, <1>3, <2>1
  <2>2. CASE add = 2
    BY <1>0, <1>3, <2>2
  <2> QED BY <2>1, <2>2
<1>7. OpenMinute(c, add) # -1
  BY <1>3, Sizes
<1>8. Behind(c)' + Ticks(add) >= 0 /\ Behind(c)' \in Int
  <2>1. Ticks(wait'[c]) = Ticks(OpenMinute(c, add)) /\ g_start_min' # -1
    BY <1>2
  <2>2. CASE Ticks(OpenMinute(c, add)) = Ticks(g_start_min) + Ticks(add)
    BY <1>0, <1>1, <1>4, <1>5, <1>6, <2>1, <2>2 DEF Behind, InHour
  <2>3. CASE Ticks(OpenMinute(c, add)) = Ticks(g_start_min) + Ticks(add) - Ring
    BY <1>0, <1>1, <1>4, <1>5, <1>6, <2>1, <2>3 DEF Behind, InHour
  <2> QED BY <1>3, <2>2, <2>3
<1>9. Awaited(c)'
  <2>1. Ticks(Minutes(c)') = Ticks(add)
    BY <1>2
  <2> QED BY <1>2, <1>6, <1>0, <1>8, <2>1 DEF Awaited
<1> QED BY <1>2, <1>7, <1>9 DEF InTurn

\* A client that waits again with the minute it had: none, or one that is an hour away at most
LEMMA OldMinute ==
  ASSUME ScheduleTypeOK, NEW c \in Clients, c \notin todo',
         wait'[c] = wait[c], since'[c] = 0, wait[c] # -1 => Minutes(c)' = Hour,
         UNCHANGED <<tick, dog, g_start_min>>
  PROVE  InTurn(c)'
<1>1. dog \in Nat /\ dog' = dog
  BY Numbers DEF ScheduleTypeOK
<1>2. CASE wait[c] = -1
  <2>1. AtOnce(c)'
    BY <1>1 DEF AtOnce
  <2> QED BY <1>2, <2>1 DEF InTurn
<1>3. CASE wait[c] # -1
  <2>1. Behind(c) \in Int /\ Behind(c) >= -Ring /\ Ring \in Nat
    BY <1>3, BehindType, TicksOf
  <2>2. Behind(c)' = Behind(c)
    BY DEF Behind, InHour, Ring, Ticks
  <2>3. Ticks(Minutes(c)') = Ring
    BY <1>3 DEF Ring
  <2>4. Awaited(c)'
    BY <2>1, <2>2, <2>3 DEF Awaited
  <2> QED BY <1>3, <2>4 DEF InTurn
<1> QED BY <1>2, <1>3

\* The turn of a client leaves the others where they are.
LEMMA OthersTurn ==
  ASSUME ScheduleTypeOK, NEW c \in Clients, ClientTurn(c), NEW d \in Clients, d # c, InTurn(d)
  PROVE  InTurn(d)'
<1>1. /\ UNCHANGED <<tick, dog, g_start_min>> /\ todo' = todo \ {c}
      /\ state'[d] = state[d] /\ wait'[d] = wait[d] /\ why'[d] = why[d] /\ since'[d] = since[d]
  BY DEF ClientTurn, NotYet, Opens, ConnectFails, NoPcb, GoesOn, Fails, Closed, Turn, Waits,
         ScheduleTypeOK, ClientsOK
<1>2. Minutes(d)' = Minutes(d)
  BY <1>1 DEF Minutes
<1>3. Behind(d)' = Behind(d)
  BY <1>1 DEF Behind, InHour, Ring, Ticks
<1>4. (d \in todo') <=> (d \in todo)
  BY <1>1
<1>5. AtOnce(d) => AtOnce(d)'
  BY <1>1, <1>4 DEF AtOnce
<1>6. Awaited(d) => Awaited(d)'
  BY <1>1, <1>2, <1>3 DEF Awaited, Ticks
<1>7. Due(d) => Due(d)'
  BY <1>1, <1>2, <1>4 DEF Due, Ticks
<1> QED BY <1>1, <1>5, <1>6, <1>7 DEF InTurn

\* The turn of a client and its own wait
LEMMA OwnTurn ==
  ASSUME ScheduleInv, NEW c \in Clients, ClientTurn(c)
  PROVE  InTurn(c)'
<1>0. ScheduleTypeOK /\ ClockInv /\ WaitInv /\ InTurn(c) /\ Dog \in Nat /\ dog \in Nat /\ since[c] \in Nat
  BY Sizes, Numbers DEF ScheduleInv, TurnInv, ScheduleTypeOK, ClientsOK
<1>1. UNCHANGED <<tick, dog, g_start_min>> /\ c \in todo /\ todo' = todo \ {c} /\ dog < Dog
  BY DEF ClientTurn, NotYet, Opens, ConnectFails, NoPcb, GoesOn, Fails, Closed, Turn, InTime
<1>2. CASE NotYet(c)
  <2>1. /\ state[c] = "CONNECT" /\ wait[c] # -1 /\ wait[c] # g_start_min
        /\ UNCHANGED <<wait, state, why, since>>
    BY <1>2 DEF NotYet, MayOpen
  <2>2. Awaited(c)
    BY <1>0, <2>1 DEF InTurn, Due
  <2>3. Awaited(c)'
    BY <1>1, <2>1, <2>2 DEF Awaited, Minutes, Behind, InHour, Ring, Ticks
  <2> QED BY <2>1, <2>3 DEF InTurn
<1>3. CASE GoesOn(c)
  BY <1>3 DEF GoesOn, InTurn
<1>4. CASE Opens(c)
  BY <1>4, <1>0 DEF Opens, InTurn, ScheduleTypeOK, ClientsOK
<1>5. CASE ConnectFails(c)
  <2>1. /\ g_start_min # -1 /\ wait'[c] = OpenMinute(c, 2) /\ since'[c] = 0 /\ why'[c] = "connect failed"
    BY <1>0, <1>5 DEF ConnectFails, MayOpen, WaitInv, Waits, ScheduleTypeOK, ClientsOK
  <2>2. Minutes(c)' = 2
    BY <2>1 DEF Minutes
  <2>3. 2 \in 1..2
    OBVIOUS
  <2> QED BY <1>0, <1>1, <2>1, <2>2, <2>3, NewWait
<1>6. CASE Fails(c)
  <2>1. /\ g_start_min # -1 /\ wait'[c] = OpenMinute(c, 1) /\ since'[c] = 0 /\ why'[c] = "failed"
    BY <1>0, <1>6 DEF Fails, WaitInv, Waits, ScheduleTypeOK, ClientsOK
  <2>2. Minutes(c)' = 1
    BY <2>1 DEF Minutes
  <2>3. 1 \in 1..2
    OBVIOUS
  <2> QED BY <1>0, <1>1, <2>1, <2>2, <2>3, NewWait
<1>7. CASE NoPcb(c)
  <2>1. /\ wait'[c] = wait[c] /\ since'[c] = 0 /\ why'[c] = "no pcb"
    BY <1>0, <1>7 DEF NoPcb, Waits, ScheduleTypeOK, ClientsOK
  <2>2. Minutes(c)' = Hour
    BY <2>1 DEF Minutes
  <2> QED BY <1>0, <1>1, <2>1, <2>2, OldMinute
<1>8. CASE Closed(c)
  <2>1. /\ wait'[c] = wait[c] /\ since'[c] = 0 /\ wait[c] = -1
    BY <1>0, <1>8 DEF Closed, Waits, WaitInv, ScheduleTypeOK, ClientsOK
  <2> QED BY <1>0, <1>1, <2>1, OldMinute
<1> QED BY <1>2, <1>3, <1>4, <1>5, <1>6, <1>7, <1>8 DEF ClientTurn

\* The waits through every step
LEMMA TurnStep ==
  ASSUME ScheduleInv, ScheduleNext
  PROVE  TurnInv'
<1>0. ScheduleTypeOK /\ TurnInv
  BY DEF ScheduleInv
<1> SUFFICES ASSUME NEW c \in Clients PROVE InTurn(c)'
  BY DEF TurnInv
<1>1. InTurn(c)
  BY <1>0 DEF TurnInv
<1>2. CASE Tick
  BY <1>0, <1>1, <1>2, TickTurn
<1>3. CASE Reboot
  BY <1>3, RebootTurn
<1>4. CASE Clock
  BY <1>0, <1>1, <1>4, ClockTurn
<1>5. ASSUME NEW d \in Clients, ClientTurn(d) PROVE InTurn(c)'
  BY <1>0, <1>1, <1>5, OthersTurn, OwnTurn
<1> QED BY <1>2, <1>3, <1>4, <1>5 DEF ScheduleNext

\* The clients whose start minute is the clock's first are in time, those of the minute
\* before wait for it until the hour is over.
LEMMA ScheduleStart == ScheduleInit => ScheduleInv
<1> SUFFICES ASSUME ScheduleInit PROVE ScheduleInv
  OBVIOUS
<1>0. Ring \in Nat /\ Ring >= 3 * Minute /\ Minute \in Nat /\ Minute > 1 /\ Hour \in Nat /\ Hour > 2 /\ Dog \in Nat
  BY TicksOf, Sizes
<1>1. /\ tick = Minute + 1 /\ dog = 0 /\ g_start_min = -1 /\ todo = Clients
      /\ \A c \in Clients : wait[c] = (c \div 2) + 0 /\ state[c] = "CONNECT" /\ why[c] = "start" /\ since[c] = 0
  BY DEF ScheduleInit, StartMinutes
<1>2. \A c \in Clients : wait[c] = c \div 2 /\ wait[c] # -1
  BY <1>1, FirstMinute
<1>3. TimesOK
  BY <1>0, <1>1 DEF TimesOK
<1>4. ClientsOK
  <2>1. ASSUME NEW c \in Clients PROVE (c \div 2) + 0 \in -1..(Hour - 1)
    BY <1>0, FirstMinute
  <2>2. wait \in [Clients -> -1..(Hour - 1)]
    BY <2>1 DEF ScheduleInit, StartMinutes
  <2> QED BY <2>2 DEF ScheduleInit, ClientsOK
<1>5. ClockInv
  BY <1>0, <1>1 DEF ClockInv
<1>6. WaitInv
  BY <1>1, <1>2 DEF WaitInv
<1>7. ASSUME NEW c \in Clients PROVE InTurn(c)
  <2>1. /\ c \div 2 \in Nat /\ (c \div 2) + 3 < Hour
        /\ c \div 2 = 0 => ((c \div 2) - 1) % Hour = Hour - 1
        /\ c \div 2 # 0 => ((c \div 2) - 1) % Hour = (c \div 2) - 1
    BY FirstMinute
  <2>2. Minutes(c) = ((c \div 2) - 1) % Hour
    BY <1>1 DEF Minutes
  <2>3. CASE c \div 2 = 0
    <3>1. Ticks(wait[c]) = 0
      BY <1>2, <2>3, TicksOf
    <3>2. Behind(c) = Minute + 1 - Ring
      BY <1>0, <1>1, <3>1 DEF Behind, InHour
    <3>3. Ticks(Hour - 1) = Ring - Minute
      BY <1>0, TicksOf DEF Ring
    <3>4. Ticks(Minutes(c)) = Ring - Minute
      BY <2>1, <2>2, <2>3, <3>3
    <3> QED BY <1>0, <1>1, <3>2, <3>4, <1>2 DEF InTurn, Awaited
  <2>4. CASE c \div 2 # 0
    <3>1. (c \div 2) - 1 \in Nat /\ c \div 2 \in Int /\ c \div 2 \in 0..(Hour - 1) /\ c \div 2 = ((c \div 2) - 1) + 1
      BY <1>0, <2>1, <2>4
    <3>2. /\ Ticks((c \div 2) - 1) \in Nat /\ Ticks((c \div 2) - 1) = Ticks(c \div 2) - Minute
          /\ Ticks(c \div 2) \in Int /\ Ticks(c \div 2) + Minute <= Ring
      BY <3>1, TicksOf
    <3>3. Ticks(wait[c]) = Ticks(c \div 2) /\ Ticks(Minutes(c)) = Ticks((c \div 2) - 1)
      BY <1>2, <2>1, <2>2, <2>4
    <3>4. Behind(c) = 1 - Ticks((c \div 2) - 1)
      BY <1>0, <1>1, <3>2, <3>3 DEF Behind, InHour
    <3> QED BY <1>1, <1>2, <3>2, <3>3, <3>4 DEF InTurn, Awaited
  <2> QED BY <2>3, <2>4
<1> QED BY <1>3, <1>4, <1>5, <1>6, <1>7 DEF ScheduleInv, ScheduleTypeOK, TurnInv

\* The clock, the watchdog and the waits of the clients, for any clients, any length of
\* the minute and of the hour, and any watchdog that is shorter than a minute (main,
\* duino_set_start_time, set_client_connect_timeout).
THEOREM ScheduleInvariant == ScheduleSpec => []ScheduleInv
<1>1. ScheduleInv /\ [ScheduleNext]_scheduleVars => ScheduleInv'
  <2> SUFFICES ASSUME ScheduleInv, [ScheduleNext]_scheduleVars PROVE ScheduleInv'
    OBVIOUS
  <2>1. CASE ScheduleNext
    BY <2>1, TimesStep, ClientsStep, ClockStep, WaitStep, TurnStep DEF ScheduleInv, ScheduleTypeOK
  <2>2. CASE UNCHANGED scheduleVars
    <3>1. UNCHANGED <<tick, dog, g_start_min, todo, wait, state, why, since>>
      BY <2>2 DEF scheduleVars
    <3>2. ScheduleTypeOK' /\ ClockInv' /\ WaitInv'
      BY <3>1 DEF ScheduleInv, ScheduleTypeOK, TimesOK, ClientsOK, ClockInv, WaitInv
    <3>3. ASSUME NEW c \in Clients PROVE InTurn(c)'
      <4>1. Minutes(c)' = Minutes(c) /\ Behind(c)' = Behind(c)
        BY <3>1 DEF Minutes, Behind, InHour, Ring, Ticks
      <4>2. InTurn(c)
        BY DEF ScheduleInv, TurnInv
      <4> QED BY <3>1, <4>1, <4>2 DEF InTurn, AtOnce, Awaited, Due, Ticks
    <3> QED BY <3>2, <3>3 DEF ScheduleInv, TurnInv
  <2> QED BY <2>1, <2>2
<1> QED BY <1>1, ScheduleStart, PTL DEF ScheduleSpec

\* No client waits longer in CONNECT than its cause is worth and two passes (the comparison
\* of wait_open_time with g_start_min, under the watchdog's bound on a pass).
THEOREM TurnComesTheorem == ScheduleSpec => []TurnComes
<1>1. ScheduleInv => TurnComes
  <2> SUFFICES ASSUME ScheduleInv, NEW c \in Clients, state[c] = "CONNECT"
               PROVE  since[c] <= Minutes(c) * Minute + 2 * Dog
    BY DEF TurnComes
  <2>0. /\ ScheduleTypeOK /\ InTurn(c) /\ TimesOK /\ since[c] \in Nat
    BY DEF ScheduleInv, TurnInv, ScheduleTypeOK, ClientsOK
  <2>1. /\ Dog \in Nat /\ Dog > 0 /\ dog \in Nat /\ dog <= Dog /\ Ticks(Minutes(c)) \in Nat
        /\ Ring \in Nat /\ Ring >= 3 * Minute /\ Minute \in Nat /\ Dog < Minute
        /\ tick \in Nat /\ tick < Ring
    BY <2>0, Sizes, Numbers, MinutesType, TicksOf
  <2>2. CASE wait[c] = -1
    <3>1. since[c] <= Ticks(Minutes(c)) + 2 * Dog
      BY <2>0, <2>1, <2>2 DEF InTurn, AtOnce
    <3> QED BY <3>1 DEF Ticks
  <2>3. CASE wait[c] # -1
    <3>1. Ticks(wait[c]) \in Nat /\ Ticks(wait[c]) + Minute <= Ring
      BY <2>0, <2>3, BehindType
    <3>2. Behind(c) \in Int /\ Behind(c) <= dog + 1
      BY <2>1, <3>1 DEF Behind, InHour
    <3>3. Awaited(c) => since[c] <= Ticks(Minutes(c)) + 2 * Dog
      BY <2>0, <2>1, <3>2 DEF Awaited
    <3>4. Due(c) => since[c] <= Ticks(Minutes(c)) + 2 * Dog
      BY <2>0, <2>1 DEF Due
    <3>5. since[c] <= Ticks(Minutes(c)) + 2 * Dog
      BY <2>0, <2>3, <3>3, <3>4 DEF InTurn
    <3> QED BY <3>5 DEF Ticks
  <2> QED BY <2>2, <2>3
<1> QED BY <1>1, ScheduleInvariant, PTL
================================================================================
