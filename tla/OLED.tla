-------------------------------- MODULE OLED --------------------------------
(***************************************************************************)
(* Text on a small display (src/cpp/OLED_SH1106_128x64.cpp and             *)
(* src/cpp/OLED_SSD1306_128x64.cpp, which differ in how they address the   *)
(* display's memory).  A line of text is two pages of memory; the memory   *)
(* is a ring, and the display shows it from any page on.  A call is a run  *)
(* of transfers, and what is seen after each of them is the display.       *)
(***************************************************************************)
EXTENDS Integers, Sequences

CONSTANTS
  W, H, Tab, Letters, Blank,
  Width,      \* how many values _cx, _cy and _cz have
  Chips       \* {"SH1106", "SSD1306"}

ASSUME OledAssumption ==
  /\ H \in Nat \ {0} /\ Tab \in Nat \ {0} /\ W \in Nat \ {0} /\ W % Tab = 0
  /\ Width \in Nat /\ Width % H = 0 /\ Width > H /\ Width > W /\ Blank \notin Letters

VARIABLES
  chip,       \* which of the displays it is
  ram,        \* its memory: page and column to half a letter
  base,       \* the page shown first
  lit,        \* the display is on
  wire,       \* transfers of the call that are still to be made
  _cx, _cy, _cz,   \* column, line, and the line that comes after the last
  _console_mode,
  screen      \* (auxiliary) what is shown when all transfers have been made

vars == <<chip, ram, base, lit, wire, _cx, _cy, _cz, _console_mode, screen>>
cursor == <<_cx, _cy, _cz>>

PagesOf == 2 * H
Dark == <<Blank, "none">>
BlankPage == [x \in 0 .. W - 1 |-> Dark]
Blanks(n) == [i \in 1 .. n |-> Dark]

-----------------------------------------------------------------------------
(* The display.  Bytes go to the columns and pages of a window, row after  *)
(* row; page numbers have as many bits as there are pages.                 *)

Window(c0, c1, p0, p1, cells) ==
  [op |-> "data", c0 |-> c0, n |-> c1 - c0 + 1, p0 |-> p0, rows |-> p1 - p0 + 1, cells |-> cells]
Shift(p) == [op |-> "shift", to |-> p % PagesOf]
Off == [op |-> "off"]
On  == [op |-> "on"]

\* The bytes of a transfer that come to lie at a place: the last one stays.
Bytes(t, p, x) ==
  IF t.op # "data" THEN {}
  ELSE {i \in DOMAIN t.cells : /\ t.c0 + ((i - 1) % t.n) = x
                               /\ (t.p0 + (((i - 1) \div t.n) % t.rows)) % PagesOf = p}
Latest(k) == CHOOSE i \in k : \A j \in k : j <= i
Put(t, p, x) == t.cells[Latest(Bytes(t, p, x))]
Landed(mem, t) ==
  [p \in 0 .. PagesOf - 1 |-> [x \in 0 .. W - 1 |->
     IF Bytes(t, p, x) = {} THEN mem[p][x] ELSE Put(t, p, x)]]

Shown(mem, from) == [i \in 0 .. PagesOf - 1 |-> mem[(from + i) % PagesOf]]

-----------------------------------------------------------------------------
(* The transfers of each call.                                             *)

Upper(c) == <<c, "upper">>
Lower(c) == <<c, "lower">>

\* SH1106: a page and the columns from there on.
Page(p, x, cells) == Window(x, W - 1, p % PagesOf, p % PagesOf, cells)

drawChar1106(ax, ay, c) ==
  <<Page(2 * ay, ax, <<Upper(c)>>), Page(2 * ay + 1, ax, <<Lower(c)>>)>>
drawChar1306(ax, ay, c) == <<Window(ax, ax, 2 * ay, 2 * ay + 1, <<Upper(c), Lower(c)>>)>>

\* One of the two rounds of newLine, d = 2 and 1: a page is erased and, if
\* the text is to scroll, the display moves on by a page.
ScrollLate(ay, d) == 2 * (ay + H + 1) - d          \* mutant: a page short
ScrollTo(ay, d) == 2 * (ay + H + 1) - d + 1
ShiftFirst(erase, ay, d, scroll) ==                \* mutant: shown before it is erased
  (IF scroll THEN <<Shift(ScrollTo(ay, d))>> ELSE <<>>) \o <<erase>>
Round(erase, ay, d, scroll) ==
  <<erase>> \o (IF scroll THEN <<Shift(ScrollTo(ay, d))>> ELSE <<>>)
Erase1106(ay, d) == Page(2 * ay + 2 - d, 0, Blanks(W))
Erase1306(ay, d) == Window(0, W - 1, 2 * ay + 2 - d, 2 * ay + 3 - d, Blanks(W))
newLine1106(ay, scroll) ==
  Round(Erase1106(ay, 2), ay, 2, scroll) \o Round(Erase1106(ay, 1), ay, 1, scroll)
newLine1306(ay, scroll) ==
  Round(Erase1306(ay, 2), ay, 2, scroll) \o Round(Erase1306(ay, 1), ay, 1, scroll)

\* setContrast turns the display on.
clear1106 ==
  <<Off, Shift(0)>> \o [i \in 1 .. PagesOf |-> Page(PagesOf - i, 0, Blanks(W))] \o <<On>>
clear1306 == <<Off, Shift(0), Window(0, W - 1, 0, PagesOf - 1, Blanks(W * PagesOf)), On>>

drawChar(ax, ay, c)  == IF chip = "SH1106" THEN drawChar1106(ax, ay, c) ELSE drawChar1306(ax, ay, c)
newLine(ay, scroll)  == IF chip = "SH1106" THEN newLine1106(ay, scroll) ELSE newLine1306(ay, scroll)

-----------------------------------------------------------------------------
(* What is shown when the transfers ts have been made, read as text: the   *)
(* lines, and which line of the memory is the first.                       *)

After(mem, ts) ==
  [p \in 0 .. PagesOf - 1 |-> [x \in 0 .. W - 1 |->
     LET k == {i \in DOMAIN ts : Bytes(ts[i], p, x) # {}}
     IN  IF k = {} THEN mem[p][x] ELSE Put(ts[Latest(k)], p, x)]]
BaseAfter(b, ts) ==
  LET k == {i \in DOMAIN ts : ts[i].op = "shift"} IN IF k = {} THEN b ELSE ts[Latest(k)].to

\* The letter two halves make.
Letter(u, l) ==
  CASE u = Dark /\ l = Dark -> Blank
    [] u[1] = l[1] /\ u[2] = "upper" /\ l[2] = "lower" -> u[1]
    [] OTHER -> "garbled"

Read(seen) ==
  [y \in 0 .. H - 1 |-> [x \in 0 .. W - 1 |-> Letter(seen[2 * y][x], seen[2 * y + 1][x])]]
ScreenAfter(ts) ==
  LET now == BaseAfter(base, ts)
  IN  [text |-> Read(Shown(After(ram, ts), now)), first |-> now \div 2]

-----------------------------------------------------------------------------
(* The calls.                                                              *)

Called == wire = <<>> /\ UNCHANGED <<chip, ram, base, lit>>
Sends(ts) == \E new \in {ts} : wire' = new /\ screen' = ScreenAfter(new)
Silent == UNCHANGED <<wire, screen>>

clear(mode) ==
  /\ Sends(IF chip = "SH1106" THEN clear1106 ELSE clear1306)
  /\ _cx' = 0 /\ _cy' = 0 /\ _cz' = H /\ _console_mode' = mode

\* A line further down: the line, and the cursor after it.
NextLine == (_cy + 1) % Width
AtEnd    == NextLine = _cz
Feed     == newLine(NextLine, AtEnd /\ _console_mode)
FedTo    == _cy' = NextLine /\ _cz' = (_cz + (IF AtEnd THEN 1 ELSE 0)) % Width

Backspace == _cx' = _cx - (IF _cx > 0 THEN 1 ELSE 0)

writeControl(c) ==
  \/ c = "BS" /\ Backspace /\ Silent /\ UNCHANGED <<_cy, _cz, _console_mode>>
  \/ c = "CR" /\ _cx' = 0 /\ Silent /\ UNCHANGED <<_cy, _cz, _console_mode>>
  \/ c = "FF" /\ clear(_console_mode)
  \/ c = "LF" /\ Sends(Feed) /\ FedTo /\ UNCHANGED <<_cx, _console_mode>>

writeText(c) ==
  LET full == _cx >= W
      x    == IF full THEN 0 ELSE _cx
      y    == IF full THEN NextLine ELSE _cy
      feed == IF full THEN Feed ELSE <<>>
  IN  /\ IF full THEN FedTo ELSE UNCHANGED <<_cy, _cz>>
      /\ IF c = "HT" THEN _cx' = x - (x % Tab) + Tab /\ Sends(feed)
                     ELSE _cx' = x + 1 /\ Sends(feed \o drawChar(x, y, c))
      /\ UNCHANGED _console_mode

setPosition(x, y) ==
  /\ _cx' = x
  /\ _cy' = IF _console_mode THEN (_cz + y) % H ELSE y
  /\ Silent /\ UNCHANGED <<_cz, _console_mode>>

Control == Called /\ \E c \in {"BS", "CR", "FF", "LF"} : writeControl(c)
Text == Called /\ \E c \in Letters \cup {"HT"} : writeText(c)
Clear == Called /\ \E mode \in BOOLEAN : clear(mode)

\* disable and setContrast turn the display off and on, whatever it shows.
Disable  == Called /\ Sends(<<Off>>) /\ UNCHANGED <<cursor, _console_mode>>
Contrast == Called /\ Sends(<<On>>) /\ UNCHANGED <<cursor, _console_mode>>

\* Placing the cursor is documented for clear(false); on a console it is
\* modelled while nothing has scrolled (see README).
Place ==
  /\ Called /\ (_console_mode => _cz = H)
  /\ \E x \in 0 .. W - 1, y \in 0 .. H - 1 : setPosition(x, y)
EraseLine ==
  /\ Called /\ ~ _console_mode
  /\ \E y \in 0 .. H - 1 : Sends(newLine(y, FALSE))
  /\ UNCHANGED <<cursor, _console_mode>>

Transfer ==
  /\ wire # <<>>
  /\ LET t == Head(wire)
     IN  /\ ram' = Landed(ram, t)
         /\ base' = IF t.op = "shift" THEN t.to ELSE base
         /\ lit' = CASE t.op = "off" -> FALSE [] t.op = "on" -> TRUE [] OTHER -> lit
  /\ wire' = Tail(wire)
  /\ UNCHANGED <<chip, cursor, _console_mode, screen>>

\* After the clear() of setup().
Init ==
  /\ chip \in Chips /\ _console_mode \in BOOLEAN
  /\ ram = [p \in 0 .. PagesOf - 1 |-> BlankPage] /\ base = 0 /\ lit = TRUE
  /\ wire = <<>> /\ _cx = 0 /\ _cy = 0 /\ _cz = H
  /\ screen = ScreenAfter(<<>>)

Next == Control \/ Text \/ Clear \/ Place \/ EraseLine
        \/ Disable \/ Contrast \/ Transfer
Spec == Init /\ [][Next]_vars

-----------------------------------------------------------------------------
(* Properties.                                                             *)

\* Through every scroll, wrap and overflow of the line counters the display
\* shows what a terminal shows, with the cursor where a terminal has it.
T == INSTANCE Terminal WITH text <- screen.text, row <- (_cy + H - screen.first) % H, col <- _cx,
                            console <- _console_mode
Prints == T!Spec

\* Between the transfers of a call no old text is seen: the page that comes
\* into view below is blank, and a display that is turned on shows at once
\* what the calls have left on it, which after clear is nothing.  With its
\* last transfer each call has shown what it was to show.
NoGhost ==
  [][/\ (lit /\ lit' /\ base' # base) => Shown(ram', base')[PagesOf - 1] = BlankPage
     /\ (~ lit /\ lit') \/ wire' = <<>> => Read(Shown(ram', base')) = screen'.text]_vars
=============================================================================
