------------------------------ MODULE Terminal ------------------------------
(***************************************************************************)
(* A display of text as its user sees it: lines of letters and a cursor.   *)
(* As a console it moves everything up when a line begins below the last   *)
(* one; otherwise the line after the last is the first.  A line is erased  *)
(* when the cursor enters it by a line feed or by wrapping.                *)
(***************************************************************************)
EXTENDS Integers

CONSTANTS W, H, Tab, Letters, Blank

VARIABLES
  text,     \* [0 .. H - 1 -> [0 .. W - 1 -> letter or Blank]]
  col,      \* 0 .. W: behind the last column it waits to wrap
  row,
  console

tvars == <<text, col, row, console>>

BlankLine == [x \in 0 .. W - 1 |-> Blank]
BlankText == [y \in 0 .. H - 1 |-> BlankLine]

\* The text when the cursor has gone to the next line, and its row.
Up   == [y \in 0 .. H - 1 |-> IF y = H - 1 THEN BlankLine ELSE text[y + 1]]
Fed  == IF console /\ row = H - 1 THEN Up ELSE [text EXCEPT ![(row + 1) % H] = BlankLine]
Down == IF console /\ row = H - 1 THEN row ELSE (row + 1) % H

LineFeed == text' = Fed /\ row' = Down /\ UNCHANGED <<col, console>>

\* Where the next letter goes.
Wraps == col = W
AtText == IF Wraps THEN Fed ELSE text
AtRow  == IF Wraps THEN Down ELSE row
AtCol  == IF Wraps THEN 0 ELSE col

Type ==
  /\ \E c \in Letters : text' = [AtText EXCEPT ![AtRow][AtCol] = c]
  /\ row' = AtRow /\ col' = AtCol + 1 /\ UNCHANGED console

TabStop ==
  /\ text' = AtText /\ row' = AtRow
  /\ col' = Tab * (AtCol \div Tab + 1) /\ UNCHANGED console

Back == col > 0 /\ col' = col - 1 /\ UNCHANGED <<text, row, console>>
Return == col' = 0 /\ UNCHANGED <<text, row, console>>
Clear == text' = BlankText /\ col' = 0 /\ row' = 0 /\ console' \in BOOLEAN
Place == col' \in 0 .. W - 1 /\ row' \in 0 .. H - 1 /\ UNCHANGED <<text, console>>
EraseLine == \E y \in 0 .. H - 1 : text' = [text EXCEPT ![y] = BlankLine] /\ UNCHANGED <<col, row, console>>

Spec ==
  /\ text = BlankText /\ col = 0 /\ row = 0 /\ console \in BOOLEAN
  /\ [][LineFeed \/ Type \/ TabStop \/ Back \/ Return \/ Clear \/ Place \/ EraseLine]_tvars
=============================================================================
