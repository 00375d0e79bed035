------------------------------ MODULE InvoiceText ------------------------------
(***************************************************************************)
(* modules/invoicing/hebrew-text.util.ts and invoice-pdf.util.ts: a line   *)
(* of an invoice is split into runs of one direction, placed from left to  *)
(* right on the page, and the rows fill pages.  A character is what the    *)
(* code tells apart of it, and every character is 1 wide; a run is an      *)
(* interval of places of the line.  pdfkit and fontkit are external: a run *)
(* with a letter that is written from right to left is drawn backwards,    *)
(* any other as it is.  Heights are tenths of a point.                     *)
(***************************************************************************)
EXTENDS Naturals, Sequences, FiniteSets

CONSTANTS
  Lines,    \* the lines to print
  Box,      \* the width of a column
  Height,   \* of a page
  Margin,
  Reserve,  \* what a row leaves free at the foot of a page: 60 points
  Header,   \* where the first row is
  RowLine, TotalLine,   \* line heights at 10 and at 12 points
  MaxRows   \* bound: rows of an invoice

Letters == {"hebrew"}
Words == {"latin", "digit"}
Brackets == {"(", ")"}
Neutral == Brackets \cup {"glue", "space"}

Characters == Letters \cup Words \cup Neutral

(* What a row leaves free holds the gap under it, the gap over the total   *)
(* and the total; a page holds its margins and that.                       *)
ASSUME TextAssumption ==
  /\ Lines \subseteq Seq(Characters)
  /\ {Box, Height, Margin, Reserve, Header, RowLine, TotalLine, MaxRows} \subseteq Nat
  /\ 2 * RowLine + (4 * RowLine) \div 10 + TotalLine <= Reserve
  /\ Margin + Reserve + Margin <= Height /\ Header + Reserve + Margin <= Height

VARIABLES
  line,     \* the line to print
  align,
  dir,      \* dir[i]: the direction of its character i, once resolved
  drawn,    \* drawn[x]: what is at x of the page: a place of the line and a glyph
  sheet     \* the pages: how many, y, rows[k]: the page and y of row k, the total's

textVars == <<line, align, dir, drawn, sheet>>

TextInit ==
  /\ line \in Lines /\ align \in {"left", "right"}
  /\ dir = <<>> /\ drawn = <<>>
  /\ sheet = [pages |-> 1, y |-> Header, rows |-> <<>>, total |-> <<>>]

-----------------------------------------------------------------------------
(* resolveDirections *)

Classify(c) == IF c \in Letters THEN "R" ELSE IF c \in Words THEN "L" ELSE "N"

Glued(s, i) ==
  /\ s[i] = "glue" /\ 1 < i /\ i < Len(s)
  /\ s[i - 1] = "digit" /\ s[i + 1] = "digit"

Class(s, i) == IF Glued(s, i) THEN "L" ELSE Classify(s[i])

(* The nearest strong character on a side of i, of the classes cls.        *)
Strong(cls) == {j \in DOMAIN cls : cls[j] # "N"}
Before(cls, i) == {j \in Strong(cls) : j < i /\ \A k \in Strong(cls) : k < i => k <= j}
After(cls, i) == {j \in Strong(cls) : j > i /\ \A k \in Strong(cls) : k > i => k >= j}

ResolveDirections ==
  LET cls == [i \in DOMAIN line |-> Class(line, i)] IN
  /\ dir = <<>>
  /\ dir' = [i \in DOMAIN line |->
       IF cls[i] # "N" THEN cls[i]
       ELSE IF \E j \in Before(cls, i), k \in After(cls, i) : cls[j] = "L" /\ cls[k] = "L"
            THEN "L" ELSE "R"]
  /\ UNCHANGED <<line, align, drawn, sheet>>

-----------------------------------------------------------------------------
(* layoutRtlRuns *)

Starts == {i \in DOMAIN dir : i = 1 \/ dir[i] # dir[i - 1]}
EndOf(i) ==
  CHOOSE j \in i..Len(dir) : \A k \in i..Len(dir) : k <= j <=> \A l \in i..k : dir[l] = dir[i]
Run(i) == [from |-> i, to |-> EndOf(i), dir |-> dir[i]]

TextRuns == {Run(i) : i \in Starts}

(* mutant: the runs in the order of the text *)
MLeads(q, r) == q.from < r.from

(* The first run of the text is the rightmost one.                         *)
Leads(q, r) == q.from > r.from

Mirrored(c) == CASE c = "(" -> ")" [] c = ")" -> "(" [] OTHER -> c

(* mutant: brackets are mirrored in the other direction *)
MGlyph(c, d) == IF d = "L" THEN Mirrored(c) ELSE c

Glyph(c, d) == IF d = "R" THEN Mirrored(c) ELSE c

-----------------------------------------------------------------------------
(* write: what stands on the page, from left to right *)

(* The cursor, past the runs that are drawn before run.                    *)
Cursor(run) ==
  Cardinality(UNION {q.from..q.to : q \in {r \in TextRuns : Leads(r, run)}})

HasLetters(s, run) == \E i \in run.from..run.to : s[i] \in Letters
Drawn(s, run, k) == IF HasLetters(s, run) THEN run.to - k + 1 ELSE run.from + k - 1

(* A line that is too wide begins at the left edge of its column.          *)
CursorStart(s) ==
  IF align = "left" \/ Len(s) > Box THEN 0 ELSE Box - Len(s)

(* The place of the line that is drawn at c of it.                         *)
Shown(c) ==
  LET run == CHOOSE r \in TextRuns : c \in Cursor(r) + 1..Cursor(r) + r.to - r.from + 1
  IN  Drawn(line, run, c - Cursor(run))

Write ==
  LET start == CursorStart(line) IN
  /\ dir # <<>> /\ drawn = <<>>
  /\ drawn' = [x \in start + 1..start + Len(line) |->
                 LET i == Shown(x - start) IN [place |-> i, glyph |-> Glyph(line[i], dir[i])]]
  /\ UNCHANGED <<line, align, dir, sheet>>

-----------------------------------------------------------------------------
(* The rows, and the total. *)

(* mutant: no new page *)
MIsFull(y) == FALSE

IsFull(y) == y > Height - Margin - Reserve

WriteRow ==
  LET full == IsFull(sheet.y)
      y == IF full THEN Margin ELSE sheet.y
      pages == IF full THEN sheet.pages + 1 ELSE sheet.pages
  IN
  /\ sheet.total = <<>> /\ Len(sheet.rows) < MaxRows
  /\ sheet' = [sheet EXCEPT !.rows = Append(@, <<pages, y>>), !.pages = pages,
                            !.y = y + RowLine + (4 * RowLine) \div 10]
  /\ UNCHANGED <<line, align, dir, drawn>>

WriteTotal ==
  /\ sheet.total = <<>>
  /\ sheet' = [sheet EXCEPT !.total = <<sheet.pages, sheet.y + RowLine>>]
  /\ UNCHANGED <<line, align, dir, drawn>>

TextSpec ==
  TextInit /\ [][ResolveDirections \/ Write \/ WriteRow \/ WriteTotal]_textVars

-----------------------------------------------------------------------------
(* Properties. *)

(* Where the bidirectional algorithm puts character i of a line whose base *)
(* is right to left: counted from the right, a run of the other direction  *)
(* being turned round.                                                     *)
Place(i) ==
  LET run == CHOOSE r \in TextRuns : i \in r.from..r.to
  IN  Len(dir) + 1 - (IF run.dir = "L" THEN run.from + run.to - i ELSE i)

(* What fontkit does not turn: marks that stand alone, on a side where the *)
(* line has no letter.                                                     *)
Unturned(s, i) ==
  \E r \in TextRuns :
    i \in r.from..r.to /\ r.dir = "R" /\ ~HasLetters(s, r)

IsNumber(s, i, j) ==
  /\ s[i] = "digit" /\ s[j] = "digit"
  /\ \A k \in i..j : s[k] = "digit" \/ (s[k] = "glue" /\ s[k - 1] = "digit" /\ s[k + 1] = "digit")

(* A printed line: every character once, inside its column if it fits;     *)
(* each where the bidirectional algorithm puts it, except in a group of    *)
(* marks that fontkit leaves as it is, which stays where it belongs; a     *)
(* number is in one piece and in its order; and two brackets that enclose  *)
(* a Hebrew word enclose it on paper.                                      *)
LineIsReadable ==
  LET at(i) == CHOOSE x \in DOMAIN drawn : drawn[x].place = i
      s == line
  IN
  drawn # <<>> =>
    /\ {drawn[x].place : x \in DOMAIN drawn} = DOMAIN s
    /\ Len(s) <= Box => DOMAIN drawn \subseteq 1..Box
    /\ \A i \in DOMAIN s : ~Unturned(s, i) => at(i) = CursorStart(s) + Place(i)
    /\ \A i, j \in DOMAIN s : i <= j /\ IsNumber(s, i, j) => at(j) = at(i) + j - i
    /\ \A i, j \in DOMAIN s :
         /\ i + 1 < j /\ s[i] = "(" /\ s[j] = ")" /\ \A k \in i + 1..j - 1 : s[k] \in Letters
         /\ {dir[i], dir[j]} = {"R"}
         => at(j) < at(i) /\ drawn[at(j)].glyph = "(" /\ drawn[at(i)].glyph = ")"

(* Rows stand one under the other, on the pages in turn, and neither a row *)
(* nor the total leaves the page.                                          *)
PagesHold ==
  LET rows == sheet.rows
      bottom == Height - Margin
  IN
  /\ \A k \in DOMAIN rows : rows[k][2] + RowLine <= bottom
  /\ \A k \in DOMAIN rows : k > 1 =>
       \/ rows[k][1] = rows[k - 1][1] /\ rows[k][2] >= rows[k - 1][2] + RowLine
       \/ rows[k][1] = rows[k - 1][1] + 1 /\ rows[k][2] = Margin
  /\ sheet.total # <<>> => sheet.total[2] + TotalLine <= bottom

(* What the customer gets can be read: the lines, and where they stand.    *)
InvoiceIsReadable == LineIsReadable /\ PagesHold
=============================================================================
