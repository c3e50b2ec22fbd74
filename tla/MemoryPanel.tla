---------------------------- MODULE MemoryPanel ----------------------------
(***************************************************************************)
(* One memory on the page: how a word is written down and read back        *)
(* (scripts/memory-panel.ts), the page of words on screen, and the editor  *)
(* a cell turns into (components/Playground.astro). Only the word at Addr  *)
(* has contents here. A word is its value and its known bits, as numbers;  *)
(* a text is a sequence of characters.                                     *)
(***************************************************************************)
EXTENDS Naturals, Sequences, FiniteSets, SequencesExt

CONSTANTS
  Widths,     \* the word widths
  AddrWidths, \* the address widths that are declared in turn
  Page,       \* MEM_PAGE, scaled down
  Partial,    \* bound: words up to this width may be partly known
  Samples,    \* bound: the values of wider words
  MaxSteps    \* bound: pages turned, cells opened and left

VARIABLES
  width, addrWidth,  \* the shape declared
  format,            \* the base the reader chose
  word,              \* <<value, known bits>> of the word at Addr
  start,             \* memWindows
  editor,            \* the text in the open cell and whether the reader typed, or Closed
  before,            \* the word when the cell was opened
  quiet,             \* the circuit has not written since
  asked,             \* the address last jumped to
  steps, last

vars == <<width, addrWidth, format, word, start, editor, before, quiet, asked, steps, last>>

Formats == {"hex", "binary", "decimal"}
Closed == [open |-> FALSE, text |-> <<>>, typed |-> FALSE]
Digits == <<"0", "1", "2", "3", "4", "5", "6", "7", "8", "9", "a", "b", "c", "d", "e", "f">>
Digit(c) == CHOOSE d \in 0..15 : Digits[d + 1] = c
maskFor(w) == 2 ^ w - 1
Bit(n, b) == (n \div 2 ^ b) % 2
AndBits(m, n, w) == FoldLeft(LAMBDA sum, b : sum + 2 ^ (b - 1) * Bit(m, b - 1) * Bit(n, b - 1), 0, [b \in 1..w |-> b])
Words(w) ==
  {<<0, 0>>} \cup {<<v, maskFor(w)>> : v \in 0..maskFor(w)}
  \cup (IF w > Partial THEN {} ELSE {<<AndBits(v, d, w), d>> : v, d \in 0..maskFor(w)})
maxWords(aw) == 2 ^ aw
Radix(f) == CASE f = "hex" -> 16 [] f = "binary" -> 2 [] OTHER -> 10

\* The digits of n, at least `size` of them.
InRadix(n, radix, size) ==
  LET len == CHOOSE k \in 1..20 : n < radix ^ k /\ \A j \in 1..(k - 1) : n >= radix ^ j
      all == IF len > size THEN len ELSE size
  IN [i \in 1..all |-> Digits[((n \div radix ^ (all - i)) % radix) + 1]]

HexSize(w) == (w + 3) \div 4

formatWord(cell, w, f) ==
  CASE cell[2] = 0          -> <<"?">>
    [] cell[2] \notin {0, maskFor(w)} ->
         [i \in 1..w |-> IF Bit(cell[2], w - i) = 0 THEN "x" ELSE Digits[Bit(cell[1], w - i) + 1]]
    [] OTHER -> InRadix(cell[1], Radix(f), CASE f = "hex" -> HexSize(w) [] f = "binary" -> w [] OTHER -> 1)

Prefix(text) == IF Len(text) >= 2 /\ text[1] = "0" /\ text[2] \in {"x", "b"} THEN text[2] ELSE ""
Bad == [ok |-> FALSE, word |-> <<0, 0>>]

\* The digits of a base, as a word of this width.
Read(body, radix, w) ==
  IF body = <<>> \/ \E i \in DOMAIN body : body[i] \notin {Digits[d] : d \in 1..radix} THEN Bad
  ELSE LET value == FoldLeft(LAMBDA n, c : radix * n + Digit(c), 0, body)
       IN IF value > maskFor(w) THEN Bad ELSE [ok |-> TRUE, word |-> <<value, maskFor(w)>>]

parseWord(text, w, f) ==
  CASE text \in {<<>>, <<"?">>} -> [ok |-> TRUE, word |-> <<0, 0>>]
    [] text \notin {<<>>, <<"?">>} /\ Prefix(text) # "" -> Read(SubSeq(text, 3, Len(text)), IF Prefix(text) = "x" THEN 16 ELSE 2, w)
    [] OTHER -> Read(text, Radix(f), w)

formatAddress(addr, aw) == InRadix(addr, 16, IF HexSize(aw) > 1 THEN HexSize(aw) ELSE 1)
NoAddress == 2 ^ 20

\* parseAddress(): "d" in front is for decimal.
parseAddress(text, aw) ==
  LET decimal == text # <<>> /\ text[1] = "d"
      body == IF decimal THEN Tail(text) ELSE IF Prefix(text) = "x" THEN SubSeq(text, 3, Len(text)) ELSE text
      read == Read(body, IF decimal THEN 10 ELSE 16, 18)
  IN IF text = <<>> \/ ~read.ok \/ read.word[1] >= maxWords(aw) THEN NoAddress ELSE read.word[1]

AtLeast(n, k) == IF n < k THEN k ELSE n
AtMost(n, k) == IF n > k THEN k ELSE n

clampWindow(first, count, total) ==
  LET size == AtLeast(AtMost(count, total), 1)
  IN [start |-> AtMost(first, AtLeast(total, size) - size), count |-> size]

\* Mutant: the window starts at the address.
pageContainingAt(addr, count, total) == clampWindow(addr, count, total)

pageContaining(addr, count, total) == clampWindow((addr \div count) * count, count, total)

Win == clampWindow(start, Page, maxWords(addrWidth))
cellWidth(w, f) ==
  AtLeast(CASE f = "hex" -> HexSize(w) [] f = "decimal" -> Len(InRadix(maskFor(w), 10, 1)) [] OTHER -> w, w)

-----------------------------------------------------------------------------

Counted(what) == steps < MaxSteps /\ steps' = steps + 1 /\ last' = what

\* Bound: pages are turned before cells are opened, and cells on the first page.
Paging == ~editor.open /\ last \notin {"left", "escaped"}
FirstPage == start = 0 /\ asked = NoAddress

Turn(to, what) ==
  /\ Counted(what) /\ Paging /\ start' = to
  /\ UNCHANGED <<width, addrWidth, format, word, editor, before, quiet>>

Back == Win.start # 0 /\ Turn(AtLeast(Win.start, Page) - Page, "back") /\ UNCHANGED asked

Forward ==
  /\ Win.start + Win.count < maxWords(addrWidth)
  /\ Turn(Win.start + Page, "forward") /\ UNCHANGED asked

\* An address is typed as the table writes it.
Jump(addr) ==
  LET to == parseAddress(formatAddress(addr, addrWidth), addrWidth)
  IN /\ to # NoAddress /\ asked' = to
     /\ Turn(pageContaining(to, Page, maxWords(addrWidth)).start, "jump")

\* The declaration changes under the page on screen.
Declare(aw) ==
  /\ aw # addrWidth /\ Paging /\ Counted("declared") /\ addrWidth' = aw
  /\ UNCHANGED <<width, format, word, start, editor, before, quiet, asked>>

Still == <<width, addrWidth, format, start, asked>>

\* editCell(): the cell's own text, or nothing where it is unknown.
Open ==
  /\ ~editor.open /\ FirstPage /\ Counted("open")
  /\ editor' = [open |-> TRUE, typed |-> FALSE,
                text |-> IF word[2] = 0 THEN <<>> ELSE formatWord(word, width, format)]
  /\ before' = word /\ quiet' = TRUE
  /\ UNCHANGED <<Still, word>>

Type(text) ==
  /\ editor.open /\ ~editor.typed /\ last' = "typed"
  /\ Len(text) <= cellWidth(width, format) + 4
  /\ editor' = [editor EXCEPT !.text = text, !.typed = TRUE]
  /\ UNCHANGED <<Still, word, before, quiet, steps>>

\* The circuit writes the word while its cell is open.
CircuitWrites ==
  /\ editor.open /\ quiet /\ quiet' = FALSE /\ last' = "circuit"
  /\ word' = <<maskFor(width), maskFor(width)>>
  /\ UNCHANGED <<Still, editor, before, steps>>

\* finish(true): by Enter, refused while it does not parse, or by leaving the
\* cell, which abandons such a text.
Leave(commit) ==
  LET parsed == parseWord(editor.text, width, format)
  IN /\ editor.open /\ (commit => parsed.ok) /\ Counted("left")
     /\ word' = IF parsed.ok THEN parsed.word ELSE word
     /\ editor' = [Closed EXCEPT !.text = editor.text, !.typed = editor.typed]
     /\ UNCHANGED <<Still, before, quiet>>

Escape ==
  /\ editor.open /\ Counted("escaped") /\ editor' = Closed
  /\ UNCHANGED <<Still, word, before, quiet>>

\* What a reader may type: any word of this width in any base, with or without
\* its prefix, and nothing, a question mark, a bare prefix and a word too large.
Typed(w) ==
  {InRadix(v, r, 1) : v \in 0..AtMost(2 ^ w, 9), r \in {2, 10, 16}}
  \cup {<<"0", "x">> \o InRadix(v, 16, 1) : v \in {0, maskFor(w), 2 ^ w}}
  \cup {<<"0", "b">> \o InRadix(v, 2, 1) : v \in {0, maskFor(w), 2 ^ w}}
  \cup {<<>>, <<"?">>, <<"0", "x">>, <<"0", "b">>, <<"x">>, InRadix(2 ^ w, 10, 1), InRadix(maskFor(w), 16, 1)}

Init ==
  /\ width \in Widths /\ addrWidth \in AddrWidths /\ format \in Formats
  /\ word \in {c \in Words(width) : width <= Partial \/ c[1] \in Samples} /\ before = word /\ quiet = TRUE
  /\ start = 0 /\ asked = NoAddress /\ editor = Closed /\ steps = 0 /\ last = "init"

Next ==
  \/ Back \/ Forward
  \/ \E addr \in 0..(maxWords(addrWidth) - 1) : Jump(addr)
  \/ \E aw \in AddrWidths : Declare(aw)
  \/ Open \/ CircuitWrites \/ Escape
  \/ \E commit \in BOOLEAN : Leave(commit)
  \/ editor.open /\ ~editor.typed /\ \E text \in Typed(width) : Type(text)

Spec == Init /\ [][Next]_vars

-----------------------------------------------------------------------------

\* A word is a value of its known bits, and the editor holds a text.
TypeOK ==
  /\ word[2] \in {0, maskFor(width)} \/ (width <= Partial /\ word[2] \in 0..maskFor(width))
  /\ word[1] <= maskFor(width) /\ AndBits(word[1], word[2], width) = word[1]
  /\ Len(editor.text) <= cellWidth(width, format) + 4 /\ format \in Formats

\* No other word is written down the way this one is: what is on screen tells
\* every known bit and every unknown one.
TextTellsTheWord ==
  last = "init" => \A other \in Words(width) : formatWord(other, width, format) = formatWord(word, width, format) => other = word

\* Opening a cell and leaving it changes nothing, where its text begins with
\* neither 0x nor 0b and the circuit wrote nothing meanwhile.
Untouched == last = "left" /\ ~editor.typed /\ quiet
UntouchedKeeps == Untouched /\ Prefix(editor.text) = "" => word = before

\* A text typed is a word of the memory only if some base reads it as that
\* number, and every word that is left is wholly known or wholly unknown.
TypedMeansItsNumber ==
  last = "left" /\ editor.typed /\ word # before /\ quiet /\ word[2] # 0 =>
    /\ word[2] = maskFor(width) /\ word[1] <= maskFor(width)
    /\ \E r \in {2, 10, 16}, p \in {0, 2} : LET size == Len(editor.text) - p IN
         /\ size \in 1..(IF r = 2 THEN 10 ELSE 5)
         /\ InRadix(word[1], r, size) = SubSeq(editor.text, p + 1, Len(editor.text))

\* The pages tile the memory, whatever was declared before: the page on screen
\* starts at a page's start and ends within the memory.
PagesTile ==
  /\ Win.start + Win.count <= maxWords(addrWidth) /\ Win.count = AtMost(Page, maxWords(addrWidth))
  /\ Win.start % Win.count = 0
  /\ last = "jump" => asked \in Win.start..(Win.start + Win.count - 1)

\* Every address the table writes jumps there with 0x in front of it, and
\* without one unless it begins with the d of a decimal.
JumpsWhereTyped ==
  last \in {"init", "declared"} => \A addr \in 0..(maxWords(addrWidth) - 1) :
    LET text == formatAddress(addr, addrWidth)
    IN /\ parseAddress(<<"0", "x">> \o text, addrWidth) = addr
       /\ text[1] # "d" => parseAddress(text, addrWidth) = addr

\* A word on screen is told apart from every other, a cell left as it was changes
\* nothing, what is typed means its number, and the pages are the memory.
GridTellsTheWords ==
  TypeOK /\ TextTellsTheWord /\ UntouchedKeeps /\ TypedMeansItsNumber /\ PagesTile /\ JumpsWhereTyped
=============================================================================
