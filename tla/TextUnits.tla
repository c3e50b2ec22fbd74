----------------------------- MODULE TextUnits -----------------------------
(***************************************************************************)
(* Texts as JavaScript has them, in UTF-16 code units: a character is one  *)
(* unit, or a high and a low surrogate. What is a text at all, what a      *)
(* piece of one may be (scripts/playground-reads.ts and                    *)
(* playground-inspection.ts), and the edits of ranges                      *)
(* (scripts/playground-mutations.ts).                                      *)
(***************************************************************************)
EXTENDS Naturals, Sequences, FiniteSets, SequencesExt

CONSTANTS
  MaxLen,   \* bound: units of a body
  MaxEdits  \* bound: ranges of one edit

VARIABLES
  body,    \* the text there is
  edits,   \* the ranges asked for so far
  result,  \* what applyEdits() says of them
  pieces,  \* the pages of the body read so far
  cursor,  \* the next page's offset
  phase    \* "edits", "applied" or "pages"

vars == <<body, edits, result, pieces, cursor, phase>>

\* A unit: a character of its own, a high surrogate, a low one.
Units == {"a", "H", "L"}
BoundedTexts(n) == UNION {[1..k -> Units] : k \in 0..n}
Replacements == {<<>>, <<"b">>, <<"H", "L">>, <<"H">>}

isWellFormed(text) ==
  \A i \in DOMAIN text :
    /\ text[i] = "H" => i < Len(text) /\ text[i + 1] = "L"
    /\ text[i] = "L" => i > 1 /\ text[i - 1] = "H"

scalarBoundary(text, offset) ==
  /\ offset \in 0..Len(text)
  /\ ~(offset > 0 /\ offset < Len(text) /\ text[offset] = "H" /\ text[offset + 1] = "L")

\* previous is the end of the edit before.
Follows(edit, previous) == edit.from > previous \/ (edit.from = previous /\ edit.from # edit.to)

Allowed(text, es) ==
  /\ es # <<>>
  /\ \A i \in DOMAIN es :
       /\ isWellFormed(es[i].text) /\ es[i].from <= es[i].to
       /\ scalarBoundary(text, es[i].from) /\ scalarBoundary(text, es[i].to)
       /\ i > 1 => Follows(es[i], es[i - 1].to)

Replace(text, e) == SubSeq(text, 1, e.from) \o e.text \o SubSeq(text, e.to + 1, Len(text))

\* From the last to the first.
Replaced(text, es) ==
  LET after[k \in 0..Len(es)] ==
        IF k = 0 THEN text ELSE Replace(after[k - 1], es[Len(es) + 1 - k])
  IN after[Len(es)]

applyEdits(text, es) == IF Allowed(text, es) THEN [ok |-> TRUE, body |-> Replaced(text, es)] ELSE [ok |-> FALSE, body |-> text]

\* textPage(): where the page from offset ends.
PageEnd(text, offset, target) ==
  LET end == IF Len(text) < offset + target THEN Len(text) ELSE offset + target
      whole == IF end < Len(text) /\ end > offset /\ text[end] = "H" THEN end - 1 ELSE end
  IN IF whole = offset /\ whole < Len(text) THEN whole + 2 ELSE whole

\* readFile(): where the chunk from offset ends; at least two units are asked for.
ChunkEnd(text, offset, size) ==
  LET end == IF Len(text) < offset + size THEN Len(text) ELSE offset + size
  IN IF end < Len(text) /\ text[end + 1] = "L" THEN end - 1 ELSE end

-----------------------------------------------------------------------------

Ask(e) ==
  /\ phase = "edits" /\ Len(edits) < MaxEdits
  /\ edits' = Append(edits, e)
  /\ UNCHANGED <<body, result, pieces, cursor, phase>>

Apply ==
  /\ phase = "edits" /\ phase' = "applied"
  /\ result' = applyEdits(body, edits)
  /\ UNCHANGED <<body, edits, pieces, cursor>>

\* The body's pages, of any size each; there are never more than it has units.
NextPage(target, end) ==
  /\ phase \in {"edits", "pages"} /\ edits = <<>> /\ cursor < Len(body)
  /\ Len(pieces) < MaxLen /\ phase' = "pages"
  /\ pieces' = Append(pieces, SubSeq(body, cursor + 1, end)) /\ cursor' = end
  /\ UNCHANGED <<body, edits, result>>

Page(target) == NextPage(target, PageEnd(body, cursor, target))
Chunk(size) == size >= 2 /\ NextPage(size, ChunkEnd(body, cursor, size))

Init ==
  /\ body \in {t \in BoundedTexts(MaxLen) : isWellFormed(t)}
  /\ edits = <<>> /\ result = [ok |-> FALSE, body |-> body]
  /\ pieces = <<>> /\ cursor = 0 /\ phase = "edits"

Next ==
  \/ phase = "edits" /\ Len(edits) < MaxEdits /\ \E from \in 0..(Len(body) + 1), to \in 0..(Len(body) + 1), text \in Replacements :
       Ask([from |-> from, to |-> to, text |-> text])
  \/ Apply
  \/ \E size \in 1..(MaxLen + 1) : Page(size) \/ Chunk(size)

Spec == Init /\ [][Next]_vars

-----------------------------------------------------------------------------

\* Whatever is edited, the body that results is a text.
TypeOK == isWellFormed(result.body) /\ cursor \in 0..Len(body) /\ phase \in {"edits", "applied", "pages"}

\* Edits that are accepted all refer to the text as it was: from the first to the last,
\* what lies between the ranges is kept, and every replacement is where its range was.
EndOf(k) == IF k = 0 THEN 0 ELSE edits[k].to
Meant(n) ==
  LET upTo[k \in 0..n] ==
        IF k = 0 THEN <<>>
        ELSE upTo[k - 1] \o SubSeq(body, EndOf(k - 1) + 1, edits[k].from) \o edits[k].text
  IN upTo[n]
EditsAreOfOneText ==
  result.ok => result.body = Meant(Len(edits)) \o SubSeq(body, EndOf(Len(edits)) + 1, Len(body))

\* What is refused changes nothing, and what is refused is an edit that splits a
\* character, overlaps another, or is out of the text.
Overlap(d, e) == d.from < e.to /\ e.from < d.to
RefusedForCause ==
  phase = "applied" /\ ~result.ok =>
    /\ result.body = body
    /\ \/ edits = <<>>
       \/ \E i \in DOMAIN edits : edits[i].text = <<"H">> \/ edits[i].from > edits[i].to \/ edits[i].to > Len(body)
       \/ \E i \in DOMAIN edits : ~isWellFormed(SubSeq(body, 1, edits[i].from)) \/ ~isWellFormed(SubSeq(body, 1, edits[i].to))
       \/ \E i, j \in DOMAIN edits :
            /\ i < j
            /\ \/ Overlap(edits[i], edits[j]) \/ edits[j].from < edits[i].to
               \/ (edits[j].from = edits[i].to /\ edits[j].from = edits[j].to)

\* Whatever sizes the pages are asked for in, none splits a character, and put
\* together they are the text.
PagesAreTheText ==
  /\ FlattenSeq(pieces) = SubSeq(body, 1, cursor)
  /\ \A i \in DOMAIN pieces : pieces[i] # <<>> /\ isWellFormed(pieces[i])

\* Edits and pages in UTF-16 units: accepted edits all mean the one text there was,
\* refused ones have a cause and change nothing, and no page splits a character.
UnitsMeanOneText == TypeOK /\ EditsAreOfOneText /\ RefusedForCause /\ PagesAreTheText

-----------------------------------------------------------------------------
(* What makes it inductive.                                                *)

EditRanges == [from : Nat, to : Nat, text : Replacements]

\* The page so far ends where a character does, and is what its pieces were.
PagesInv ==
  /\ cursor \in 0..Len(body) /\ isWellFormed(SubSeq(body, 1, cursor))
  /\ pieces \in Seq(Seq(Units)) /\ PagesAreTheText

UnitsInv ==
  /\ body \in Seq(Units) /\ isWellFormed(body) /\ edits \in Seq(EditRanges)
  /\ phase \in {"edits", "applied", "pages"}
  /\ phase = "applied" => result = applyEdits(body, edits)
  /\ phase # "applied" => result = [ok |-> FALSE, body |-> body]
  /\ PagesInv
=============================================================================
