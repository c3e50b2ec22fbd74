---------------------------- MODULE Diagnostics -----------------------------
(***************************************************************************)
(* What the compiler says of the source, put where the reader sees it      *)
(* (scripts/circ-diagnostics.ts, publishDiagnostics() and the footer of    *)
(* components/Playground.astro): its lines count from one in each file and *)
(* its columns in bytes, the editor counts UTF-16 units from zero, and the *)
(* files may be edited, renamed, added, deleted and moved while it looks.  *)
(* A character is "a" (one byte, one unit), "e" (two bytes, one unit) or   *)
(* "s" (four bytes, two units); a body is a sequence of lines.             *)
(***************************************************************************)
EXTENDS Naturals, Sequences, FiniteSets, SequencesExt

CONSTANTS
  MaxLines,   \* bound: lines of a body
  Names,      \* names of files, and so paths under PLAYGROUND_DIR
  MaxChanges  \* bound: changes of the files

VARIABLES
  tabs,       \* the files: [name, body]
  request,    \* the analysis that owns its slot: the files it was queued with
  found,      \* the analysis shown: the diagnostic, and the files it is of
  rows,       \* state.mapped
  editor,     \* tab -> the spans its document was given
  changes

vars == <<tabs, request, found, rows, editor, changes>>

Builtin == "builtin"
None == [on |-> FALSE]
Lines == {<<>>, <<"a", "e">>, <<"s", "a">>}   \* bound: what a line may be
Bodies == UNION {[1..n -> Lines] : n \in 1..MaxLines}
OneIsLong(files) == Cardinality({t \in DOMAIN files : Len(files[t].body) > 1}) < 2   \* bound

-----------------------------------------------------------------------------
(* Bytes and units.                                                        *)

Bytes(ch) == CASE ch = "a" -> 1 [] ch = "e" -> 2 [] ch = "s" -> 4
UnitsOf(ch) == IF ch = "s" THEN <<"high", "low">> ELSE <<ch>>

BytesIn(line, k) == FoldLeft(LAMBDA n, ch : n + Bytes(ch), 0, SubSeq(line, 1, k))
Units(line) == FlattenSeq([k \in DOMAIN line |-> UnitsOf(line[k])])
UnitsIn(line, k) == Len(Units(SubSeq(line, 1, k)))

\* The characters before the first that starts at the column or after it.
CharsBefore(line, col) ==
  CHOOSE k \in 0..Len(line) :
    /\ BytesIn(line, k) >= col - 1 \/ k = Len(line)
    /\ \A j \in 0..(k - 1) : BytesIn(line, j) < col - 1

byteColToUtf16(line, col) == UnitsIn(line, CharsBefore(line, col)) + 1

\* indexDoc(). Lines count from zero, as offsets do.
Line(body, line0) == body[line0 + 1]
Start(body, line0) == FoldLeft(LAMBDA n, l : n + Len(Units(l)) + 1, 0, SubSeq(body, 1, line0))
Length(body) == Start(body, Len(body)) - 1

Least(a, b) == IF a < b THEN a ELSE b

clampLine(body, line0) == Least(line0, Len(body) - 1)

offsetAt(body, docLine0, col) ==
  LET line0 == clampLine(body, docLine0)
  IN Least(Start(body, line0) + byteColToUtf16(Line(body, line0), col) - 1, Length(body))

lineOfOffset(body, offset) ==
  CHOOSE l \in 0..(Len(body) - 1) :
    /\ Start(body, l) <= offset
    /\ \A m \in 0..(Len(body) - 1) : Start(body, m) <= offset => m <= l

-----------------------------------------------------------------------------
(* One diagnostic in one file.                                             *)

\* fileNameFor() and docLine(): only the file blamed can place it.
Places(file, d) == d.path = file.name

\* A whole code point.
Step(line, col) ==
  IF Units(line)[col + 1] = "high" /\ col + 1 < Len(Units(line)) THEN 2 ELSE 1

\* An empty span shows nothing: it is widened where the line has room.
Widened(body, from) ==
  LET line0 == lineOfOffset(body, from)
      line  == Line(body, line0)
      col   == from - Start(body, line0)
  IN IF col < Len(Units(line)) THEN Least(from + Step(line, col), Length(body)) ELSE from

rangeToSpan(body, d) ==
  LET from == offsetAt(body, d.startLine - 1, d.startCol)
      end  == offsetAt(body, d.endLine - 1, d.endCol)
  IN [from |-> from, to |-> IF end > from THEN end ELSE Widened(body, from)]

\* mapDiagnostics() for one file: the column is converted only where there is a
\* line to convert it on.
MappedDiagnostic(file, d) ==
  IF Places(file, d)
    THEN [placed |-> TRUE, span |-> rangeToSpan(file.body, d), path |-> d.path, line |-> d.startLine,
          column |-> byteColToUtf16(Line(file.body, clampLine(file.body, d.startLine - 1)), d.startCol)]
    ELSE [placed |-> FALSE, path |-> d.path, line |-> d.startLine, column |-> d.startCol]

keyOf(m) == <<m.path, m.line, m.column>>

\* mapPerTab(): what each tab placed, then what the first tab did not, unless a
\* row of that key is there. A row is what was mapped and its tab, 0 for none.
mapPerTab(files, d) ==
  LET perTab == [t \in DOMAIN files |-> MappedDiagnostic(files[t], d)]
      placed == {t \in DOMAIN files : perTab[t].placed}
      keys   == {keyOf(perTab[t]) : t \in placed}
      rest   == IF ~perTab[1].placed /\ keyOf(perTab[1]) \notin keys THEN {0} ELSE {}
  IN [t \in placed \cup rest |-> IF t = 0 THEN perTab[1] ELSE perTab[t]]

-----------------------------------------------------------------------------
(* The page.                                                               *)

Counted == changes < MaxChanges /\ changes' = changes + 1

\* Mutant: the reply to an analysis of older files comes through.
SupersededLate == UNCHANGED request

\* schedule(): the next analysis takes the slot, and the reply to the one in
\* flight is dropped when it comes (ownsOperation() in runAnalyze()).
Superseded == request' = None

\* What is typed moves the spans along, which is the editor's affair; the list
\* stays until the next analysis.
Edit(t, body) ==
  /\ body # tabs[t].body /\ Counted /\ Superseded
  /\ tabs' = [tabs EXCEPT ![t].body = body] /\ OneIsLong(tabs')
  /\ editor' = [editor EXCEPT ![t] = {}]
  /\ UNCHANGED <<found, rows>>

\* Another list of names, or another file to compile: list and spans are emptied.
Cleared ==
  /\ Superseded
  /\ found' = None /\ rows' = [t \in {} |-> 0] /\ editor' = [t \in DOMAIN tabs' |-> {}]

Free(name) == \A t \in DOMAIN tabs : tabs[t].name # name

\* A comment and a line to begin on.
seedBody == <<<<"a", "e">>, <<>>>>

Rename(t, name) == Free(name) /\ Counted /\ tabs' = [tabs EXCEPT ![t].name = name] /\ Cleared

\* Before the root, which stays the last.
addFile(name) ==
  /\ Free(name) /\ Counted
  /\ tabs' = InsertAt(tabs, Len(tabs), [name |-> name, body |-> seedBody]) /\ Cleared

deleteFile(t) == Len(tabs) > 1 /\ Counted /\ tabs' = RemoveAt(tabs, t) /\ Cleared

moveFile(from, to) ==
  /\ from # to /\ Counted
  /\ tabs' = InsertAt(RemoveAt(tabs, from), to, tabs[from]) /\ Cleared

Select == UNCHANGED <<tabs, changes>> /\ Cleared

\* What was answered of these files is not asked again (bound).
Ask ==
  /\ ~request.on /\ (found.on => found.files # tabs)
  /\ request' = [on |-> TRUE, files |-> tabs] /\ UNCHANGED <<tabs, found, rows, editor, changes>>

\* The compiler blames the characters from the k-th of a line up to the n-th of
\* the same or a later one, in bytes; or something in a file of its own.
Blames(file, l, k, m, n) ==
  /\ l < m \/ (l = m /\ k <= n)
  /\ found' = [on |-> TRUE, files |-> request.files, first |-> <<l, k>>, last |-> <<m, n>>,
               path |-> file.name, startLine |-> l, startCol |-> BytesIn(file.body[l], k) + 1,
               endLine |-> m, endCol |-> BytesIn(file.body[m], n) + 1]

BlamesBuiltin ==
  found' = [on |-> TRUE, files |-> request.files, first |-> <<1, 0>>, last |-> <<1, 0>>,
            path |-> Builtin, startLine |-> 1, startCol |-> 1, endLine |-> 1, endCol |-> 1]

isFresh(t) == request.files[t].body = tabs[t].body

\* publishDiagnostics(): the list always, the spans where the document is the one
\* that was analysed, and none when a file came or went meanwhile.
publishDiagnostics(d) ==
  /\ rows' = mapPerTab(tabs, d)
  /\ editor' = [t \in DOMAIN tabs |->
                  IF Len(request.files) # Len(tabs) \/ ~isFresh(t) THEN editor[t]
                  ELSE IF Places(tabs[t], d) THEN {rangeToSpan(tabs[t].body, d)} ELSE {}]

Answer ==
  /\ request.on
  /\ \/ BlamesBuiltin
     \/ \E t \in DOMAIN request.files : \E l, m \in DOMAIN request.files[t].body :
          \E k \in 0..Len(request.files[t].body[l]), n \in 0..Len(request.files[t].body[m]) :
            Blames(request.files[t], l, k, m, n)
  /\ publishDiagnostics(found')
  /\ request' = None
  /\ UNCHANGED <<tabs, changes>>

Init ==
  /\ tabs \in {<<[name |-> "a", body |-> b], [name |-> "b", body |-> c]>> : b, c \in Bodies}
  /\ OneIsLong(tabs)
  /\ request = None /\ found = None /\ rows = [t \in {} |-> 0]
  /\ editor = [t \in DOMAIN tabs |-> {}] /\ changes = 0

Next ==
  \/ \E t \in DOMAIN tabs : \/ \E b \in Bodies : Edit(t, b)
                            \/ \E n \in Names : Rename(t, n)
                            \/ deleteFile(t)
                            \/ \E u \in DOMAIN tabs : moveFile(t, u)
  \/ \E n \in Names : addFile(n)
  \/ Select \/ Ask \/ Answer

Spec == Init /\ [][Next]_vars

-----------------------------------------------------------------------------
\* Spans and rows are of the tabs there are.
TypeOK ==
  /\ \A t \in DOMAIN tabs : tabs[t].name \in Names /\ tabs[t].body \in Bodies
  /\ DOMAIN rows \subseteq 0..Len(tabs) /\ DOMAIN editor = DOMAIN tabs /\ changes \in 0..MaxChanges

\* The body's units, its lines apart.
Text(body) ==
  FlattenSeq([i \in DOMAIN body |-> IF i = Len(body) THEN Units(body[i]) ELSE Append(Units(body[i]), "nl")])

\* The place of a position of the compiler's in the text, counted in units.
PlaceOf(body, p) == Start(body, p[1] - 1) + UnitsIn(body[p[1]], p[2])

\* A row of the list names the place the compiler meant: its line, and its column
\* in the units the editor counts, whatever was typed since the question.
RowsTellThePlace ==
  \A t \in DOMAIN rows \ {0} :
    /\ found.files[t].name = found.path
    /\ rows[t].line = found.first[1]
    /\ Start(found.files[t].body, rows[t].line - 1) + rows[t].column - 1 = PlaceOf(found.files[t].body, found.first)

\* No span leaves its document or ends within a character.
SpansAreOfCharacters ==
  \A t \in DOMAIN editor : \A span \in editor[t] :
    LET text == Text(tabs[t].body)
    IN /\ span.from <= span.to /\ span.to <= Len(text)
       /\ \A end \in {span.from, span.to} : end < Len(text) => text[end + 1] # "low"

\* What the editor underlines is what the compiler blamed, and when that is
\* nothing, the character there, unless the line ends.
UnderlinesTheBlame ==
  \A t \in DOMAIN editor : \A span \in editor[t] :
    LET body  == tabs[t].body
        from  == PlaceOf(body, found.first)
        to    == PlaceOf(body, found.last)
        there == body[found.first[1]]
    IN /\ tabs[t].name = found.path /\ span.from = from
       /\ IF to > from THEN span.to = to
          ELSE span.to = from + IF found.first[2] < Len(there) THEN Len(UnitsOf(there[found.first[2] + 1])) ELSE 0

\* "the placeless ones are emitted once": a diagnostic is one row of the list.
EachIsListedOnce == found.on => Cardinality(DOMAIN rows) = 1

\* It is never left out, and it is one row unless its file is not the first and has
\* more bytes than units before the place.
OnceWhereBytesAreUnits ==
  found.on =>
    \/ EachIsListedOnce
    \/ /\ DOMAIN rows \notin {{}, {0}, {1}}
       /\ \E f \in ToSet(found.files) :
            /\ f.name = found.path
            /\ \E ch \in ToSet(SubSeq(f.body[found.first[1]], 1, found.first[2])) : Bytes(ch) # Len(UnitsOf(ch))

\* What the compiler says is listed at its place, and underlined where it meant,
\* in units of the text it looked at.
BlameIsShown ==
  TypeOK /\ RowsTellThePlace /\ SpansAreOfCharacters /\ UnderlinesTheBlame /\ OnceWhereBytesAreUnits
=============================================================================
