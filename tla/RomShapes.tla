----------------------------- MODULE RomShapes ------------------------------
(***************************************************************************)
(* A rom's image in its bytes, while its declaration changes: the text is  *)
(* kept as it is and read anew against every shape, edited where it can be *)
(* read, and loaded into the circuit the artifact was built from. The      *)
(* words of an edit are editWord()'s, which RomWords looks at alone.       *)
(***************************************************************************)
EXTENDS RomImage

CONSTANTS Widths, AddrWidths, MaxBytes, MaxSteps   \* bounds: the shapes, the image and the acts

Shapes == [width : Widths, addrWidth : AddrWidths]

VARIABLES
  mem,        \* the declaration
  text,       \* the bytes of romImages.get(name)
  implied,    \* romImplied.get(name)
  cells,      \* the words of the running circuit
  live,       \* the shape it was built with
  reshaped,   \* the declaration changed while something was implied
  steps, last

vars == <<mem, text, implied, cells, live, reshaped, steps, last>>

Step(what) == steps < MaxSteps /\ steps' = steps + 1 /\ last' = what

Empty(m) == [a \in 0..(maxWords(m) - 1) |-> Unknown]

\* applyRomImages(): into a circuit of the declared shape only; an empty image
\* clears.
Loaded(bytes, cs) ==
  IF mem # live \/ ~Readable(bytes, mem) THEN cs
  ELSE IF bytes = <<>> THEN Empty(live)
  ELSE decode(bytes, live, cs)

\* setImage(): the image of the declared memory, everywhere it has to go.
setImage(bytes, im) ==
  /\ text' = bytes /\ implied' = im
  /\ cells' = Loaded(bytes, cells)
  /\ UNCHANGED <<mem, live, reshaped>>

\* The source's declaration changes, and an analysis says so.
Declare(m) ==
  /\ Step(<<"declare">>) /\ m # mem
  /\ mem' = m /\ reshaped' = (reshaped \/ implied # {})
  /\ UNCHANGED <<text, implied, cells, live>>

\* A build of the declared shape is loaded, with the image.
Build ==
  /\ Step(<<"build">>)
  /\ live' = mem
  /\ cells' = IF Readable(text, mem) THEN decode(text, mem, Empty(mem)) ELSE Empty(mem)
  /\ UNCHANGED <<mem, text, implied, reshaped>>

\* The new words and the new gaps of an edit, as in RomWords.
Written(words, im, addr, value) ==
  [words |-> [k \in 1..(IF addr < Len(words) THEN Len(words) ELSE addr + 1) |->
                IF k = addr + 1 THEN value ELSE IF k <= Len(words) THEN words[k] ELSE 0],
   implied |-> (im \cup Len(words)..(addr - 1)) \ {addr}]

Cut(words, im, n) == [words |-> SubSeq(words, 1, n), implied |-> {a \in im : a < n}]

Unwritten(words, im, addr) ==
  IF addr >= Len(words) THEN Cut(words, im, Len(words))
  ELSE IF addr = Len(words) - 1
    THEN Cut(words, im, CHOOSE e \in 0..addr : (\A a \in e..(addr - 1) : a \in im) /\ (e > 0 => e - 1 \notin im))
  ELSE Cut([words EXCEPT ![addr + 1] = 0], im \cup {addr}, Len(words))

\* editWord() goes on only with an image it can read.
writeRomWord(addr, value) ==
  /\ Readable(text, mem)
  /\ Step(<<"edit", addr>>)
  /\ LET words == wordsOf(text, mem)
         edit  == IF value = Unknown THEN Unwritten(words, implied, addr) ELSE Written(words, implied, addr, value)
     IN setImage(imageOf(edit.words, mem), edit.implied)

\* A text is typed; whether it can be read only its status says.
TypeText == \E n \in 0..MaxBytes : \E bytes \in [1..n -> Byte] : Step(<<"type">>) /\ setImage(bytes, {})

LoadFile ==
  \E n \in 0..MaxBytes : \E bytes \in [1..n -> Byte] :
    imageFromBytes(bytes, mem) /\ Step(<<"file">>) /\ setImage(bytes, {})

\* What the circuit holds is saved, and the file loaded again.
SaveAndLoad ==
  /\ live = mem
  /\ imageFromBytes(encode(cells, live), mem) /\ Step(<<"file">>)
  /\ setImage(encode(cells, live), {})

Init ==
  /\ mem \in Shapes /\ live = mem /\ cells = Empty(mem)
  /\ text = <<>> /\ implied = {} /\ reshaped = FALSE
  /\ steps = 0 /\ last = <<"init">>

Next ==
  \/ \E m \in Shapes : Declare(m)
  \/ Build
  \/ steps < MaxSteps /\ \E addr \in 0..(maxWords(mem) - 1), value \in {Unknown} \cup 0..mask(mem) : writeRomWord(addr, value)
  \/ steps = 0 /\ (TypeText \/ LoadFile)
  \/ SaveAndLoad

Spec == Init /\ [][Next]_vars

-----------------------------------------------------------------------------

TypeOK ==
  /\ mem \in Shapes /\ live \in Shapes
  /\ \A k \in DOMAIN text : text[k] \in Byte
  /\ DOMAIN cells = 0..(maxWords(live) - 1) /\ \A a \in DOMAIN cells : cells[a] \in {Unknown} \cup 0..mask(live)

\* An image that can be read is its words and nothing else: writing them back
\* gives the same bytes.
WordsAreTheImage == Readable(text, mem) => imageOf(wordsOf(text, mem), mem) = text

\* What the grid shows of an image before it runs is what the circuit would
\* hold with it.
PendingIsLive == Readable(text, mem) => decode(text, mem, Empty(mem)) = imageCells(text, mem)

\* The circuit holds the image whenever it was built with the declared shape
\* and the image can be read.
LiveHoldsTheImage == last \notin {<<"declare">>, <<"init">>} /\ live = mem /\ Readable(text, mem) => cells = imageCells(text, mem)

\* A file and a text of the same bytes are taken or refused alike, and what a
\* circuit holds can be saved and loaded.
FilesAreTexts ==
  /\ imageFromBytes(text, mem) <=> Readable(text, mem)
  /\ live = mem => imageFromBytes(encode(cells, live), mem)

\* "Addresses that hold a zero the reader never typed" (scripts/rom-words.ts).
ZeroWhereImplied ==
  Readable(text, mem) => \A a \in implied : a < Len(wordsOf(text, mem)) => wordsOf(text, mem)[a + 1] = 0

\* While no declaration changed under a filled gap.
ImpliedIsZero == ~reshaped => ZeroWhereImplied

\* An image given as text, file or words is the same words in the panel, in the circuit
\* and in the file saved, and is taken or refused alike.
ImageIsItsWords ==
  /\ TypeOK /\ WordsAreTheImage /\ PendingIsLive /\ LiveHoldsTheImage
  /\ FilesAreTexts /\ ImpliedIsZero
=============================================================================
