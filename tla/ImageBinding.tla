---------------------------- MODULE ImageBinding ----------------------------
(***************************************************************************)
(* How an image finds its memory: the open file's by declared name and     *)
(* shape (utils/rom-image.ts), an imported file's in every instance of it  *)
(* (utils/source-images.ts). The source, its analysis, the artifact and    *)
(* the session each may be of another moment. The open file declares a rom *)
(* of Shape m, or none, and has two instances of a file with one of Shape  *)
(* l; a shape is its bytes per word.                                       *)
(***************************************************************************)
EXTENDS Naturals, FiniteSets

CONSTANT MaxSteps   \* bound: edits of the source and the images, and openings

VARIABLES
  source,    \* [m, l]: the shapes the two files declare
  analysis,  \* the source state.analysis is of
  artifact,  \* the source state.artifact is of
  session,   \* whether there is one, and the declaration it was built with
  images,    \* the texts given for the open file's rom and for the imported one's
  cells,     \* component -> <<file, text>> it holds, or Empty
  refused,   \* the components the runtime refuses to load
  errors,    \* the components applyPreloads() has an error for
  steps, last

vars == <<source, analysis, artifact, session, images, cells, refused, errors, steps, last>>

Comp == {"m", "a", "b"}                       \* the rom, and the one in each instance
FileOf(c) == IF c = "m" THEN "m" ELSE "l"     \* the file that declares it
Texts == {"none", "clear", "one", "two", "bad"}   \* no text, an empty one, one byte, two, not hex
Sources == [m : 0..2, l : 1..2]
Empty == <<"", "">>
Absent == [on |-> FALSE, rom |-> 0]

Shape(src, c) == src[FileOf(c)]
Exists(src, c) == Shape(src, c) # 0

\* parseRomImage(): one byte is no word of two.
Valid(text, width) == text \in {"clear", "two"} \/ (text = "one" /\ width = 1)

\* romSymbols(): the open file's declaration, where the analysis has it.
romSymbols(an) == an.m

\* romPlan() for the shape the session knows, then applyRomImages() for the
\* circuit's: what becomes of the rom.
RomOutcome(rom, art) ==
  CASE rom = 0 \/ images.m = "none"  -> "kept"
    [] rom # 0 /\ images.m # "none" /\ ~Valid(images.m, rom) -> "error"
    [] rom # 0 /\ images.m # "none" /\ Valid(images.m, rom) /\ (art.m # rom \/ "m" \in refused) -> "error"
    [] OTHER -> "written"

\* Mutant: one instance of a file is enough.
ImportOutcomeOnce(c, art) ==
  IF images.l = "none" \/ c = "b" THEN "kept"
  ELSE IF ~Valid(images.l, art.l) \/ c \in refused THEN "error" ELSE "written"

\* applyImportedImages(): every instance by its innermost frame and its own id.
ImportOutcome(c, art) ==
  IF images.l = "none" THEN "kept"
  ELSE IF ~Valid(images.l, art.l) \/ c \in refused THEN "error" ELSE "written"

Outcome(c, rom, art) == IF c = "m" THEN RomOutcome(rom, art) ELSE ImportOutcome(c, art)

Written(c) == IF images[FileOf(c)] = "clear" THEN Empty ELSE <<FileOf(c), images[FileOf(c)]>>

\* SimSession.applyPreloads(), on the cells there are.
applyPreloads(rom, art, old) ==
  /\ cells' = [c \in Comp |-> IF Outcome(c, rom, art) = "written" THEN Written(c) ELSE old[c]]
  /\ errors' = {c \in Comp : Outcome(c, rom, art) = "error"}

Unwritten == [c \in Comp |-> Empty]
Counted(what) == steps < MaxSteps /\ steps' = steps + 1 /\ last' = what

-----------------------------------------------------------------------------

Edit(src) ==
  /\ src # source /\ Counted("edit")
  /\ source' = src
  /\ UNCHANGED <<analysis, artifact, session, images, cells, refused, errors>>

Analyse ==
  /\ analysis # source /\ analysis' = source /\ last' = "analysed"
  /\ UNCHANGED <<source, artifact, session, images, cells, refused, errors, steps>>

\* The same bytes and the same file ids are the same artifact, and the session
\* stays; anything else is a new one, and the session goes.
Build ==
  /\ artifact # source /\ analysis = source
  /\ artifact' = source /\ last' = "built"
  /\ session' = Absent /\ cells' = Unwritten /\ errors' = {}
  /\ UNCHANGED <<source, analysis, images, refused, steps>>

\* ensureSession(): with the declarations of the analysis there is.
buildSession ==
  /\ ~session.on /\ Counted("applied")
  /\ session' = [on |-> TRUE, rom |-> romSymbols(analysis)]
  /\ applyPreloads(romSymbols(analysis), artifact, Unwritten)
  /\ UNCHANGED <<source, analysis, artifact, images, refused>>

\* reset(): a new runtime of the same artifact, the same session.
Reset ==
  /\ session.on /\ Counted("applied")
  /\ applyPreloads(session.rom, artifact, Unwritten)
  /\ UNCHANGED <<source, analysis, artifact, session, images, refused>>

\* A text is given, and applied to the session there is.
SetImage(file, text) ==
  /\ text # images[file] /\ Counted("image")
  /\ images' = [images EXCEPT ![file] = text]
  /\ UNCHANGED <<source, analysis, artifact, session, cells, refused, errors>>

Apply ==
  /\ last = "image" /\ last' = "applied"
  /\ IF session.on THEN applyPreloads(session.rom, artifact, cells) ELSE UNCHANGED <<cells, errors>>
  /\ UNCHANGED <<source, analysis, artifact, session, images, refused, steps>>

Init ==
  /\ source \in Sources /\ analysis = source /\ artifact = source
  /\ session = Absent /\ images = [f \in {"m", "l"} |-> "none"]
  /\ cells = Unwritten /\ errors = {} /\ refused \in {{}, {"m"}, {"b"}}
  /\ steps = 0 /\ last = "init"

Next ==
  \/ Apply
  \/ last # "image" /\ \/ \E src \in Sources : Edit(src)
                       \/ Analyse \/ Build \/ buildSession \/ Reset
                       \/ \E f \in {"m", "l"}, t \in Texts \ {"none"} : SetImage(f, t)

Spec == Init /\ [][Next]_vars

-----------------------------------------------------------------------------

TypeOK ==
  /\ source \in Sources /\ analysis \in Sources /\ artifact \in Sources
  /\ session \in [on : BOOLEAN, rom : 0..2] /\ images \in [{"m", "l"} -> Texts]
  /\ cells \in [Comp -> {Empty} \cup ({"m", "l"} \X Texts)]
  /\ errors \subseteq Comp /\ refused \subseteq Comp

\* Whatever moment the analysis is of, no memory ever holds a text of another
\* file or one that is not a whole number of its own words.
NeverTheWrongMemory ==
  \A c \in Comp : cells[c] # Empty =>
    /\ session.on /\ Exists(artifact, c)
    /\ cells[c][1] = FileOf(c) /\ Valid(cells[c][2], Shape(artifact, c))

\* Every instance of a file holds the file's image.
InstancesAlike == refused \cap {"a", "b"} = {} => cells["a"] = cells["b"]

\* After an application, a text given for a memory of the circuit the session
\* knows of is in it, or there is an error to show.
NothingUnsaid ==
  last = "applied" /\ session.on =>
    \A c \in Comp :
      (IF c = "m" THEN session.rom # 0 ELSE TRUE) /\ images[FileOf(c)] \notin {"none", "clear"} =>
        cells[c] = <<FileOf(c), images[FileOf(c)]>> \/ c \in errors

AtRest == source = analysis /\ source = artifact /\ session.on /\ last # "image"

\* "What to write, re-derived from the CURRENT declarations" (utils/rom-image.ts):
\* once everything is of the same source, the rom holds the text given for it.
Rederived ==
  AtRest /\ refused = {} /\ source.m # 0 /\ images.m \in {"one", "two"} /\ Valid(images.m, source.m) =>
    cells["m"] = <<"m", images.m>>

\* While the session was built with today's declaration.
RestHoldsTheImage == session.rom = source.m => Rederived

\* What the session was built with decides, once a text was applied: where that is the
\* circuit's declaration too, the rom holds the text.
AppliedIsHeld ==
  session.on /\ last # "image" /\ refused = {} /\ session.rom # 0 /\ session.rom = artifact.m
    /\ images.m \in {"one", "two"} /\ Valid(images.m, session.rom) => cells["m"] = <<"m", images.m>>

\* The inductive invariant of MemoriesHoldTheirImage.
BindingInv == TypeOK /\ NeverTheWrongMemory /\ InstancesAlike /\ NothingUnsaid /\ AppliedIsHeld

\* Whatever moment the analysis and the artifact are of: a memory holds its own file's
\* image, or there is an error to show.
MemoriesHoldTheirImage ==
  TypeOK /\ NeverTheWrongMemory /\ InstancesAlike /\ NothingUnsaid /\ RestHoldsTheImage
=============================================================================
