------------------------------ MODULE MCFaces -------------------------------
(***************************************************************************)
(* What the page shows of a circuit and takes from the reader: the words of*)
(* a rom (RomWords, RomShapes, RomText) and the memories they are for      *)
(* (ImageBinding), the grid of a memory (MemoryPanel), the lines of a      *)
(* simulation (SimLine), the truth table (TruthView), the parts on the     *)
(* canvas (Skins, GateAnatomy) and what the compiler says of the source    *)
(* (Diagnostics). Each is checked by itself: a behaviour of the run is one *)
(* of any one of them, `component` says which, and the variables of the    *)
(* others stay Off, those of RomWords as they begin.                       *)
(***************************************************************************)
EXTENDS RomWords

CONSTANTS
  ByteBits, ShapeWidths, ShapeAddrWidths, MaxBytes, MaxMoves, MaxLen,
  TextWidth, TextAddrWidth, MaxBinds, PanelWidths, PanelAddrWidths, PanelPage,
  Partial, Samples, MaxTurns, Limit, LineChars, MaxChars, Verbs, LineWords,
  MaxTokens, Circuits, TableFormats, Caps, Mantissa, MaxClicks, RulerMax,
  MaxFrames, BoxWidths, Inputs, Edges, SpriteEnds, Apexes, MaxLines, Names,
  MaxChanges

VARIABLES
  component,
  mem, bytes, gaps, cells, live, reshaped, moves, move,
  text,
  source, analysis, artifact, session, images, held, refused, errors, binds,
  bind,
  width, addrWidth, format, word, start, editor, before, quiet, asked,
  turns, turn,
  literal, line,
  circuit, base, cap, running, captured, table, driven, clicks,
  part, ins, out, theme, decoded, tints, fits, edge, marks, hovered, due,
  clock, wrote, frames,
  gate, drawn,
  tabs, request, found, rows, spans, changes

Shapes == INSTANCE RomShapes WITH
          Widths <- ShapeWidths, AddrWidths <- ShapeAddrWidths, MaxSteps <-
          MaxMoves, text <- bytes, implied <- gaps, steps <- moves, last <-
          move
Typed == INSTANCE RomText WITH
          Width <- TextWidth, AddrWidth <- TextAddrWidth
Binding == INSTANCE ImageBinding WITH
          MaxSteps <- MaxBinds, cells <- held, steps <- binds, last <- bind
Panel == INSTANCE MemoryPanel WITH
          Widths <- PanelWidths, AddrWidths <- PanelAddrWidths, Page <- PanelPage, MaxSteps <-
          MaxTurns, steps <- turns, last <- turn
Lines == INSTANCE SimLine WITH
          Words <- LineWords, Chars <- LineChars, text <- literal
Table == INSTANCE TruthView WITH
          MaxSteps <- MaxClicks, Formats <- TableFormats, format <- base, live <- running, steps <-
          clicks
Skin == INSTANCE Skins
Anatomy == INSTANCE GateAnatomy WITH
          Widths <- BoxWidths, Ends <- SpriteEnds
Blame == INSTANCE Diagnostics WITH
          editor <- spans

wordsVars == <<words, implied, act>>
shapesVars == <<mem, bytes, gaps, cells, live, reshaped, moves, move>>
typedVars == <<text>>
bindingVars == <<source, analysis, artifact, session, images, held, refused,
                 errors, binds, bind>>
panelVars == <<width, addrWidth, format, word, start, editor, before, quiet,
               asked, turns, turn>>
linesVars == <<literal, line>>
tableVars == <<circuit, base, cap, running, captured, table, driven, clicks>>
skinVars == <<part, ins, out, theme, decoded, tints, fits, edge, marks,
              hovered, due, clock, wrote, frames>>
anatomyVars == <<gate, drawn>>
blameVars == <<tabs, request, found, rows, spans, changes>>
Vars == <<component, wordsVars, shapesVars, typedVars, bindingVars, panelVars, linesVars, tableVars, skinVars, anatomyVars, blameVars>>

Off == "off"

ShapesOff ==
  /\ mem = Off /\ bytes = Off /\ gaps = Off /\ cells = Off /\ live = Off
  /\ reshaped = Off /\ moves = Off /\ move = Off

TypedOff ==
  /\ text = Off

BindingOff ==
  /\ source = Off /\ analysis = Off /\ artifact = Off /\ session = Off
  /\ images = Off /\ held = Off /\ refused = Off /\ errors = Off
  /\ binds = Off /\ bind = Off

PanelOff ==
  /\ width = Off /\ addrWidth = Off /\ format = Off /\ word = Off
  /\ start = Off /\ editor = Off /\ before = Off /\ quiet = Off
  /\ asked = Off /\ turns = Off /\ turn = Off

LinesOff ==
  /\ literal = Off /\ line = Off

TableOff ==
  /\ circuit = Off /\ base = Off /\ cap = Off /\ running = Off
  /\ captured = Off /\ table = Off /\ driven = Off /\ clicks = Off

SkinOff ==
  /\ part = Off /\ ins = Off /\ out = Off /\ theme = Off /\ decoded = Off
  /\ tints = Off /\ fits = Off /\ edge = Off /\ marks = Off /\ hovered = Off
  /\ due = Off /\ clock = Off /\ wrote = Off /\ frames = Off

AnatomyOff ==
  /\ gate = Off /\ drawn = Off

BlameOff ==
  /\ tabs = Off /\ request = Off /\ found = Off /\ rows = Off
  /\ spans = Off /\ changes = Off

SuiteInit ==
  \/ component = "words" /\ Init
     /\ ShapesOff /\ TypedOff /\ BindingOff /\ PanelOff /\ LinesOff /\ TableOff /\ SkinOff /\ AnatomyOff /\ BlameOff
  \/ component = "shapes" /\ Shapes!Init
     /\ Init /\ TypedOff /\ BindingOff /\ PanelOff /\ LinesOff /\ TableOff /\ SkinOff /\ AnatomyOff /\ BlameOff
  \/ component = "text" /\ Typed!Init
     /\ Init /\ ShapesOff /\ BindingOff /\ PanelOff /\ LinesOff /\ TableOff /\ SkinOff /\ AnatomyOff /\ BlameOff
  \/ component = "binding" /\ Binding!Init
     /\ Init /\ ShapesOff /\ TypedOff /\ PanelOff /\ LinesOff /\ TableOff /\ SkinOff /\ AnatomyOff /\ BlameOff
  \/ component = "panel" /\ Panel!Init
     /\ Init /\ ShapesOff /\ TypedOff /\ BindingOff /\ LinesOff /\ TableOff /\ SkinOff /\ AnatomyOff /\ BlameOff
  \/ component = "lines" /\ Lines!Init
     /\ Init /\ ShapesOff /\ TypedOff /\ BindingOff /\ PanelOff /\ TableOff /\ SkinOff /\ AnatomyOff /\ BlameOff
  \/ component = "table" /\ Table!Init
     /\ Init /\ ShapesOff /\ TypedOff /\ BindingOff /\ PanelOff /\ LinesOff /\ SkinOff /\ AnatomyOff /\ BlameOff
  \/ component = "skins" /\ Skin!Init
     /\ Init /\ ShapesOff /\ TypedOff /\ BindingOff /\ PanelOff /\ LinesOff /\ TableOff /\ AnatomyOff /\ BlameOff
  \/ component = "anatomy" /\ Anatomy!Init
     /\ Init /\ ShapesOff /\ TypedOff /\ BindingOff /\ PanelOff /\ LinesOff /\ TableOff /\ SkinOff /\ BlameOff
  \/ component = "diagnostics" /\ Blame!Init
     /\ Init /\ ShapesOff /\ TypedOff /\ BindingOff /\ PanelOff /\ LinesOff /\ TableOff /\ SkinOff /\ AnatomyOff

SuiteNext ==
  /\ UNCHANGED component
  /\ \/ component = "words" /\ Next
        /\ UNCHANGED <<shapesVars, typedVars, bindingVars, panelVars, linesVars, tableVars, skinVars, anatomyVars, blameVars>>
     \/ component = "shapes" /\ Shapes!Next
        /\ UNCHANGED <<wordsVars, typedVars, bindingVars, panelVars, linesVars, tableVars, skinVars, anatomyVars, blameVars>>
     \/ component = "text" /\ Typed!Next
        /\ UNCHANGED <<wordsVars, shapesVars, bindingVars, panelVars, linesVars, tableVars, skinVars, anatomyVars, blameVars>>
     \/ component = "binding" /\ Binding!Next
        /\ UNCHANGED <<wordsVars, shapesVars, typedVars, panelVars, linesVars, tableVars, skinVars, anatomyVars, blameVars>>
     \/ component = "panel" /\ Panel!Next
        /\ UNCHANGED <<wordsVars, shapesVars, typedVars, bindingVars, linesVars, tableVars, skinVars, anatomyVars, blameVars>>
     \/ component = "lines" /\ Lines!Next
        /\ UNCHANGED <<wordsVars, shapesVars, typedVars, bindingVars, panelVars, tableVars, skinVars, anatomyVars, blameVars>>
     \/ component = "table" /\ Table!Next
        /\ UNCHANGED <<wordsVars, shapesVars, typedVars, bindingVars, panelVars, linesVars, skinVars, anatomyVars, blameVars>>
     \/ component = "skins" /\ Skin!Next
        /\ UNCHANGED <<wordsVars, shapesVars, typedVars, bindingVars, panelVars, linesVars, tableVars, anatomyVars, blameVars>>
     \/ component = "anatomy" /\ Anatomy!Next
        /\ UNCHANGED <<wordsVars, shapesVars, typedVars, bindingVars, panelVars, linesVars, tableVars, skinVars, blameVars>>
     \/ component = "diagnostics" /\ Blame!Next
        /\ UNCHANGED <<wordsVars, shapesVars, typedVars, bindingVars, panelVars, linesVars, tableVars, skinVars, anatomyVars>>

SuiteSpec == SuiteInit /\ [][SuiteNext]_Vars

-----------------------------------------------------------------------------
\* Editing a rom word by word changes, of what the reader chose, only the word edited:
\* no filled gap and no shortening ever shows (EditsAreSparse of RomWords).

\* An image given as text, file or words is the same words in the panel, in the circuit
\* and in the file saved, is taken or refused alike, and a text is the bytes it spells.
ImageIsItsWords ==
  /\ component = "shapes" => Shapes!ImageIsItsWords
  /\ component = "text" => Typed!TextIsItsDigits

\* Whatever moment the analysis and the artifact are of: a memory holds its own file's
\* image, or there is an error to show.
MemoriesHoldTheirImage == component = "binding" => Binding!MemoriesHoldTheirImage

\* A word on screen is told apart from every other, a cell left as it was changes
\* nothing, what is typed means its number, and the pages are the memory.
GridTellsTheWords == component = "panel" => Panel!GridTellsTheWords

\* A line means what it means to the command line: its literals their numbers, its
\* refusal the same fault.
LinesMeanTheSame == component = "lines" => Lines!LinesMeanTheSame

\* The table is of the circuit and the marked row of the pins, however rows are driven,
\* pins toggled and tables enumerated in between.
TableTellsTheCircuit == component = "table" => Table!TableTellsTheCircuit

\* What is drawn tells the values, in the theme the page has, whatever was drawn and
\* kept before, and no part of a gate is drawn over another.
MarksTellTheState ==
  /\ component = "skins" => Skin!MarksTellTheState
  /\ component = "anatomy" => Anatomy!PartsKeepTheirPlaces

\* What the compiler says is listed, and underlined where it meant, in units of the
\* text it looked at, whatever was typed or renamed meanwhile.
BlameIsShown == component = "diagnostics" => Blame!BlameIsShown
=============================================================================
